-------------------------- MODULE AdmissionProofs --------------------------
(***************************************************************************)
(* Proofs about how a handler admits others: clients, through AuthService, *)
(* and exit nodes, through ReverseRegistration.                            *)
(*                                                                         *)
(* The parts of AuthService, for every number of threads and visitors and  *)
(* every setting of the lifetimes that the assumptions allow.              *)
(*                                                                         *)
(* ReverseRegistration, for every set of nodes, every choice of preferred  *)
(* groups, every WebSocket library and any number of broken connections.   *)
(* PoolMatchesTasks is not inductive: it does not say that the group a     *)
(* task is about to read was chosen by the node of its connection, that a  *)
(* node talks on a connection of its own, or that ids are not reused.      *)
(* PInv adds that.                                                         *)
(***************************************************************************)
EXTENDS AuthService, ReverseRegistration, TLAPS

-----------------------------------------------------------------------------
(***************************************************************************)
(* The registration of exit nodes                                          *)
(***************************************************************************)

NodePlaces == {"idle", "opening", "answered", "wait list", "serving"}
TaskPlaces == {"none", "accept", "groups", "select", "serving", "unregister", "await", "done"}
Registered == {"serving", "unregister"}

Types ==
  /\ npc \in [Nodes -> NodePlaces] /\ cur \in [Nodes -> Nat]
  /\ conns \in Nat
  /\ node \in [Conns -> Nodes \cup {"none"}]
  /\ DOMAIN chosen = Conns
  /\ hpc \in [Conns -> TaskPlaces]
  /\ next_id \in Nat /\ node_id \in [Conns -> Nat]

\* a node that talks to the handler does so on a connection of its own
OnOwnConn(n) ==
  npc[n] \in {"wait list", "serving"} =>
    cur[n] \in Conns /\ cur[n] <= conns /\ node[cur[n]] = n

\* a connection not made yet has no task, and a group chosen on one is the
\* choice of its node
Task(c) ==
  /\ c > conns => hpc[c] = "none"
  /\ chosen[c] # NoGroup => c <= conns /\ node[c] \in Nodes /\ chosen[c] = Choice(node[c])
  /\ hpc[c] \in Registered => node_id[c] \in DOMAIN pool /\ pool[node_id[c]].conn = c

\* an entry is that of a task which is registered
Slot(i) ==
  /\ i \in Nat /\ i < next_id
  /\ pool[i].conn \in Conns /\ hpc[pool[i].conn] \in Registered
  /\ node_id[pool[i].conn] = i
  /\ pool[i].node = node[pool[i].conn] /\ pool[i].node \in Nodes
  /\ pool[i].group = Choice(pool[i].node)

PInv ==
  /\ Types
  /\ \A n \in Nodes : OnOwnConn(n)
  /\ \A c \in Conns : Task(c)
  /\ \A i \in DOMAIN pool : Slot(i)

-----------------------------------------------------------------------------

\* Connections are numbered from 1.
LEMMA ConnNumbers == \A c \in Conns : c \in Nat
BY DEF Conns

\* A node chooses a group the handler has, its preferred one if it can.
LEMMA ChoiceIsGroup ==
  \A n \in Nodes : /\ Choice(n) \in Groups
                   /\ Preferred[n] \in Groups => Choice(n) = Preferred[n]
<1>1. Groups = {0, 1, 2} /\ Load[0] = 50 /\ Load[1] = 30 /\ Load[2] = 60
  BY DEF Groups, Load
<1>2. \E g \in Groups : \A h \in Groups : Load[g] <= Load[h]
  BY <1>1
<1>3. LowestLoad \in Groups
  BY <1>2, Zenon DEF LowestLoad
<1>4. QED
  BY <1>3, Zenon DEF Choice

\* Steps that leave the pool, the connections and the choices alone.
LEMMA QuietNode ==
  ASSUME PInv, NEW n \in Nodes, NEW p \in {"idle", "opening", "answered"},
         npc' = [npc EXCEPT ![n] = p], UNCHANGED <<cur, wire, handler>>
  PROVE  PInv'
<1> USE DEF wire, handler
<1>1. Types'
  BY Zenon DEF PInv, Types, NodePlaces
<1>2. \A m \in Nodes : OnOwnConn(m)'
  BY Zenon DEF PInv, Types, OnOwnConn
<1>3. (\A c \in Conns : Task(c)') /\ \A i \in DOMAIN pool' : Slot(i)'
  BY Zenon DEF PInv, Task, Slot
<1>4. QED
  BY <1>1, <1>2, <1>3, Zenon DEF PInv

\* The steps of a node, except the one that makes a connection.
LEMMA NodeKeeps ==
  \A n \in Nodes :
    PInv /\ (Open(n) \/ AnswerUpgrade(n) \/ Refused(n) \/ NodeSeesEnd(n) \/ ReadGroups(n)) => PInv'
<1> SUFFICES ASSUME NEW n \in Nodes, PInv,
                    Open(n) \/ AnswerUpgrade(n) \/ Refused(n) \/ NodeSeesEnd(n) \/ ReadGroups(n)
             PROVE  PInv'
  BY Zenon
<1>1. CASE Open(n) \/ AnswerUpgrade(n) \/ Refused(n) \/ NodeSeesEnd(n)
  BY <1>1, QuietNode, Zenon DEF Open, AnswerUpgrade, Refused, NodeSeesEnd
<1>2. CASE ReadGroups(n) /\ link[cur[n]] # "up"
  BY <1>2, QuietNode, Zenon DEF ReadGroups, wire
<1>3. CASE ReadGroups(n) /\ link[cur[n]] = "up"
  <2>1. /\ npc[n] = "wait list" /\ npc' = [npc EXCEPT ![n] = "serving"]
        /\ chosen' = [chosen EXCEPT ![cur[n]] = Choice(n)]
        /\ UNCHANGED <<cur, conns, node, hpc, pool, next_id, node_id>>
    BY <1>3, Zenon DEF ReadGroups, handler
  <2>2. cur[n] \in Conns /\ cur[n] <= conns /\ node[cur[n]] = n
    BY <2>1, Zenon DEF PInv, OnOwnConn
  <2>3. Types'
    BY <2>1, Zenon DEF PInv, Types, NodePlaces
  <2>4. \A m \in Nodes : OnOwnConn(m)'
    BY <2>1, Zenon DEF PInv, Types, OnOwnConn
  <2>5. ASSUME NEW c \in Conns PROVE Task(c)'
    <3>1. CASE c = cur[n]
      BY <2>1, <2>2, <3>1, Zenon DEF PInv, Types, Task
    <3>2. CASE c # cur[n]
      BY <2>1, <3>2, Zenon DEF PInv, Types, Task
    <3>3. QED
      BY <3>1, <3>2, Zenon
  <2>6. \A i \in DOMAIN pool' : Slot(i)'
    BY <2>1, Zenon DEF PInv, Slot
  <2>7. QED
    BY <2>3, <2>4, <2>5, <2>6, Zenon DEF PInv
<1>4. QED
  BY <1>1, <1>2, <1>3, Zenon

\* A new connection gets the next number and touches no other.
LEMMA ConnectedKeeps == \A n \in Nodes : PInv /\ Connected(n) => PInv'
<1> SUFFICES ASSUME NEW n \in Nodes, PInv, Connected(n) PROVE PInv'
  BY Zenon
<1>1. conns \in Nat
  BY Zenon DEF PInv, Types
<1>2. PICK k \in Nat : k = conns + 1
  BY <1>1
<1>3. /\ k \in Conns /\ conns' = k
      /\ node' = [node EXCEPT ![k] = n] /\ hpc' = [hpc EXCEPT ![k] = "accept"]
      /\ npc' = [npc EXCEPT ![n] = "wait list"] /\ cur' = [cur EXCEPT ![n] = k]
      /\ UNCHANGED <<chosen, pool, next_id, node_id>>
  BY <1>2, Zenon DEF Connected
<1>4. \A c \in Conns : c \in Nat /\ (c # k /\ c > k => c > conns) /\ (c <= conns => c # k /\ c <= k)
  BY <1>1, <1>2, ConnNumbers
<1>5. hpc[k] = "none" /\ chosen[k] = NoGroup
  <2>1. k > conns /\ ~(k <= conns)
    BY <1>1, <1>2
  <2>2. QED
    BY <1>3, <2>1, Zenon DEF PInv, Task
<1>6. Types'
  <2>1. node' \in [Conns -> Nodes \cup {"none"}]
    BY <1>3, Zenon DEF PInv, Types
  <2>2. QED
    BY <1>3, <2>1, Zenon DEF PInv, Types, NodePlaces, TaskPlaces
<1>7. ASSUME NEW m \in Nodes PROVE OnOwnConn(m)'
  <2>1. CASE m = n
    <3>1. cur'[m] = k /\ node'[k] = m /\ conns' = k
      BY <1>3, <2>1, Zenon DEF PInv, Types
    <3>2. k <= k
      BY <1>2
    <3>3. QED
      BY <1>3, <3>1, <3>2, Zenon DEF OnOwnConn
  <2>2. CASE m # n
    <3>1. npc'[m] = npc[m] /\ cur'[m] = cur[m] /\ OnOwnConn(m)
      BY <1>3, <2>2, Zenon DEF PInv, Types
    <3>2. \A c \in Conns : c # k => node'[c] = node[c]
      BY <1>3, Zenon DEF PInv, Types
    <3>3. QED
      BY <1>3, <1>4, <3>1, <3>2, Zenon DEF OnOwnConn
  <2>3. QED
    BY <2>1, <2>2, Zenon
<1>8. ASSUME NEW c \in Conns PROVE Task(c)'
  <2>1. CASE c = k
    <3>1. hpc'[c] = "accept" /\ chosen'[c] = NoGroup /\ conns' = c
      BY <1>3, <1>5, <2>1, Zenon DEF PInv, Types
    <3>2. QED
      BY <1>4, <3>1 DEF Task, Registered
  <2>2. CASE c # k
    <3>1. hpc'[c] = hpc[c] /\ node'[c] = node[c] /\ Task(c)
      BY <1>3, <2>2, Zenon DEF PInv, Types
    <3>2. QED
      BY <1>3, <1>4, <2>2, <3>1, Zenon DEF Task
  <2>3. QED
    BY <2>1, <2>2, Zenon
<1>9. ASSUME NEW i \in DOMAIN pool' PROVE Slot(i)'
  <2>1. i \in DOMAIN pool /\ Slot(i) /\ pool[i].conn # k
    BY <1>3, <1>5, Zenon DEF PInv, Slot, Registered
  <2>2. \A c \in Conns : c # k => node'[c] = node[c] /\ hpc'[c] = hpc[c]
    BY <1>3, Zenon DEF PInv, Types
  <2>3. QED
    BY <1>3, <2>1, <2>2, Zenon DEF Slot
<1>10. QED
  BY <1>6, <1>7, <1>8, <1>9, Zenon DEF PInv

\* Steps of a handler task between places where it is not registered, and its
\* step from serving to unregistering.
LEMMA QuietTask ==
  ASSUME PInv, NEW c \in Conns, hpc[c] # "none", NEW p \in TaskPlaces \ {"none"},
         p \in Registered <=> hpc[c] \in Registered,
         hpc' = [hpc EXCEPT ![c] = p],
         UNCHANGED <<npc, cur, conns, node, chosen, pool, next_id, node_id>>
  PROVE  PInv'
<1>1. Types'
  BY Zenon DEF PInv, Types
<1>2. \A n \in Nodes : OnOwnConn(n)'
  BY Zenon DEF PInv, OnOwnConn
<1>3. ASSUME NEW d \in Conns PROVE Task(d)'
  <2>1. CASE d = c
    BY <2>1, Zenon DEF PInv, Types, Task
  <2>2. CASE d # c
    BY <2>2, Zenon DEF PInv, Types, Task
  <2>3. QED
    BY <2>1, <2>2, Zenon
<1>4. ASSUME NEW i \in DOMAIN pool PROVE Slot(i)'
  BY Zenon DEF PInv, Types, Slot
<1>5. QED
  BY <1>1, <1>2, <1>3, <1>4, Zenon DEF PInv

\* Registration: an id that no entry has, for a task that has none.
LEMMA ReadSelectKeeps == \A c \in Conns : PInv /\ ReadSelect(c) => PInv'
<1> SUFFICES ASSUME NEW c \in Conns, PInv, ReadSelect(c) PROVE PInv'
  BY Zenon
<1>1. /\ hpc[c] = "select" /\ chosen[c] # NoGroup
      /\ pool' = [i \in DOMAIN pool \cup {next_id} |-> IF i = next_id THEN Entry(c) ELSE pool[i]]
      /\ next_id' = next_id + 1 /\ next_id \in Nat
      /\ node_id' = [node_id EXCEPT ![c] = next_id] /\ hpc' = [hpc EXCEPT ![c] = "serving"]
      /\ UNCHANGED <<npc, cur, conns, node, chosen>>
  BY Zenon DEF ReadSelect, nodevars, wire, PInv, Types
<1>2. next_id \notin DOMAIN pool /\ \A i \in DOMAIN pool : pool[i].conn # c
  BY <1>1 DEF PInv, Slot, Registered
<1>3. node[c] \in Nodes /\ chosen[c] = Choice(node[c]) /\ c <= conns
  BY <1>1, Zenon DEF PInv, Task
<1>4. /\ pool'[next_id].conn = c /\ pool'[next_id].node = node[c]
      /\ pool'[next_id].group = chosen[c]
      /\ DOMAIN pool' = DOMAIN pool \cup {next_id}
      /\ \A i \in DOMAIN pool : pool'[i] = pool[i]
  BY <1>1, <1>2, Zenon DEF Entry
<1>5. Types'
  BY <1>1 DEF PInv, Types, TaskPlaces
<1>6. \A n \in Nodes : OnOwnConn(n)'
  BY <1>1, Zenon DEF PInv, OnOwnConn
<1>7. ASSUME NEW d \in Conns PROVE Task(d)'
  <2>1. CASE d = c
    BY <1>1, <1>3, <1>4, <2>1, ConnNumbers, Zenon DEF PInv, Types, Task
  <2>2. CASE d # c
    BY <1>1, <1>4, <2>2, ZenonT(40) DEF PInv, Types, Task
  <2>3. QED
    BY <2>1, <2>2, Zenon
<1>8. ASSUME NEW i \in DOMAIN pool' PROVE Slot(i)'
  <2>1. CASE i = next_id
    BY <1>1, <1>3, <1>4, <2>1 DEF PInv, Types, Slot, Registered
  <2>2. CASE i # next_id
    BY <1>1, <1>2, <1>4, <2>2 DEF PInv, Types, Slot
  <2>3. QED
    BY <2>1, <2>2, Zenon
<1>9. QED
  BY <1>5, <1>6, <1>7, <1>8, Zenon DEF PInv

\* Unregistering removes the task's own entry and no other.
LEMMA UnregisterKeeps == \A c \in Conns : PInv /\ UnregisterNode(c) => PInv'
<1> SUFFICES ASSUME NEW c \in Conns, PInv, UnregisterNode(c) PROVE PInv'
  BY Zenon
<1>1. /\ hpc[c] = "unregister" /\ hpc' = [hpc EXCEPT ![c] = "await"]
      /\ pool' = [i \in DOMAIN pool \ {node_id[c]} |-> pool[i]]
      /\ UNCHANGED <<npc, cur, conns, node, chosen, next_id, node_id>>
  BY Zenon DEF UnregisterNode, Restrict, nodevars, wire
<1>2. /\ DOMAIN pool' = DOMAIN pool \ {node_id[c]} /\ pool[node_id[c]].conn = c
      /\ \A i \in DOMAIN pool' : pool'[i] = pool[i] /\ pool[i].conn # c
  BY <1>1, Zenon DEF PInv, Slot, Task, Registered
<1>3. Types'
  BY <1>1, Zenon DEF PInv, Types, TaskPlaces
<1>4. \A n \in Nodes : OnOwnConn(n)'
  BY <1>1, Zenon DEF PInv, OnOwnConn
<1>5. ASSUME NEW d \in Conns PROVE Task(d)'
  <2>1. CASE d = c
    BY <1>1, <2>1, Zenon DEF PInv, Types, Task, Registered
  <2>2. CASE d # c
    <3>1. hpc[d] \in Registered => node_id[d] # node_id[c]
      BY <1>2, <2>2, Zenon DEF PInv, Task
    <3>2. QED
      BY <1>1, <1>2, <2>2, <3>1, Zenon DEF PInv, Types, Task
  <2>3. QED
    BY <2>1, <2>2, Zenon
<1>6. ASSUME NEW i \in DOMAIN pool' PROVE Slot(i)'
  BY <1>1, <1>2, Zenon DEF PInv, Types, Slot
<1>7. QED
  BY <1>3, <1>4, <1>5, <1>6, Zenon DEF PInv

\* Every step of the handler.
LEMMA HandlerKeeps == \A c \in Conns : PInv /\ HandlerStep(c) => PInv'
<1> SUFFICES ASSUME NEW c \in Conns, PInv, HandlerStep(c) PROVE PInv'
  BY Zenon
<1> USE DEF nodevars, wire
<1>1. CASE AcceptAsync(c) \/ SendGroups(c) \/ EndsUnselected(c) \/ HandlerSeesEnd(c) \/ AwaitSender(c)
  <2>1. PICK p \in {"groups", "select", "done", "unregister"} :
          /\ hpc' = [hpc EXCEPT ![c] = p] /\ hpc[c] # "none"
          /\ p = "unregister" <=> hpc[c] = "serving"
          /\ hpc[c] # "unregister"
    BY <1>1, Zenon DEF AcceptAsync, SendGroups, EndsUnselected, HandlerSeesEnd, AwaitSender
  <2>2. p \in TaskPlaces \ {"none"} /\ (p \in Registered <=> hpc[c] \in Registered)
    BY <2>1, Zenon DEF TaskPlaces, Registered
  <2>3. UNCHANGED <<npc, cur, conns, node, chosen, pool, next_id, node_id>>
    BY <1>1, Zenon DEF AcceptAsync, SendGroups, EndsUnselected, HandlerSeesEnd, AwaitSender
  <2>4. QED
    BY <2>1, <2>2, <2>3, QuietTask, Zenon
<1>2. CASE SenderEnds(c)
  BY <1>2, Zenon DEF SenderEnds, PInv, Types, OnOwnConn, Task, Slot
<1>3. QED
  BY <1>1, <1>2, ReadSelectKeeps, UnregisterKeeps, Zenon DEF HandlerStep

\* PInv is inductive.
LEMMA RegistrationInductive == RegistrationSpec => []PInv
<1>1. RegistrationInit => PInv
  BY DEF RegistrationInit, PInv, Types, NodePlaces, TaskPlaces, OnOwnConn, Task, Slot, Registered
<1>2. PInv /\ [RegistrationNext]_registrationVars => PInv'
  <2> SUFFICES ASSUME PInv, [RegistrationNext]_registrationVars PROVE PInv'
    BY Zenon
  <2>1. ASSUME NEW n \in Nodes, NodeStep(n) PROVE PInv'
    BY <2>1, NodeKeeps, ConnectedKeeps, Zenon DEF NodeStep, Connect
  <2>2. ASSUME NEW c \in Conns, LinkBreaks(c) PROVE PInv'
    BY <2>2, Zenon DEF LinkBreaks, nodevars, handler, PInv, Types, OnOwnConn, Task, Slot
  <2>3. CASE UNCHANGED registrationVars
    BY <2>3, Zenon DEF registrationVars, nodevars, wire, handler, PInv, Types, OnOwnConn, Task, Slot
  <2>4. QED
    BY <2>1, <2>2, <2>3, HandlerKeeps, Zenon DEF RegistrationNext
<1>3. QED
  BY <1>1, <1>2, PTL DEF RegistrationSpec

\* The pool has exactly the entries of the connections being served, under the
\* ids their tasks know, with the group their node chose, for any number of
\* nodes and broken connections (ExitNodePool::register, unregister,
\* handle_exit_node_register, connect_to_handler).
THEOREM PoolAlwaysMatches == RegistrationSpec => []PoolMatchesTasks
<1>1. PInv => PoolMatchesTasks
  <2> SUFFICES ASSUME PInv PROVE PoolMatchesTasks
    BY Zenon
  <2>1. {pool[i].conn : i \in DOMAIN pool} = {c \in Conns : hpc[c] \in {"serving", "unregister"}}
    BY DEF PInv, Slot, Task, Registered
  <2>2. ASSUME NEW i \in DOMAIN pool
        PROVE  /\ node_id[pool[i].conn] = i /\ pool[i].node = node[pool[i].conn]
               /\ pool[i].group \in Groups
               /\ Preferred[pool[i].node] \in Groups => pool[i].group = Preferred[pool[i].node]
    BY ChoiceIsGroup, Zenon DEF PInv, Slot
  <2>3. QED
    BY <2>1, <2>2, Zenon DEF PoolMatchesTasks
<1>2. QED
  BY <1>1, RegistrationInductive, PTL

-----------------------------------------------------------------------------
(***************************************************************************)
(* The /retrieve-token endpoint                                            *)
(***************************************************************************)

\* the token made at time n from the request of v with this base
TokenFor(v, base, n) ==
  [user_id |-> UserOf(base), nonce |-> v, issued_at |-> n, valid_until |-> n + Ttl]

\* what v holds is a token for its own good request, made at time n
Own(v, base, n) ==
  /\ body[v].encrypted = encrypt(diffie_hellman(v, Server), AuthRequest(v, base, Secret))
  /\ result[v] = encrypt(diffie_hellman(v, Server), TokenFor(v, base, n))
  /\ n <= tick
  /\ status[v] = 200 => n <= answeredAt[v]

Bases == {"user1", "text"}

\* The inductive invariant: a result is Failed or a token for the visitor's own
\* request, the bodies are those that were sent, and only an answer has a status.
EInv ==
  /\ tick \in Nat
  /\ phase \in [Visitors -> {"none", "reading", "waiting", "answered", "gone"}]
  /\ DOMAIN body = Visitors /\ DOMAIN result = Visitors
  /\ status \in [Visitors -> {0, 200, 401}] /\ answeredAt \in [Visitors -> Nat]
  /\ \A v \in Visitors :
       /\ phase[v] = "reading" => body[v] \in Bodies(v)
       /\ phase[v] \in {"none", "reading"} => result[v] = Failed
       /\ status[v] = 200 => phase[v] = "answered" /\ result[v] # Failed
       /\ result[v] = Failed \/ \E base \in Bases, n \in Nat : Own(v, base, n)

\* What a body that passes the checks is, and what it is answered with: a body
\* sealed for another server, signed with another secret, too short or no
\* request at all is refused.
LEMMA RetrieveResult ==
  ASSUME NEW v \in Visitors, NEW b \in Bodies(v)
  PROVE  \/ Retrieve(b) = Failed
         \/ \E base \in Bases :
              /\ b.encrypted = encrypt(diffie_hellman(v, Server), AuthRequest(v, base, Secret))
              /\ Retrieve(b) = encrypt(diffie_hellman(v, Server), TokenFor(v, base, tick))
<1> DEFINE content == decrypt(diffie_hellman(b.pk, Server), b.encrypted)
           good == "nonce" \in DOMAIN content
                   /\ verify_with_timestamp(Secret, content.hmac_base, content.timestamp,
                                            content.hmac_signature)
<1>1. ~good => Retrieve(b) = Failed
  BY Zenon DEF Retrieve
<1>2. good => Retrieve(b) = encrypt(diffie_hellman(b.pk, Server), TokenPayload(content))
  BY Zenon DEF Retrieve
<1>3. CASE b.encrypted = Failed
  <2>1. content = Failed
    BY <1>3, Zenon DEF decrypt
  <2>2. "nonce" \notin DOMAIN content
    BY <2>1, Zenon DEF Failed
  <2>3. QED
    BY <1>1, <2>2, Zenon
<1>4. ASSUME NEW s \in {Server, "elsewhere"}, NEW m,
             b = [pk |-> v, encrypted |-> encrypt(diffie_hellman(v, s), m)],
             \/ m = [garbage |-> TRUE]
             \/ \E base \in Bases, secret \in {Secret, "other"} : m = AuthRequest(v, base, secret)
      PROVE  \/ Retrieve(b) = Failed
             \/ \E base \in Bases :
                  /\ b.encrypted = encrypt(diffie_hellman(v, Server), AuthRequest(v, base, Secret))
                  /\ Retrieve(b) = encrypt(diffie_hellman(v, Server), TokenFor(v, base, tick))
  <2>1. b.pk = v /\ b.encrypted = encrypt(diffie_hellman(v, s), m)
    BY <1>4, Zenon
  <2>2. b.encrypted.key = diffie_hellman(v, s) /\ b.encrypted.content = m
    BY <2>1 DEF encrypt
  <2>3. CASE s # Server
    <3>1. diffie_hellman(v, s) # diffie_hellman(v, Server)
      BY <2>3 DEF diffie_hellman
    <3>2. content = Failed
      BY <2>1, <2>2, <3>1, Zenon DEF decrypt
    <3>3. "nonce" \notin DOMAIN content
      BY <3>2, Zenon DEF Failed
    <3>4. QED
      BY <1>1, <3>3, Zenon
  <2>4. CASE s = Server
    <3>1. content = m \/ content = Failed
      BY <2>1, <2>2, <2>4, Zenon DEF decrypt
    <3>2. CASE content = Failed \/ m = [garbage |-> TRUE]
      <4>1. "nonce" \notin DOMAIN content
        BY <3>1, <3>2 DEF Failed
      <4>2. QED
        BY <1>1, <4>1, Zenon
    <3>3. ASSUME NEW base \in Bases, NEW secret \in {Secret, "other"}, content = m,
                 m = AuthRequest(v, base, secret)
          PROVE  \/ Retrieve(b) = Failed
                 \/ /\ b.encrypted = encrypt(diffie_hellman(v, Server), AuthRequest(v, base, Secret))
                    /\ Retrieve(b) = encrypt(diffie_hellman(v, Server), TokenFor(v, base, tick))
      <4>1. /\ content.hmac_base = base /\ content.timestamp = 0 /\ content.nonce = v
            /\ content.hmac_signature = <<secret, base, 0>>
        BY <3>3 DEF AuthRequest, compute_with_timestamp
      <4>2. CASE good
        <5>1. secret = Secret
          BY <4>1, <4>2 DEF verify_with_timestamp, compute_with_timestamp
        <5>2. TokenPayload(content) = TokenFor(v, base, tick)
          BY <4>1, Zenon DEF TokenPayload, TokenFor
        <5>3. QED
          BY <1>2, <2>1, <2>4, <3>3, <4>2, <5>1, <5>2, Zenon
      <4>3. QED
        BY <1>1, <4>2, Zenon
    <3>4. QED
      BY <1>4, <3>1, <3>2, <3>3, Zenon
  <2>5. QED
    BY <2>3, <2>4, Zenon
<1>5. QED
  BY <1>3, <1>4 DEF Bodies, Bases

\* Every step keeps EInv.
LEMMA EndpointStep == EInv /\ [EndpointNext]_endpointVars => EInv'
<1> SUFFICES ASSUME EInv, [EndpointNext]_endpointVars PROVE EInv'
  BY Zenon
<1>1. ASSUME NEW v \in Visitors, Arrive(v) PROVE EInv'
  <2>1. PICK b \in Bodies(v) : body' = [body EXCEPT ![v] = b]
    BY <1>1, Zenon DEF Arrive
  <2>2. ASSUME NEW w \in Visitors, w # v, NEW base, NEW n, Own(w, base, n) PROVE Own(w, base, n)'
    BY <1>1, <2>1, <2>2, Zenon DEF Arrive, Own, EInv, TokenFor
  <2>3. QED
    BY <1>1, <2>1, <2>2 DEF Arrive, EInv, Bodies, AuthRequest
<1>2. ASSUME NEW v \in Visitors, Process(v) PROVE EInv'
  <2>1. /\ phase[v] = "reading" /\ phase' = [phase EXCEPT ![v] = "waiting"]
        /\ UNCHANGED <<tick, body, status, answeredAt>>
        /\ result' \in {[result EXCEPT ![v] = Retrieve(body[v])], result}
    BY <1>2, Zenon DEF Process
  <2>2. status[v] # 200 /\ body[v] \in Bodies(v)
    BY <2>1, Zenon DEF EInv
  <2>3. result'[v] = Failed \/ \E base \in Bases, n \in Nat : Own(v, base, n)'
    <3>1. CASE result'[v] = Retrieve(body[v])
      <4>1. CASE Retrieve(body[v]) = Failed
        BY <3>1, <4>1, Zenon
      <4>2. ASSUME NEW base \in Bases,
                   body[v].encrypted = encrypt(diffie_hellman(v, Server), AuthRequest(v, base, Secret)),
                   Retrieve(body[v]) = encrypt(diffie_hellman(v, Server), TokenFor(v, base, tick))
            PROVE  Own(v, base, tick)'
        BY <2>1, <2>2, <3>1, <4>2 DEF Own, TokenFor, EInv
      <4>3. tick \in Nat /\ tick' = tick
        BY <2>1, Zenon DEF EInv
      <4>4. QED
        BY <2>2, <4>1, <4>2, <4>3, RetrieveResult, Zenon
    <3>2. CASE result' = result
      BY <2>1, <3>2, Zenon DEF EInv
    <3>3. QED
      BY <2>1, <3>1, <3>2 DEF EInv
  <2>4. ASSUME NEW w \in Visitors, w # v, NEW base, NEW n, Own(w, base, n) PROVE Own(w, base, n)'
    BY <2>1, <2>4 DEF Own, EInv, TokenFor
  <2>5. QED
    BY <2>1, <2>2, <2>3, <2>4 DEF EInv
<1>3. ASSUME NEW v \in Visitors, Answer(v) PROVE EInv'
  <2>1. /\ phase[v] = "waiting" /\ phase' = [phase EXCEPT ![v] = "answered"]
        /\ answeredAt' = [answeredAt EXCEPT ![v] = tick] /\ UNCHANGED <<tick, body, result>>
        /\ \/ result[v] # Failed /\ status' = [status EXCEPT ![v] = 200]
           \/ result[v] = Failed /\ status' = [status EXCEPT ![v] = 401]
    BY <1>3, Zenon DEF Answer, Answered
  <2>2. ASSUME NEW w \in Visitors, NEW base, NEW n, Own(w, base, n) PROVE Own(w, base, n)'
    <3>1. CASE w = v
      BY <2>1, <2>2, <3>1, SMTT(30) DEF Own, EInv, TokenFor
    <3>2. CASE w # v
      BY <2>1, <2>2, <3>2 DEF Own, EInv, TokenFor
    <3>3. QED
      BY <3>1, <3>2, Zenon
  <2>3. QED
    BY <2>1, <2>2 DEF EInv
<1>4. ASSUME NEW v \in Visitors, Disconnect(v) PROVE EInv'
  <2>1. ASSUME NEW w \in Visitors, NEW base, NEW n, Own(w, base, n) PROVE Own(w, base, n)'
    BY <1>4, <2>1, Zenon DEF Disconnect, Own, TokenFor
  <2>2. QED
    BY <1>4, <2>1 DEF Disconnect, EInv
<1>5. CASE TickTock
  <2>1. ASSUME NEW w \in Visitors, NEW base, NEW n \in Nat, Own(w, base, n) PROVE Own(w, base, n)'
    BY <1>5, <2>1, SMTT(30) DEF TickTock, Own, EInv, TokenFor
  <2>2. QED
    BY <1>5, <2>1, SMTT(30) DEF TickTock, EInv
<1>6. CASE UNCHANGED endpointVars
  BY <1>6 DEF endpointVars, EInv, Own
<1>7. QED
  BY <1>1, <1>2, <1>3, <1>4, <1>5, <1>6, Zenon DEF EndpointNext

\* A visitor answered 200 holds a token for its own request, sealed with its own
\* secret, for any number of visitors (handle_retrieve_token).
THEOREM AnswersAreOwn == EndpointSpec => []AnswerIsOwn
<1>1. EndpointInit => EInv
  BY DEF EndpointInit, EInv
<1>2. EInv => AnswerIsOwn
  <2> SUFFICES ASSUME EInv, NEW v \in Visitors, status[v] = 200
               PROVE  LET token == decrypt(diffie_hellman(v, Server), result[v])
                      IN  /\ "nonce" \in DOMAIN token /\ token.nonce = v
                          /\ body[v].encrypted =
                               encrypt(diffie_hellman(v, Server),
                                       AuthRequest(v, IF token.user_id = 0 THEN "text" ELSE "user1", Secret))
                          /\ token.valid_until <= answeredAt[v] + Ttl
    BY Zenon DEF AnswerIsOwn
  <2> DEFINE token == decrypt(diffie_hellman(v, Server), result[v])
  <2>1. PICK base \in Bases, n \in Nat : Own(v, base, n)
    BY DEF EInv
  <2>2. result[v] # Failed /\ answeredAt[v] \in Nat /\ Ttl \in Nat
    BY EndpointAssumption DEF EInv
  <2>3. result[v].key = diffie_hellman(v, Server) /\ result[v].content = TokenFor(v, base, n)
    BY <2>1 DEF Own, encrypt
  <2>4. token = TokenFor(v, base, n)
    BY <2>2, <2>3, Zenon DEF decrypt
  <2>5. /\ "nonce" \in DOMAIN token /\ token.nonce = v /\ token.user_id = UserOf(base)
        /\ token.valid_until = n + Ttl
    BY <2>4, SMTT(30) DEF TokenFor
  <2>6. base = IF token.user_id = 0 THEN "text" ELSE "user1"
    BY <2>5 DEF UserOf, Bases
  <2>7. n <= answeredAt[v]
    BY <2>1, Zenon DEF Own
  <2>8. token.valid_until <= answeredAt[v] + Ttl
    BY <2>2, <2>5, <2>7
  <2>9. QED
    BY <2>1, <2>5, <2>6, <2>8, Zenon DEF Own
<1>3. QED
  BY <1>1, <1>2, EndpointStep, PTL DEF EndpointSpec

-----------------------------------------------------------------------------
(***************************************************************************)
(* The key manager.  The inductive invariant is KeyTypeOK, with the mutual *)
(* exclusion of verifications and rotations that the locks give, and       *)
(* PreviousKept; that verify is exact follows from them in one step.       *)
(***************************************************************************)

KInv == KeyTypeOK /\ PreviousKept

\* The key manager starts as KInv says.
LEMMA KeysInit == KeyInit => KInv
<1> SUFFICES ASSUME KeyInit PROVE KInv
  BY Zenon
<1>1. Reading = {} /\ Rotating = {}
  BY Zenon DEF KeyInit, Reading, Rotating
<1>2. 0 \in Times /\ 1 \in Keys /\ 0 \in 0..(MaxTime + GracePeriod) /\ 0 \in 0..(1 - 1) /\ 0 \in 0..1
  BY KeyAssumption DEF Times, Keys
<1>3. KeyTypeOK
  BY <1>1, <1>2, Zenon DEF KeyInit, KeyTypeOK, NoKey
<1>4. PreviousKept
  BY DEF KeyInit, PreviousKept
<1> QED BY <1>3, <1>4, Zenon DEF KInv

\* Every step keeps the types and the exclusion of rotations and verifications.
LEMMA KeyTypeStep == KeyTypeOK /\ PreviousKept /\ [KeyNext]_keyVars => KeyTypeOK'
<1> SUFFICES ASSUME KeyTypeOK, PreviousKept, [KeyNext]_keyVars PROVE KeyTypeOK'
  BY Zenon
<1> USE KeyAssumption DEF KeyTypeOK, Keys, Times, NoKey, Reading, Rotating
<1>1. CASE Tick
  BY <1>1 DEF Tick
<1>2. ASSUME NEW p \in Threads, NEW k \in Keys, VerifyCurrent(p, k) PROVE KeyTypeOK'
  BY <1>2, SMTT(30) DEF VerifyCurrent
<1>3. ASSUME NEW p \in Threads, VerifyPrevious(p) PROVE KeyTypeOK'
  BY <1>3, Zenon DEF VerifyPrevious
<1>4. ASSUME NEW p \in Threads, RotateLock(p) PROVE KeyTypeOK'
  BY <1>4, Zenon DEF RotateLock
<1>5. ASSUME NEW p \in Threads, RotateInstall(p) PROVE KeyTypeOK'
  BY <1>5, SMTT(30) DEF RotateInstall
<1>6. ASSUME NEW p \in Threads, RotateEnd(p) PROVE KeyTypeOK'
  BY <1>6, Zenon DEF RotateEnd
<1>7. ASSUME NEW p \in Threads, ForceRotate(p) PROVE KeyTypeOK'
  BY <1>7, Zenon DEF ForceRotate
<1>8. ASSUME NEW p \in Threads, Cleanup(p) PROVE KeyTypeOK'
  BY <1>8 DEF Cleanup
<1>9. CASE UNCHANGED keyVars
  BY <1>9, Zenon DEF keyVars
<1> QED BY <1>1, <1>2, <1>3, <1>4, <1>5, <1>6, <1>7, <1>8, <1>9, Zenon DEF KeyNext

\* Every step keeps the entry `previous' as verify needs it: rotate refills it,
\* cleanup empties it only once it has expired, and time only moves forward.
LEMMA PreviousStep == KeyTypeOK /\ PreviousKept /\ [KeyNext]_keyVars => PreviousKept'
<1> SUFFICES ASSUME KeyTypeOK, PreviousKept, [KeyNext]_keyVars PROVE PreviousKept'
  BY Zenon
<1> USE KeyAssumption DEF KeyTypeOK, PreviousKept, Keys, Times, NoKey
<1>1. CASE Tick
  BY <1>1 DEF Tick
<1>2. ASSUME NEW p \in Threads, RotateInstall(p) PROVE PreviousKept'
  BY <1>2 DEF RotateInstall
<1>3. ASSUME NEW p \in Threads, Cleanup(p) PROVE PreviousKept'
  BY <1>3, Zenon DEF Cleanup
<1>4. ASSUME UNCHANGED <<now, current, previous, expires_at, retired>> PROVE PreviousKept'
  BY <1>4, Zenon
<1> QED
  BY <1>1, <1>2, <1>3, <1>4, Zenon
  DEF KeyNext, VerifyCurrent, VerifyPrevious, RotateLock, RotateEnd, ForceRotate, keyVars

\* KInv is inductive.
LEMMA KeysInductive == KInv /\ [KeyNext]_keyVars => KInv'
  BY KeyTypeStep, PreviousStep, Zenon DEF KInv

\* In every behaviour the state has its types, and a rotation runs alone.
THEOREM KeysTypeCorrect == KeySpec => []KeyTypeOK
<1>1. KInv => KeyTypeOK
  BY Zenon DEF KInv
<1> QED BY KeysInit, KeysInductive, <1>1, PTL DEF KeySpec

\* The previous key is kept, with its expiry time, until its grace period is over.
THEOREM PreviousAlwaysKept == KeySpec => []PreviousKept
<1>1. KInv => PreviousKept
  BY Zenon DEF KInv
<1> QED BY KeysInit, KeysInductive, <1>1, PTL DEF KeySpec

\* Only the step that looks at the previous key ends a verification.
LEMMA VerifyEnds ==
  ASSUME KeyTypeOK, [KeyNext]_keyVars, NEW p \in Threads, pc[p] = "verify", pc'[p] = "idle"
  PROVE  VerifyPrevious(p)
<1> USE DEF KeyTypeOK
<1>1. CASE UNCHANGED pc
  BY <1>1, Zenon
<1>2. ASSUME NEW q \in Threads, pc[q] # "verify", NEW v, pc' = [pc EXCEPT ![q] = v]
      PROVE  FALSE
  BY <1>2, Zenon
<1>3. ASSUME NEW q \in Threads, VerifyPrevious(q) PROVE VerifyPrevious(p)
  BY <1>3, Zenon DEF VerifyPrevious
<1> QED
  BY <1>1, <1>2, <1>3, Zenon DEF KeyNext, Tick, VerifyCurrent, RotateLock, RotateInstall, RotateEnd,
                          ForceRotate, Cleanup, keyVars

\* verify returns exactly whether the key is the current one, or the last one
\* retired and in its grace period, at the moment it returns.
THEOREM VerifyIsExact == KeySpec => VerifyExact
<1> DEFINE Exact == \A p \in Threads :
                      pc[p] = "verify" /\ pc'[p] = "idle" => ret'[p] = Accepted(sig[p])
<1>1. KInv /\ [KeyNext]_keyVars => [Exact]_keyVars
  <2> SUFFICES ASSUME KInv, [KeyNext]_keyVars, NEW p \in Threads, pc[p] = "verify", pc'[p] = "idle"
               PROVE  ret'[p] = Accepted(sig[p])
    BY Zenon
  <2>1. VerifyPrevious(p)
    BY VerifyEnds, Zenon DEF KInv
  <2>2. ret'[p] = (previous # NoKey /\ now < expires_at /\ previous = sig[p])
    BY <2>1, Zenon DEF VerifyPrevious, KInv, KeyTypeOK
  <2>3. sig[p] \in Nat \ {0} /\ sig[p] < current /\ current \in Nat
    BY KeyAssumption DEF KInv, KeyTypeOK, Reading, Keys
  <2>4. now \in Nat /\ GracePeriod \in Nat /\ retired[sig[p]] \in Nat
    BY KeyAssumption DEF KInv, KeyTypeOK, Times
  <2>5. \/ previous = current - 1 /\ expires_at = retired[current - 1] + GracePeriod
        \/ previous = NoKey /\ now >= retired[current - 1] + GracePeriod
    BY <2>3 DEF KInv, PreviousKept
  <2>6. CASE sig[p] = current - 1
    <3>1. Accepted(sig[p]) <=> now < retired[sig[p]] + GracePeriod
      BY <2>3, <2>6 DEF Accepted
    <3>2. (previous # NoKey /\ now < expires_at /\ previous = sig[p])
            <=> now < retired[sig[p]] + GracePeriod
      BY <2>3, <2>4, <2>5, <2>6 DEF NoKey
    <3> QED BY <2>2, <3>1, <3>2, Zenon DEF Accepted
  <2>7. CASE sig[p] # current - 1
    <3>1. ~Accepted(sig[p])
      BY <2>3, <2>7 DEF Accepted
    <3>2. ~(previous # NoKey /\ now < expires_at /\ previous = sig[p])
      BY <2>5, <2>7, Zenon
    <3> QED BY <2>2, <3>1, <3>2, Zenon DEF Accepted
  <2> QED BY <2>6, <2>7, Zenon
<1>2. KeySpec => []KInv
  BY KeysInit, KeysInductive, PTL DEF KeySpec
<1> QED BY <1>1, <1>2, PTL DEF KeySpec, VerifyExact

-----------------------------------------------------------------------------
(***************************************************************************)
(* The Authenticator.  That none gets past a cache twice is not inductive: *)
(* AInv adds that a call in progress has run for at most MaxCall and began *)
(* while its item was acceptable, and that the cache entry of whatever was *)
(* let through outlives, by MaxCall, the time until which it is acceptable *)
(* (NonceKept, TokenKept).  A slower call may put an earlier expiry in     *)
(* place of a later one; the margins of AuthAssumption are what makes that *)
(* harmless.                                                               *)
(***************************************************************************)

Req(r) == [kind |-> "request", request |-> r]
Tok(t) == [kind |-> "token", token |-> t]
Items == {Req(r) : r \in Requests} \cup {Tok(t) : t \in tokens}
Steps == {"idle", "get", "insert", "issue"}

ATypes ==
  /\ clock \in Nat
  /\ step \in [Calls -> Steps]
  /\ item \in [Calls -> Items \cup {None}]
  /\ began \in [Calls -> Nat] /\ expiry \in [Calls -> Nat] /\ again \in [Calls -> BOOLEAN]
  /\ nonces \in [Nonces -> Nat] /\ used \in [Halves -> Nat]
  /\ passed \subseteq Items

\* a token was issued at most now, for its lifetime
Issued ==
  \A t \in tokens : /\ t.nonce \in Nonces /\ t.valid_until \in Nat
                    /\ t.valid_until <= clock + TokenTtl

\* a call takes at most MaxCall and began while its item was acceptable
InTime(c) ==
  step[c] # "idle" =>
    /\ began[c] <= clock /\ clock <= began[c] + MaxCall
    /\ \/ \E r \in Requests : /\ item[c] = Req(r)
                              /\ r.timestamp <= began[c] + Drift
                              /\ began[c] <= r.timestamp + Drift
       \/ \E t \in tokens : item[c] = Tok(t) /\ began[c] <= t.valid_until /\ step[c] # "issue"
    /\ step[c] = "insert" => expiry[c] >= began[c] + Lifetime(item[c])

\* LaterRefused, of one call
Refusable(c) == again[c] => step[c] = "get" /\ item[c] \in passed

\* an entry with expiry e outlives an item acceptable until `until'
Outlives(e, until) == e > until + MaxCall \/ clock > until + MaxCall

NonceKept ==
  \A r \in Requests : Req(r) \in passed =>
    /\ r.timestamp <= clock + Drift
    /\ Outlives(nonces[r.nonce], r.timestamp + Drift)

TokenKept ==
  \A t \in tokens : Tok(t) \in passed => Outlives(used[Half(t.nonce)], t.valid_until)

AInv ==
  /\ ATypes /\ Issued /\ NonceKept /\ TokenKept
  /\ \A c \in Calls : InTime(c) /\ Refusable(c)

\* The numbers of the configuration.
LEMMA AuthNumbers ==
  /\ Drift \in Nat /\ NonceTtl \in Nat /\ TokenTtl \in Nat /\ TokenSlack \in Nat /\ MaxCall \in Nat
  /\ NonceTtl > 2 * Drift + 2 * MaxCall /\ TokenSlack > 2 * MaxCall
  /\ \A r \in Requests : r.timestamp \in Nat /\ r.nonce \in Nonces
  /\ \A n \in Nonces : Half(n) \in Halves
BY AuthAssumption, Zenon DEF Nonces, Halves

\* A request and a token are told apart by their kind.
LEMMA ItemShapes ==
  /\ \A r : Req(r).kind = "request" /\ Req(r).request = r
  /\ \A t : Tok(t).kind = "token" /\ Tok(t).token = t
  /\ \A r, t : Req(r) # Tok(t)
  /\ \A r : Lifetime(Req(r)) = NonceTtl /\ Existing(Req(r)) = nonces[r.nonce]
  /\ \A t : Lifetime(Tok(t)) = TokenTtl + TokenSlack /\ Existing(Tok(t)) = used[Half(t.nonce)]
<1>1. /\ \A r : Req(r).kind = "request" /\ Req(r).request = r
      /\ \A t : Tok(t).kind = "token" /\ Tok(t).token = t
  BY Zenon DEF Req, Tok
<1>2. \A r, t : Req(r) # Tok(t)
  BY <1>1, Zenon
<1>3. \A r : Lifetime(Req(r)) = NonceTtl /\ Existing(Req(r)) = nonces[r.nonce]
  BY <1>1, Zenon DEF Lifetime, Existing
<1>4. \A t : Lifetime(Tok(t)) = TokenTtl + TokenSlack /\ Existing(Tok(t)) = used[Half(t.nonce)]
  BY <1>1, Zenon DEF Lifetime, Existing
<1>5. QED
  BY <1>1, <1>2, <1>3, <1>4, Zenon

\* Different requests are different items, and so are different tokens.
LEMMA ItemsDiffer ==
  /\ \A q, r : Req(q) = Req(r) => q = r
  /\ \A s, t : Tok(s) = Tok(t) => s = t
<1>1. ASSUME NEW q, NEW r, Req(q) = Req(r) PROVE q = r
  <2>1. Req(q).request = q /\ Req(r).request = r
    BY ItemShapes, Zenon
  <2>2. QED
    BY <1>1, <2>1, Zenon
<1>2. ASSUME NEW s, NEW t, Tok(s) = Tok(t) PROVE s = t
  <2>1. Tok(s).token = s /\ Tok(t).token = t
    BY ItemShapes, Zenon
  <2>2. QED
    BY <1>2, <2>1, Zenon
<1>3. QED
  BY <1>1, <1>2, Zenon

\* A call begins with an item that is acceptable now.
LEMMA BeginKeeps ==
  ASSUME AInv, NEW c \in Calls, step[c] = "idle", NEW i \in Items, Begin(c, i),
         \/ \E r \in Requests : /\ i = Req(r) /\ r.timestamp <= clock + Drift
                                /\ clock <= r.timestamp + Drift
         \/ \E t \in tokens : i = Tok(t) /\ clock <= t.valid_until
  PROVE  AInv'
<1> USE AuthNumbers
<1>1. ATypes'
  BY DEF AInv, ATypes, Begin, Steps, Items
<1>2. Issued' /\ NonceKept' /\ TokenKept'
  BY Zenon DEF AInv, Begin, Issued, NonceKept, TokenKept, Outlives
<1>3. ASSUME NEW d \in Calls, d # c PROVE InTime(d)' /\ Refusable(d)'
  BY <1>3, Zenon DEF AInv, ATypes, Begin, InTime, Refusable, Lifetime
<1>4. InTime(c)' /\ Refusable(c)'
  BY DEF AInv, ATypes, Begin, InTime, Refusable
<1>5. QED
  BY <1>1, <1>2, <1>3, <1>4, Zenon DEF AInv

\* verify and verify_and_consume_token begin with an item that is acceptable.
LEMMA VerifyKeeps == \A c \in Calls : AInv /\ (Verify(c) \/ ConsumeToken(c)) => AInv'
<1> SUFFICES ASSUME NEW c \in Calls, AInv, Verify(c) \/ ConsumeToken(c) PROVE AInv'
  BY Zenon
<1>1. CASE Verify(c)
  <2>1. PICK r \in Requests : /\ step[c] = "idle" /\ clock - r.timestamp \in -Drift .. Drift
                              /\ Begin(c, Req(r))
    BY <1>1, Zenon DEF Verify, Req
  <2>2. r.timestamp <= clock + Drift /\ clock <= r.timestamp + Drift
    BY <2>1, AuthNumbers DEF AInv, ATypes
  <2>3. Req(r) \in Items
    BY Zenon DEF Items
  <2>4. QED
    BY <2>1, <2>2, <2>3, BeginKeeps, Zenon
<1>2. CASE ConsumeToken(c)
  <2>1. PICK t \in tokens : step[c] = "idle" /\ clock <= t.valid_until /\ Begin(c, Tok(t))
    BY <1>2, Zenon DEF ConsumeToken, Tok
  <2>2. Tok(t) \in Items
    BY Zenon DEF Items
  <2>3. QED
    BY <2>1, <2>2, BeginKeeps, Zenon
<1>3. QED
  BY <1>1, <1>2, Zenon

\* A call that ends leaves nothing behind.
LEMMA EndKeeps ==
  ASSUME AInv, NEW c \in Calls, End(c), clock' = clock, tokens \subseteq tokens', passed \subseteq passed'
  PROVE  /\ step' \in [Calls -> Steps] /\ item' \in [Calls -> Items' \cup {None}]
         /\ began' \in [Calls -> Nat] /\ expiry' \in [Calls -> Nat] /\ again' \in [Calls -> BOOLEAN]
         /\ \A d \in Calls : InTime(d)' /\ Refusable(d)'
<1>1. /\ step' \in [Calls -> Steps] /\ began' \in [Calls -> Nat] /\ expiry' \in [Calls -> Nat]
      /\ again' \in [Calls -> BOOLEAN]
  BY Zenon DEF AInv, ATypes, End, Steps
<1>2. item' \in [Calls -> Items' \cup {None}]
  <2>1. Items \subseteq Items'
    BY Zenon DEF Items
  <2>2. QED
    BY <2>1, Zenon DEF AInv, ATypes, End
<1>3. InTime(c)' /\ Refusable(c)'
  BY Zenon DEF AInv, ATypes, End, InTime, Refusable
<1>4. ASSUME NEW d \in Calls, d # c PROVE InTime(d)' /\ Refusable(d)'
  <2>1. /\ step'[d] = step[d] /\ item'[d] = item[d] /\ began'[d] = began[d]
        /\ expiry'[d] = expiry[d] /\ again'[d] = again[d] /\ InTime(d) /\ Refusable(d)
    BY <1>4, Zenon DEF AInv, ATypes, End
  <2>2. Refusable(d)'
    BY <2>1, Zenon DEF Refusable
  <2>3. InTime(d)'
    BY <2>1, Zenon DEF InTime, Lifetime
  <2>4. QED
    BY <2>2, <2>3, Zenon
<1>5. QED
  BY <1>1, <1>2, <1>3, <1>4, Zenon

\* An item let through before the call began is still in its cache.
LEMMA StillThere ==
  ASSUME AInv, NEW c \in Calls, step[c] = "get", again[c]
  PROVE  Existing(item[c]) > clock
<1> USE AuthNumbers
<1>1. item[c] \in passed /\ began[c] \in Nat /\ clock \in Nat /\ clock <= began[c] + MaxCall
  BY Zenon DEF AInv, ATypes, Refusable, InTime
<1>2. ASSUME NEW r \in Requests, item[c] = Req(r), began[c] <= r.timestamp + Drift
      PROVE  Existing(item[c]) > clock
  <2>1. nonces[r.nonce] \in Nat /\ Outlives(nonces[r.nonce], r.timestamp + Drift)
    BY <1>1, <1>2, Zenon DEF AInv, ATypes, NonceKept
  <2>2. nonces[r.nonce] > clock
    BY <1>1, <1>2, <2>1 DEF Outlives
  <2>3. QED
    BY <1>2, <2>2, ItemShapes, ZenonT(40)
<1>3. ASSUME NEW t \in tokens, item[c] = Tok(t), began[c] <= t.valid_until
      PROVE  Existing(item[c]) > clock
  <2>1. /\ used[Half(t.nonce)] \in Nat /\ t.valid_until \in Nat
        /\ Outlives(used[Half(t.nonce)], t.valid_until)
    BY <1>1, <1>3, Zenon DEF AInv, ATypes, TokenKept, Issued
  <2>2. used[Half(t.nonce)] > clock
    BY <1>1, <1>3, <2>1 DEF Outlives
  <2>3. QED
    BY <1>3, <2>2, ItemShapes, ZenonT(40)
<1>4. QED
  BY <1>2, <1>3, Zenon DEF AInv, InTime

\* The look-up of check_and_insert.
LEMMA GetKeeps == \A c \in Calls : AInv /\ Get(c) => AInv'
<1> SUFFICES ASSUME NEW c \in Calls, AInv, Get(c) PROVE AInv'
  BY Zenon
<1>1. /\ step[c] = "get" /\ UNCHANGED <<clock, nonces, used, tokens, passed>>
      /\ clock \in Nat /\ nonces \in [Nonces -> Nat] /\ used \in [Halves -> Nat]
  BY Zenon DEF Get, AInv, ATypes
<1>2. Issued' /\ NonceKept' /\ TokenKept' /\ passed' \subseteq Items'
  BY <1>1, Zenon DEF AInv, ATypes, Issued, NonceKept, TokenKept, Outlives, Items
<1>3. CASE End(c)
  BY <1>1, <1>2, <1>3, EndKeeps, Zenon DEF AInv, ATypes
<1>4. CASE /\ Existing(item[c]) <= clock
           /\ step' = [step EXCEPT ![c] = "insert"]
           /\ expiry' = [expiry EXCEPT ![c] = clock + Lifetime(item[c])]
           /\ UNCHANGED <<item, began, again>>
  <2>1. Lifetime(item[c]) \in Nat
    BY AuthNumbers, SMTT(30) DEF Lifetime
  <2>2. ATypes'
    BY <1>1, <1>2, <1>4, <2>1 DEF AInv, ATypes, Steps, Items
  <2>3. ~again[c]
    <3>1. Existing(item[c]) \in Nat
      <4>1. item[c] # None /\ item[c] \in Items
        <5>1. \/ \E r \in Requests : item[c] = Req(r)
              \/ \E t \in tokens : item[c] = Tok(t)
          BY <1>1, Zenon DEF AInv, InTime
        <5>2. None.kind = "none"
          BY Zenon DEF None
        <5>3. QED
          BY <5>1, <5>2, ItemShapes, Zenon DEF Items
      <4>2. QED
        <5>1. ASSUME NEW r \in Requests, item[c] = Req(r) PROVE Existing(item[c]) \in Nat
          <6>1. r.nonce \in Nonces /\ Existing(Req(r)) = nonces[r.nonce]
            BY AuthNumbers, ItemShapes, Zenon
          <6>2. QED
            BY <1>1, <5>1, <6>1, Zenon
        <5>2. ASSUME NEW t \in tokens, item[c] = Tok(t) PROVE Existing(item[c]) \in Nat
          <6>1. Half(t.nonce) \in Halves /\ Existing(Tok(t)) = used[Half(t.nonce)]
            BY AuthNumbers, ItemShapes, Zenon DEF AInv, Issued
          <6>2. QED
            BY <1>1, <5>2, <6>1, Zenon
        <5>3. QED
          BY <4>1, <5>1, <5>2, Zenon DEF Items
    <3>2. QED
      BY <1>1, <1>4, <3>1, StillThere, SMTT(30)
  <2>4. InTime(c)' /\ Refusable(c)'
    BY <1>1, <1>4, <2>1, <2>3 DEF AInv, ATypes, InTime, Refusable, Lifetime
  <2>5. ASSUME NEW d \in Calls, d # c PROVE InTime(d)' /\ Refusable(d)'
    BY <1>1, <1>4, <2>5, Zenon DEF AInv, ATypes, InTime, Refusable, Lifetime
  <2>6. QED
    BY <1>2, <2>2, <2>4, <2>5, Zenon DEF AInv
<1>5. QED
  BY <1>3, <1>4, Zenon DEF Get

\* The insertion of a nonce and what follows it in verify.
LEMMA InsertNonceKeeps == \A c \in Calls : AInv /\ InsertNonce(c) => AInv'
<1> SUFFICES ASSUME NEW c \in Calls, AInv, InsertNonce(c) PROVE AInv'
  BY Zenon
<1> USE AuthNumbers
<1>1. PICK r \in Requests : /\ item[c] = Req(r)
                            /\ r.timestamp <= began[c] + Drift /\ began[c] <= r.timestamp + Drift
  BY ItemShapes, Zenon DEF InsertNonce, AInv, InTime
<1>2. /\ step[c] = "insert" /\ UNCHANGED <<clock, used, tokens>>
      /\ nonces' = [nonces EXCEPT ![r.nonce] = expiry[c]]
      /\ passed' = passed \cup {Req(r)}
  BY <1>1, ItemShapes, ZenonT(40) DEF InsertNonce
<1>3. /\ clock \in Nat /\ began[c] \in Nat /\ expiry[c] \in Nat /\ r.timestamp \in Nat
      /\ began[c] <= clock /\ clock <= began[c] + MaxCall
      /\ expiry[c] >= began[c] + NonceTtl
  <2>1. clock \in Nat /\ began[c] \in Nat /\ expiry[c] \in Nat /\ r.timestamp \in Nat
    BY Zenon DEF AInv, ATypes
  <2>2. step[c] # "idle"
    BY <1>2, Zenon
  <2>3. /\ began[c] <= clock /\ clock <= began[c] + MaxCall
        /\ expiry[c] >= began[c] + Lifetime(item[c])
    BY <1>2, <2>2, Zenon DEF AInv, InTime
  <2>4. Lifetime(item[c]) = NonceTtl
    BY <1>1, ItemShapes, Zenon
  <2>5. QED
    BY <2>1, <2>3, <2>4, Zenon
<1>4. /\ nonces' \in [Nonces -> Nat] /\ used' \in [Halves -> Nat] /\ clock' \in Nat
      /\ passed' \subseteq Items' /\ Items' = Items
  BY <1>2, <1>3, Zenon DEF AInv, ATypes, Items
<1>5. Issued'
  BY <1>2, Zenon DEF AInv, Issued
<1>6. TokenKept'
  BY <1>2, ItemShapes, Zenon DEF AInv, TokenKept, Outlives
<1>7. NonceKept'
  <2> SUFFICES ASSUME NEW q \in Requests, Req(q) \in passed'
               PROVE  /\ q.timestamp <= clock + Drift
                      /\ nonces'[q.nonce] > q.timestamp + Drift + MaxCall
                           \/ clock > q.timestamp + Drift + MaxCall
    BY <1>2, Zenon DEF NonceKept, Outlives
  <2>1. q.timestamp \in Nat
    BY Zenon
  <2>2. q.timestamp <= clock + Drift
    <3>1. CASE q = r
      BY <1>1, <1>3, <3>1
    <3>2. CASE Req(q) \in passed
      BY <3>2, Zenon DEF AInv, NonceKept
    <3>3. QED
      BY <1>2, <3>1, <3>2, ItemsDiffer, Zenon
  <2>3. CASE q.nonce = r.nonce
    <3>1. nonces'[q.nonce] = expiry[c]
      BY <1>2, <2>3, Zenon DEF AInv, ATypes
    <3>2. QED
      BY <1>3, <2>1, <2>2, <3>1
  <2>4. CASE q.nonce # r.nonce
    <3>1. Req(q) \in passed
      <4>1. Req(q) # Req(r)
        BY <2>4, ItemsDiffer, Zenon
      <4>2. QED
        BY <1>2, <4>1, Zenon
    <3>2. nonces'[q.nonce] = nonces[q.nonce]
      BY <1>2, <2>4, Zenon DEF AInv, ATypes
    <3>3. QED
      BY <2>2, <3>1, <3>2, ZenonT(40) DEF AInv, NonceKept, Outlives
  <2>5. QED
    BY <2>3, <2>4, Zenon
<1>8. CASE End(c)
  BY <1>2, <1>4, <1>5, <1>6, <1>7, <1>8, EndKeeps, Zenon DEF AInv, ATypes
<1>9. CASE step' = [step EXCEPT ![c] = "issue"] /\ UNCHANGED <<item, began, expiry, again>>
  <2>1. ATypes'
    BY <1>4, <1>9, Zenon DEF AInv, ATypes, Steps
  <2>2. InTime(c)' /\ Refusable(c)'
    BY <1>1, <1>2, <1>3, <1>9, Zenon DEF AInv, ATypes, InTime, Refusable
  <2>3. ASSUME NEW d \in Calls, d # c PROVE InTime(d)' /\ Refusable(d)'
    BY <1>2, <1>9, <2>3, Zenon DEF AInv, ATypes, InTime, Refusable, Lifetime
  <2>4. QED
    BY <1>5, <1>6, <1>7, <2>1, <2>2, <2>3, Zenon DEF AInv
<1>10. QED
  BY <1>8, <1>9, Zenon DEF InsertNonce

\* The insertion of a token.
LEMMA InsertTokenKeeps == \A c \in Calls : AInv /\ InsertToken(c) => AInv'
<1> SUFFICES ASSUME NEW c \in Calls, AInv, InsertToken(c) PROVE AInv'
  BY Zenon
<1> USE AuthNumbers
<1>1. PICK t \in tokens : item[c] = Tok(t) /\ began[c] <= t.valid_until
  BY ItemShapes, Zenon DEF InsertToken, AInv, InTime
<1>2. /\ step[c] = "insert" /\ UNCHANGED <<clock, nonces, tokens>>
      /\ used' = [used EXCEPT ![Half(t.nonce)] = expiry[c]]
      /\ passed' = passed \cup {Tok(t)} /\ End(c)
  BY <1>1, ItemShapes, Zenon DEF InsertToken
<1>3. /\ clock \in Nat /\ began[c] \in Nat /\ expiry[c] \in Nat
      /\ began[c] <= clock /\ clock <= began[c] + MaxCall
      /\ expiry[c] >= began[c] + TokenTtl + TokenSlack
  <2>1. clock \in Nat /\ began[c] \in Nat /\ expiry[c] \in Nat
    BY Zenon DEF AInv, ATypes
  <2>2. step[c] # "idle"
    BY <1>2, Zenon
  <2>3. /\ began[c] <= clock /\ clock <= began[c] + MaxCall
        /\ expiry[c] >= began[c] + Lifetime(item[c])
    BY <1>2, <2>2, Zenon DEF AInv, InTime
  <2>4. Lifetime(item[c]) = TokenTtl + TokenSlack
    BY <1>1, ItemShapes, Zenon
  <2>5. QED
    BY <2>1, <2>3, <2>4
<1>4. /\ nonces' \in [Nonces -> Nat] /\ used' \in [Halves -> Nat] /\ clock' \in Nat
      /\ passed' \subseteq Items' /\ Items' = Items
  BY <1>2, <1>3, Zenon DEF AInv, ATypes, Items
<1>5. Issued' /\ NonceKept'
  BY <1>2, ItemShapes, Zenon DEF AInv, Issued, NonceKept, Outlives
<1>6. TokenKept'
  <2> SUFFICES ASSUME NEW q \in tokens, Tok(q) \in passed'
               PROVE  \/ used'[Half(q.nonce)] > q.valid_until + MaxCall
                      \/ clock > q.valid_until + MaxCall
    BY <1>2, Zenon DEF TokenKept, Outlives
  <2>1. q.valid_until \in Nat /\ q.valid_until <= clock + TokenTtl /\ Half(q.nonce) \in Halves
    BY ZenonT(40) DEF AInv, Issued
  <2>2. CASE Half(q.nonce) = Half(t.nonce)
    <3>1. used'[Half(q.nonce)] = expiry[c]
      BY <1>2, <2>1, <2>2, Zenon DEF AInv, ATypes
    <3>2. QED
      BY <1>3, <2>1, <3>1
  <2>3. CASE Half(q.nonce) # Half(t.nonce)
    <3>1. Tok(q) \in passed
      <4>1. Tok(q) # Tok(t)
        BY <2>3, ItemsDiffer, Zenon
      <4>2. QED
        BY <1>2, <4>1, Zenon
    <3>2. used'[Half(q.nonce)] = used[Half(q.nonce)]
      BY <1>2, <2>1, <2>3, Zenon DEF AInv, ATypes
    <3>3. QED
      BY <3>1, <3>2, ZenonT(40) DEF AInv, TokenKept, Outlives
  <2>4. QED
    BY <2>2, <2>3, Zenon
<1>7. QED
  BY <1>2, <1>4, <1>5, <1>6, EndKeeps, Zenon DEF AInv, ATypes

\* A token is issued with its whole lifetime ahead; it was not used before.
LEMMA GenerateTokenKeeps == \A c \in Calls : AInv /\ GenerateToken(c) => AInv'
<1> SUFFICES ASSUME NEW c \in Calls, AInv, GenerateToken(c) PROVE AInv'
  BY Zenon
<1>1. PICK r \in Requests : item[c] = Req(r)
  BY Zenon DEF GenerateToken, AInv, InTime
<1> DEFINE t == [user |-> r.user, nonce |-> r.nonce, valid_until |-> clock + TokenTtl]
<1>2. /\ UNCHANGED <<clock, nonces, used, passed>> /\ End(c) /\ tokens' = tokens \cup {t}
  BY <1>1, ItemShapes, Zenon DEF GenerateToken
<1>3. t.nonce \in Nonces /\ t.valid_until \in Nat /\ t.valid_until <= clock + TokenTtl
  <2>1. clock \in Nat
    BY Zenon DEF AInv, ATypes
  <2>2. r.nonce \in Nonces /\ clock + TokenTtl \in Nat /\ clock + TokenTtl <= clock + TokenTtl
    BY <2>1, AuthNumbers
  <2>3. t.nonce = r.nonce /\ t.valid_until = clock + TokenTtl
    BY Zenon
  <2>4. QED
    BY <2>2, <2>3, Zenon
<1> HIDE DEF t
<1>4. Issued'
  <2>1. \A q \in tokens : q.nonce \in Nonces /\ q.valid_until \in Nat /\ q.valid_until <= clock + TokenTtl
    BY Zenon DEF AInv, Issued
  <2>2. QED
    BY <1>2, <1>3, <2>1, Zenon DEF Issued
<1>5. passed' \subseteq Items' /\ tokens \subseteq tokens'
  BY <1>2, Zenon DEF AInv, ATypes, Items
<1>6. NonceKept'
  BY <1>2, Zenon DEF AInv, NonceKept, Outlives
<1>7. TokenKept'
  <2> SUFFICES ASSUME NEW q \in tokens', Tok(q) \in passed
               PROVE  Outlives(used[Half(q.nonce)], q.valid_until)
    BY <1>2, Zenon DEF TokenKept, Outlives
  <2>1. q \in tokens
    <3>1. Tok(q) \in Items
      BY Zenon DEF AInv, ATypes
    <3>2. \A p \in Requests : Tok(q) # Req(p)
      BY ItemShapes, Zenon
    <3>3. PICK s \in tokens : Tok(q) = Tok(s)
      BY <3>1, <3>2, Zenon DEF Items
    <3>4. QED
      BY <3>3, ItemsDiffer, Zenon
  <2>2. QED
    BY <2>1, Zenon DEF AInv, TokenKept
<1>8. QED
  BY <1>2, <1>4, <1>5, <1>6, <1>7, EndKeeps, Zenon DEF AInv, ATypes

\* The clean-up drops only entries that have expired.
LEMMA CleanupKeeps == AInv /\ CleanupCaches => AInv'
<1> SUFFICES ASSUME AInv, CleanupCaches PROVE AInv'
  BY Zenon
<1> USE AuthNumbers
<1>1. /\ UNCHANGED <<clock, step, item, began, expiry, again, tokens, passed>>
      /\ nonces' = [n \in Nonces |-> Retained(nonces[n])]
      /\ used' = [h \in Halves |-> Retained(used[h])]
  BY Zenon DEF CleanupCaches
<1>2. ATypes'
  BY <1>1, Zenon DEF AInv, ATypes, Items, Retained
<1>3. Issued' /\ \A c \in Calls : InTime(c)' /\ Refusable(c)'
  BY <1>1, Zenon DEF AInv, Issued, InTime, Refusable, Lifetime
<1>4. \A e, until \in Nat : Outlives(e, until) => Outlives(Retained(e), until)
  BY DEF AInv, ATypes, Outlives, Retained
<1>5. NonceKept'
  <2> SUFFICES ASSUME NEW r \in Requests, Req(r) \in passed
               PROVE  /\ r.timestamp <= clock + Drift
                      /\ Outlives(Retained(nonces[r.nonce]), r.timestamp + Drift)
    BY <1>1, Zenon DEF NonceKept, Outlives
  <2>1. r.timestamp + Drift \in Nat /\ nonces[r.nonce] \in Nat
    BY DEF AInv, ATypes
  <2>2. QED
    BY <1>4, <2>1, Zenon DEF AInv, NonceKept
<1>6. TokenKept'
  <2> SUFFICES ASSUME NEW t \in tokens, Tok(t) \in passed
               PROVE  Outlives(Retained(used[Half(t.nonce)]), t.valid_until)
    BY <1>1, Zenon DEF TokenKept, Outlives, AInv, Issued
  <2>1. t.valid_until \in Nat /\ used[Half(t.nonce)] \in Nat
    BY Zenon DEF AInv, ATypes, Issued
  <2>2. QED
    BY <1>4, <2>1, Zenon DEF AInv, TokenKept
<1>7. QED
  BY <1>2, <1>3, <1>5, <1>6, Zenon DEF AInv

\* Time passes only while no call takes longer than MaxCall.
LEMMA AdvanceKeeps == AInv /\ Advance => AInv'
<1> SUFFICES ASSUME AInv, Advance PROVE AInv'
  BY Zenon
<1> USE AuthNumbers
<1>1. /\ UNCHANGED <<step, item, began, expiry, again, nonces, used, tokens, passed>>
      /\ clock' = clock + 1 /\ clock \in Nat
      /\ \A c \in Calls : step[c] # "idle" => clock + 1 <= began[c] + MaxCall
  BY Zenon DEF Advance, AInv, ATypes
<1>2. ATypes'
  BY <1>1, SMTT(30) DEF AInv, ATypes, Items
<1>3. Issued'
  <2> SUFFICES ASSUME NEW t \in tokens
               PROVE  t.nonce \in Nonces /\ t.valid_until \in Nat /\ t.valid_until <= clock + 1 + TokenTtl
    BY <1>1, Zenon DEF Issued
  <2>1. t.nonce \in Nonces /\ t.valid_until \in Nat /\ t.valid_until <= clock + TokenTtl
    BY Zenon DEF AInv, Issued
  <2>2. QED
    BY <1>1, <2>1, SMTT(30)
<1>4. NonceKept'
  <2> SUFFICES ASSUME NEW r \in Requests, Req(r) \in passed
               PROVE  /\ r.timestamp <= clock + 1 + Drift
                      /\ \/ nonces[r.nonce] > r.timestamp + Drift + MaxCall
                         \/ clock + 1 > r.timestamp + Drift + MaxCall
    BY <1>1, Zenon DEF NonceKept, Outlives
  <2>1. /\ r.timestamp <= clock + Drift
        /\ \/ nonces[r.nonce] > r.timestamp + Drift + MaxCall
           \/ clock > r.timestamp + Drift + MaxCall
    BY Zenon DEF AInv, NonceKept, Outlives
  <2>2. QED
    BY <1>1, <2>1
<1>5. TokenKept'
  <2> SUFFICES ASSUME NEW t \in tokens, Tok(t) \in passed
               PROVE  \/ used[Half(t.nonce)] > t.valid_until + MaxCall
                      \/ clock + 1 > t.valid_until + MaxCall
    BY <1>1, Zenon DEF TokenKept, Outlives
  <2>1. /\ \/ used[Half(t.nonce)] > t.valid_until + MaxCall
           \/ clock > t.valid_until + MaxCall
        /\ t.valid_until \in Nat
    BY ZenonT(40) DEF AInv, TokenKept, Outlives, Issued
  <2>2. QED
    BY <1>1, <2>1
<1>6. ASSUME NEW c \in Calls PROVE InTime(c)' /\ Refusable(c)'
  <2>1. began[c] \in Nat /\ InTime(c) /\ Refusable(c)
    BY Zenon DEF AInv, ATypes
  <2>2. QED
    BY <1>1, <2>1 DEF InTime, Refusable, Lifetime
<1>7. QED
  BY <1>2, <1>3, <1>4, <1>5, <1>6, Zenon DEF AInv

\* AInv is inductive.
LEMMA AuthInductive == AuthSpec => []AInv
<1>1. AuthInit => AInv
  <2> SUFFICES ASSUME AuthInit PROVE AInv
    BY Zenon
  <2>1. ATypes
    BY Zenon DEF AuthInit, ATypes, Steps
  <2>2. \A c \in Calls : InTime(c) /\ Refusable(c)
    BY Zenon DEF AuthInit, InTime, Refusable
  <2>3. QED
    BY <2>1, <2>2, Zenon DEF AuthInit, AInv, Issued, NonceKept, TokenKept
<1>2. AInv /\ [AuthNext]_authVars => AInv'
  <2> SUFFICES ASSUME AInv, [AuthNext]_authVars PROVE AInv'
    BY Zenon
  <2>1. CASE UNCHANGED authVars
    BY <2>1, Zenon DEF authVars, AInv, ATypes, Items, Issued, NonceKept, TokenKept, Outlives,
                InTime, Refusable, Lifetime
  <2>2. QED
    BY <2>1, VerifyKeeps, GetKeeps, InsertNonceKeeps, InsertTokenKeeps, GenerateTokenKeeps,
       CleanupKeeps, AdvanceKeeps, Zenon DEF AuthNext
<1>3. QED
  BY <1>1, <1>2, PTL DEF AuthSpec

\* No request or token that was let through before a call began gets past the
\* cache in that call, for any number of threads, whatever is cleaned up and
\* whichever expiry was written last (verify, verify_and_consume_token,
\* ReplayCache::check_and_insert, UuidReplayCache::check_and_insert).
THEOREM LaterCallsRefused == AuthSpec => []LaterRefused
<1>1. AInv => LaterRefused
  BY Zenon DEF AInv, Refusable, LaterRefused
<1>2. QED
  BY <1>1, AuthInductive, PTL

-----------------------------------------------------------------------------
\* What is proved of the parts holds in the service that has them all: a step of
\* AuthService is a step of one part and leaves the others alone.
THEOREM PartsBehave == Spec => AuthSpec /\ EndpointSpec /\ KeySpec
<1>1. Init => AuthInit /\ EndpointInit /\ KeyInit
  BY Zenon DEF Init
<1>2. [Next]_vars => [AuthNext]_authVars /\ [EndpointNext]_endpointVars /\ [KeyNext]_keyVars
  BY Zenon DEF Next, vars
<1>3. QED
  BY <1>1, <1>2, PTL DEF Spec, AuthSpec, EndpointSpec, KeySpec

\* The service as a whole lets nothing through twice, mixes up no answers, keeps a
\* retired key for its grace period and verifies exactly.
THEOREM ServiceCorrect ==
  Spec => []LaterRefused /\ []AnswerIsOwn /\ []PreviousKept /\ VerifyExact
BY PartsBehave, LaterCallsRefused, AnswersAreOwn, PreviousAlwaysKept, VerifyIsExact, PTL

=============================================================================
