------------------------------ MODULE ExitPool ------------------------------
(***************************************************************************)
(* The handler's pool of exit nodes (crates/transport: exit_pool.rs,       *)
(* exit_client.rs): concurrent forwards that fail over inside a group, the *)
(* background health checker, one return-stream task per client, and       *)
(* add_node.  An exit node is what exit_node.rs serves: POST /forward and  *)
(* GET /stream.                                                            *)
(*                                                                         *)
(* forward and health_check_all hold the read lock of `groups' across      *)
(* their requests; add_node needs the write lock, and while it waits the   *)
(* (fair) tokio RwLock admits no new reader.                               *)
(***************************************************************************)
EXTENDS Integers, Sequences, FiniteSets, Functions

CONSTANTS
  Nodes,        \* exit nodes
  Callers,      \* tasks that call forward
  Requested,    \* group ids that occur in requests
  Configs,      \* configurations: functions from group ids to sequences of nodes
  MaxForwards,  \* bound on the packets forwarded
  MaxOutages,   \* bound on the times a node goes down or an answer is lost or bad
  MaxTicks      \* bound on the rounds of the health checker

ASSUME PoolAssumption ==
  /\ {MaxForwards, MaxOutages, MaxTicks} \subseteq Nat
  /\ \A c \in Configs : \A g \in DOMAIN c :
       c[g] \in Seq(Nodes) /\ c[g] # <<>> /\ IsInjective(c[g])

VARIABLES
  groups,      \* groups: the clients of each group
  next_index,  \* next_index[g]: the round-robin counter of group g
  adding,      \* the node add_node waits to insert, with its group, or <<>>
  healthy,     \* clients whose healthy flag is set
  streaming,   \* clients whose return stream is connected
  tocheck,     \* clients the running round of the health checker still visits
  up,          \* exit nodes that are reachable
  pc, packet, group, start, attempts, visited,   \* locals of each forward
  ret,         \* ret[f]: the result of f's last forward
  received,    \* packet -> the nodes that received it
  lost,        \* packets for which the answer to some request was lost
  forwards, outages, ticks    \* how much of each bound is used

locals == <<pc, packet, group, start, attempts, visited, ret>>
counters == <<forwards, outages, ticks>>
vars == <<groups, next_index, adding, healthy, streaming, tocheck, up, locals,
          received, lost, counters>>

Clients == UNION {Range(groups[g]) : g \in DOMAIN groups}
Packets == 1..MaxForwards

Init ==
  /\ groups \in Configs
  /\ next_index = [g \in DOMAIN groups |-> 0]
  /\ adding = <<>>
  /\ healthy = Nodes /\ streaming = {} /\ tocheck = {} /\ up = Nodes
  /\ pc = [f \in Callers |-> "idle"]
  /\ packet = [f \in Callers |-> 0]
  /\ group = [f \in Callers |-> 0]
  /\ start = [f \in Callers |-> 0]
  /\ attempts = [f \in Callers |-> 0]
  /\ visited = [f \in Callers |-> <<>>]
  /\ ret = [f \in Callers |-> "none"]
  /\ received = [m \in Packets |-> {}]
  /\ lost = {}
  /\ forwards = 0 /\ outages = 0 /\ ticks = 0

-----------------------------------------------------------------------------
(***************************************************************************)
(* forward                                                                 *)
(***************************************************************************)
ReadLockFree == adding = <<>>

\* the group that serves a request: the one asked for, or group 0
Serving(g) == IF g \in DOMAIN groups THEN g ELSE 0

ForwardBegin(f, g) ==
  /\ pc[f] = "idle" /\ ReadLockFree /\ forwards < MaxForwards
  /\ Serving(g) \in DOMAIN groups
  /\ forwards' = forwards + 1
  /\ packet' = [packet EXCEPT ![f] = forwards + 1]
  /\ group' = [group EXCEPT ![f] = Serving(g)]
  /\ start' = [start EXCEPT ![f] = next_index[Serving(g)] % Len(groups[Serving(g)])]
  /\ next_index' = [next_index EXCEPT ![Serving(g)] = @ + 1]
  /\ pc' = [pc EXCEPT ![f] = "visit"]
  /\ UNCHANGED <<groups, adding, healthy, streaming, tocheck, up, attempts, visited, ret,
                 received, lost, outages, ticks>>

\* neither the group nor group 0 exists
ForwardNoGroup(f, g) ==
  /\ pc[f] = "idle" /\ ReadLockFree /\ forwards < MaxForwards
  /\ Serving(g) \notin DOMAIN groups
  /\ forwards' = forwards + 1
  /\ ret' = [ret EXCEPT ![f] = "no group"]
  /\ UNCHANGED <<groups, next_index, adding, healthy, streaming, tocheck, up,
                 pc, packet, group, start, attempts, visited, received, lost, outages, ticks>>

Members(f) == groups[group[f]]

\* a plausible slip: the last client of the rotation is never reached
AttemptsLeft_OffByOne(f) == attempts[f] < Len(Members(f)) - 1

AttemptsLeft(f) == attempts[f] < Len(Members(f))

Candidate(f) == Members(f)[((start[f] + attempts[f]) % Len(Members(f))) + 1]

NextAttempt(f) ==
  /\ attempts' = [attempts EXCEPT ![f] = @ + 1]
  /\ visited' = [visited EXCEPT ![f] = Append(@, Candidate(f))]

\* the call ends, and its locals with it
Return(f, r) ==
  /\ ret' = [ret EXCEPT ![f] = r]
  /\ pc' = [pc EXCEPT ![f] = "idle"]
  /\ group' = [group EXCEPT ![f] = 0]
  /\ start' = [start EXCEPT ![f] = 0]
  /\ attempts' = [attempts EXCEPT ![f] = 0]
  /\ visited' = [visited EXCEPT ![f] = <<>>]

\* a plausible slip: an unhealthy client is passed over without counting it
SkipUnhealthy_Uncounted(f) ==
  /\ pc[f] = "visit" /\ AttemptsLeft(f)
  /\ Candidate(f) \notin healthy
  /\ UNCHANGED vars

\* the client is marked unhealthy, for forward or for ExitClient::forward
SkipUnhealthy(f) ==
  /\ pc[f] = "visit" /\ AttemptsLeft(f)
  /\ Candidate(f) \notin healthy
  /\ NextAttempt(f)
  /\ UNCHANGED <<groups, next_index, adding, healthy, streaming, tocheck, up,
                 pc, packet, group, start, ret, received, lost, counters>>

SendRequest(f) ==
  /\ pc[f] = "visit" /\ AttemptsLeft(f)
  /\ Candidate(f) \in healthy
  /\ pc' = [pc EXCEPT ![f] = "request"]
  /\ UNCHANGED <<groups, next_index, adding, healthy, streaming, tocheck, up,
                 packet, group, start, attempts, visited, ret, received, lost, counters>>

\* a plausible slip: success does not leave the loop
RequestOk_NoReturn(f) ==
  /\ pc[f] = "request"
  /\ Candidate(f) \in up
  /\ received' = [received EXCEPT ![packet[f]] = @ \cup {Candidate(f)}]
  /\ NextAttempt(f)
  /\ pc' = [pc EXCEPT ![f] = "visit"]
  /\ UNCHANGED <<groups, next_index, adding, healthy, streaming, tocheck, up,
                 packet, group, start, ret, lost, counters>>

\* the node received the packet, and its answer arrived
RequestOk(f) ==
  /\ pc[f] = "request"
  /\ Candidate(f) \in up
  /\ received' = [received EXCEPT ![packet[f]] = @ \cup {Candidate(f)}]
  /\ Return(f, "ok")
  /\ UNCHANGED <<groups, next_index, adding, healthy, streaming, tocheck, up,
                 packet, lost, counters>>

\* the node received the packet, but its answer does not arrive before the
\* client's timeout: mark_unhealthy, try the next client
AnswerLost(f) ==
  /\ pc[f] = "request"
  /\ Candidate(f) \in up /\ outages < MaxOutages
  /\ received' = [received EXCEPT ![packet[f]] = @ \cup {Candidate(f)}]
  /\ lost' = lost \cup {packet[f]}
  /\ outages' = outages + 1
  /\ healthy' = healthy \ {Candidate(f)}
  /\ NextAttempt(f)
  /\ pc' = [pc EXCEPT ![f] = "visit"]
  /\ UNCHANGED <<groups, next_index, adding, streaming, tocheck, up,
                 packet, group, start, ret, forwards, ticks>>

\* the node cannot be reached: mark_unhealthy, try the next client
RequestFailed(f) ==
  /\ pc[f] = "request"
  /\ Candidate(f) \notin up
  /\ healthy' = healthy \ {Candidate(f)}
  /\ NextAttempt(f)
  /\ pc' = [pc EXCEPT ![f] = "visit"]
  /\ UNCHANGED <<groups, next_index, adding, streaming, tocheck, up,
                 packet, group, start, ret, received, lost, counters>>

\* the answer is not a success, as when the body is no packet to the node: it is
\* still healthy, try the next client
RequestRefused(f) ==
  /\ pc[f] = "request"
  /\ Candidate(f) \in up /\ outages < MaxOutages
  /\ outages' = outages + 1
  /\ NextAttempt(f)
  /\ pc' = [pc EXCEPT ![f] = "visit"]
  /\ UNCHANGED <<groups, next_index, adding, healthy, streaming, tocheck, up,
                 packet, group, start, ret, received, lost, forwards, ticks>>

AllFailed(f) ==
  /\ pc[f] = "visit" /\ ~AttemptsLeft(f)
  /\ Return(f, "all failed")
  /\ UNCHANGED <<groups, next_index, adding, healthy, streaming, tocheck, up,
                 packet, received, lost, counters>>

-----------------------------------------------------------------------------
(***************************************************************************)
(* Health checks, return streams, add_node, and the exit nodes             *)
(***************************************************************************)
Routes == {"/forward", "/stream"}     \* the paths an exit node answers with success

\* an exit node answers any other path with 404
Answers(n, path) == n \in up /\ path \in Routes

\* start_health_checker: the ticker starts a round of health_check_all
HealthTick ==
  /\ tocheck = {} /\ ReadLockFree /\ ticks < MaxTicks
  /\ tocheck' = Clients
  /\ ticks' = ticks + 1
  /\ UNCHANGED <<groups, next_index, adding, healthy, streaming, up, locals,
                 received, lost, forwards, outages>>

HealthCheck(n) ==
  /\ n \in tocheck
  /\ tocheck' = tocheck \ {n}
  /\ healthy' = IF Answers(n, "/health") THEN healthy \cup {n} ELSE healthy \ {n}
  /\ UNCHANGED <<groups, next_index, adding, streaming, up, locals, received, lost, counters>>

\* the clients whose stream task runs: those of the pool, and one being added
Subscribed == Clients \cup (IF adding = <<>> THEN {} ELSE {adding[1]})

\* subscribe: (re)connecting the return stream sets the healthy flag
StreamConnect(n) ==
  /\ n \in Subscribed \ streaming
  /\ Answers(n, "/stream")
  /\ streaming' = streaming \cup {n}
  /\ healthy' = healthy \cup {n}
  /\ UNCHANGED <<groups, next_index, adding, tocheck, up, locals, received, lost, counters>>

\* the stream ends: closed by the node, or cut by the client's request timeout
StreamEnd(n) ==
  /\ n \in streaming
  /\ streaming' = streaming \ {n}
  /\ UNCHANGED <<groups, next_index, adding, healthy, tocheck, up, locals, received, lost, counters>>

\* failing to connect clears the flag
StreamFail(n) ==
  /\ n \in Subscribed \ streaming
  /\ n \notin up
  /\ healthy' = healthy \ {n}
  /\ UNCHANGED <<groups, next_index, adding, streaming, tocheck, up, locals, received, lost, counters>>

\* add_node creates and subscribes the client, then asks for the write lock
AddNodeRequest(n, g) ==
  /\ adding = <<>> /\ n \notin Clients
  /\ adding' = <<n, g>>
  /\ UNCHANGED <<groups, next_index, healthy, streaming, tocheck, up, locals, received, lost, counters>>

Readers == {f \in Callers : pc[f] # "idle"}

AddNodeCommit ==
  /\ adding # <<>> /\ Readers = {} /\ tocheck = {}
  /\ LET n == adding[1]
         g == adding[2]
     IN /\ groups' = [h \in DOMAIN groups \cup {g} |->
                        IF h # g THEN groups[h]
                        ELSE IF g \in DOMAIN groups THEN Append(groups[g], n) ELSE <<n>>]
        /\ next_index' = [h \in DOMAIN groups \cup {g} |->
                            IF h \in DOMAIN groups THEN next_index[h] ELSE 0]
  /\ adding' = <<>>
  /\ UNCHANGED <<healthy, streaming, tocheck, up, locals, received, lost, counters>>

\* an exit node becomes unreachable; its return stream ends
NodeDown(n) ==
  /\ n \in up /\ outages < MaxOutages
  /\ up' = up \ {n} /\ streaming' = streaming \ {n} /\ outages' = outages + 1
  /\ UNCHANGED <<groups, next_index, adding, healthy, tocheck, locals, received, lost, forwards, ticks>>

NodeUp(n) ==
  /\ n \notin up
  /\ up' = up \cup {n}
  /\ UNCHANGED <<groups, next_index, adding, healthy, streaming, tocheck, locals, received, lost, counters>>

-----------------------------------------------------------------------------
ForwardStep(f) ==
  SkipUnhealthy(f) \/ SendRequest(f) \/ RequestOk(f) \/ RequestFailed(f) \/ AllFailed(f)

Pool ==
  \/ \E f \in Callers : ForwardStep(f) \/ \E g \in Requested : ForwardBegin(f, g) \/ ForwardNoGroup(f, g)
  \/ HealthTick \/ \E n \in Nodes : HealthCheck(n) \/ StreamConnect(n) \/ StreamEnd(n) \/ StreamFail(n)
  \/ AddNodeCommit \/ \E n \in Nodes, g \in Requested : AddNodeRequest(n, g)

Environment ==
  \/ \E f \in Callers : AnswerLost(f) \/ RequestRefused(f)
  \/ \E n \in Nodes : NodeDown(n) \/ NodeUp(n)

Next == Pool \/ Environment

\* Tasks that can run do run, and every request ends: it is answered, or the
\* client's timeout fires.  Nothing is assumed of the exit nodes.
Fairness ==
  /\ \A f \in Callers : WF_vars(ForwardStep(f))
  /\ WF_vars(\E n \in Nodes : HealthCheck(n))
  /\ WF_vars(AddNodeCommit)

Spec == Init /\ [][Next]_vars /\ Fairness

-----------------------------------------------------------------------------
\* Types; every group has clients and a counter, and a request is under way
\* only while attempts are left.
TypeOK ==
  /\ \A g \in DOMAIN groups : groups[g] \in Seq(Nodes) /\ groups[g] # <<>>
  /\ DOMAIN next_index = DOMAIN groups
  /\ healthy \subseteq Nodes /\ streaming \subseteq up /\ tocheck \subseteq Clients
  /\ \A f \in Callers : /\ pc[f] \in {"idle", "visit", "request"}
                         /\ ret[f] \in {"none", "ok", "all failed", "no group"}
                         /\ pc[f] = "request" => AttemptsLeft(f)

\* forward returns Ok only for a packet some exit node received, and reports
\* "All exit nodes failed" only after visiting every client of the group, each
\* exactly once, wherever the rotation started.
TriesEveryNodeOnce ==
  \A f \in Callers :
    /\ pc[f] # "idle" => IsInjective(visited[f])
    /\ pc[f] = "idle" /\ ret[f] = "ok" /\ packet[f] # 0 => received[packet[f]] # {}
    /\ pc[f] = "visit" /\ ~AttemptsLeft(f) => Range(visited[f]) = Range(Members(f))

\* Failing over delivers a packet twice only when the answer to a request was
\* lost: a node that refused the packet has not received it.
TwiceOnlyIfAnswerLost ==
  \A m \in Packets : Cardinality(received[m]) > 1 => m \in lost

\* add_node gets its write lock although forwards and health checks hold the
\* read lock across their requests: whatever the nodes do meanwhile, every one
\* of those ends.
AddNodeCompletes == adding # <<>> ~> adding = <<>>
=============================================================================
