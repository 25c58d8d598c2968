--------------------------- MODULE HandlerSession ---------------------------
(***************************************************************************)
(* The client sessions of a handler (handle_connect in                     *)
(* daemon/src/handler.rs), the registry their replies are dispatched       *)
(* through (connection_registry.rs) and the billing of what they forward.  *)
(*                                                                         *)
(* After the upgrade a session is three tasks: the session itself reads    *)
(* the client's frames; tx_task sends the frames of the session's channel  *)
(* to the client; dns_listener feeds DNS answers into that channel.  The   *)
(* channel's senders are the registry entry and the clone that             *)
(* dns_listener owns.  Connection ids are random u64s; distinct sessions   *)
(* have distinct ids here.  Sessions not in Sessions are seen only through *)
(* the usage they record, as sessions share nothing else that depends on   *)
(* what they do.                                                           *)
(***************************************************************************)
EXTENDS Integers, FiniteSets, FiniteSetsExt, Billing

CONSTANTS
  Sessions,    \* WebSocket sessions, by connection id
  MaxFrames,   \* bound on the data frames of a session
  MaxQueries,  \* bound on the DNS queries of a session
  MaxOthers    \* bound on the frames of the handler's other sessions

ASSUME SessionAssumption ==
  IsFiniteSet(Sessions) /\ {MaxFrames, MaxQueries, MaxOthers} \subseteq Nat

VARIABLES
  pc,           \* where the session task of each session is
  user,         \* the user its token is for
  client,       \* whether the client is still connected
  connections,  \* the registry: sessions with an entry
  active,       \* METRICS.active_connections
  tx, dns,      \* the tasks tx_task and dns_listener
  accepted,     \* frames put into the channel of each session
  sent,         \* frames tx_task took from it and sent
  forwarded,    \* data frames the exit pool accepted
  frames, queries,   \* data frames and DNS queries the client sent
  replies, answers,  \* of those, how many may still be answered
  dropped,      \* replies no session took
  others        \* data frames forwarded for each user by other sessions

tasks == <<pc, user, client, connections, active, tx, dns>>
traffic == <<accepted, sent, forwarded, frames, queries, replies, answers, dropped>>
vars == <<tasks, traffic, billvars, others>>

None == [s \in Sessions |-> 0]

Init ==
  /\ BillingInit
  /\ pc = [s \in Sessions |-> "request"]
  /\ user \in [Sessions -> Users]
  /\ client = [s \in Sessions |-> "connected"]
  /\ connections = {} /\ active = 0
  /\ tx = [s \in Sessions |-> "none"] /\ dns = [s \in Sessions |-> "none"]
  /\ accepted = None /\ sent = None /\ forwarded = None
  /\ frames = None /\ queries = None /\ replies = None /\ answers = None
  /\ dropped = None /\ others = Nothing

-----------------------------------------------------------------------------
(***************************************************************************)
(* Set-up of a session                                                     *)
(***************************************************************************)
\* no upgrade header (400), no bearer token or one that verify_and_consume_token
\* refuses (401), or no server key (500)
Reject(s) ==
  /\ pc[s] = "request"
  /\ pc' = [pc EXCEPT ![s] = "ended"]
  /\ UNCHANGED <<user, client, connections, active, tx, dns, traffic, billvars>>

\* the token is accepted (Authenticator has the verification): the session is
\* spawned, for the token's user
Admit(s) ==
  /\ pc[s] = "request"
  /\ pc' = [pc EXCEPT ![s] = "upgrade"]
  /\ UNCHANGED <<user, client, connections, active, tx, dns, traffic, billvars>>

\* the upgrade or the WebSocket handshake failed
UpgradeFails(s) ==
  /\ pc[s] = "upgrade"
  /\ pc' = [pc EXCEPT ![s] = "ended"]
  /\ UNCHANGED <<user, client, connections, active, tx, dns, traffic, billvars>>

Upgrade(s) ==
  /\ pc[s] = "upgrade"
  /\ active' = active + 1
  /\ pc' = [pc EXCEPT ![s] = "greet"]
  /\ UNCHANGED <<user, client, connections, tx, dns, traffic, billvars>>

\* the connection id cannot be sent: return, without active_connections.dec()
GreetFails(s) ==
  /\ pc[s] = "greet" /\ client[s] = "gone"
  /\ pc' = [pc EXCEPT ![s] = "ended"]
  /\ UNCHANGED <<user, client, connections, active, tx, dns, traffic, billvars>>

\* a plausible slip: the session is never entered in the registry
Greet_NoEntry(s) ==
  /\ pc[s] = "greet"
  /\ pc' = [pc EXCEPT ![s] = "bind"]
  /\ UNCHANGED <<user, client, connections, active, tx, dns, traffic, billvars>>

\* send the connection id, create the channel and register it
Greet(s) ==
  /\ pc[s] = "greet"
  /\ connections' = connections \cup {s}
  /\ pc' = [pc EXCEPT ![s] = "bind"]
  /\ UNCHANGED <<user, client, active, tx, dns, traffic, billvars>>

\* the DNS socket cannot be bound: return, leaving the registry entry behind
BindFails(s) ==
  /\ pc[s] = "bind"
  /\ pc' = [pc EXCEPT ![s] = "ended"]
  /\ UNCHANGED <<user, client, connections, active, tx, dns, traffic, billvars>>

Bind(s) ==
  /\ pc[s] = "bind"
  /\ tx' = [tx EXCEPT ![s] = "running"] /\ dns' = [dns EXCEPT ![s] = "running"]
  /\ pc' = [pc EXCEPT ![s] = "reading"]
  /\ UNCHANGED <<user, client, connections, active, traffic, billvars>>

-----------------------------------------------------------------------------
(***************************************************************************)
(* The session's loop over the client's frames                             *)
(***************************************************************************)
\* a data frame: forward it (an exit node may answer before forward returns)
RxData(s) ==
  /\ pc[s] = "reading" /\ client[s] = "connected" /\ frames[s] < MaxFrames
  /\ frames' = [frames EXCEPT ![s] = @ + 1]
  /\ replies' = [replies EXCEPT ![s] = @ + 1]
  /\ pc' = [pc EXCEPT ![s] = "forwarding"]
  /\ UNCHANGED <<user, client, connections, active, tx, dns,
                 accepted, sent, forwarded, queries, answers, dropped, billvars>>

\* forward returned Ok: record the usage, read on
ForwardOk(s) ==
  /\ pc[s] = "forwarding"
  /\ forwarded' = [forwarded EXCEPT ![s] = @ + 1]
  /\ RecordUsage(user[s])
  /\ pc' = [pc EXCEPT ![s] = "reading"]
  /\ UNCHANGED <<user, client, connections, active, tx, dns,
                 accepted, sent, frames, queries, replies, answers, dropped>>

\* a plausible slip: return from the task instead of leaving the loop
ForwardFails_Return(s) ==
  /\ pc[s] = "forwarding"
  /\ pc' = [pc EXCEPT ![s] = "ended"]
  /\ UNCHANGED <<user, client, connections, active, tx, dns, traffic, billvars>>

\* forward returned Err: leave the loop
ForwardFails(s) ==
  /\ pc[s] = "forwarding"
  /\ pc' = [pc EXCEPT ![s] = "unregister"]
  /\ UNCHANGED <<user, client, connections, active, tx, dns, traffic, billvars>>

\* a DohQuery control frame goes out on the session's DNS socket
RxQuery(s) ==
  /\ pc[s] = "reading" /\ client[s] = "connected" /\ queries[s] < MaxQueries
  /\ queries' = [queries EXCEPT ![s] = @ + 1]
  /\ answers' = [answers EXCEPT ![s] = @ + 1]
  /\ UNCHANGED <<tasks, accepted, sent, forwarded, frames, replies, dropped, billvars>>

\* Close, an error or the end of the stream: leave the loop
RxEnd(s) ==
  /\ pc[s] = "reading" /\ client[s] = "gone"
  /\ pc' = [pc EXCEPT ![s] = "unregister"]
  /\ UNCHANGED <<user, client, connections, active, tx, dns, traffic, billvars>>

-----------------------------------------------------------------------------
(***************************************************************************)
(* Teardown: unregister, tx_task.await, dns_listener.await, dec            *)
(***************************************************************************)

Unregister(s) ==
  /\ pc[s] = "unregister"
  /\ connections' = connections \ {s}
  /\ pc' = [pc EXCEPT ![s] = "await tx"]
  /\ UNCHANGED <<user, client, active, tx, dns, traffic, billvars>>

AwaitTx(s) ==
  /\ pc[s] = "await tx" /\ tx[s] = "done"
  /\ pc' = [pc EXCEPT ![s] = "await dns"]
  /\ UNCHANGED <<user, client, connections, active, tx, dns, traffic, billvars>>

AwaitDns(s) ==
  /\ pc[s] = "await dns" /\ dns[s] = "done"
  /\ active' = active - 1
  /\ pc' = [pc EXCEPT ![s] = "ended"]
  /\ UNCHANGED <<user, client, connections, tx, dns, traffic, billvars>>

-----------------------------------------------------------------------------
(***************************************************************************)
(* The channel, tx_task and dns_listener                                   *)
(***************************************************************************)
\* the receiver: held by the session until tx_task takes it
ReceiverAlive(s) == pc[s] = "bind" \/ tx[s] = "running"

\* ConnectionRegistry::dispatch of a reply from an exit node
Dispatch(s) ==
  /\ replies[s] > 0
  /\ replies' = [replies EXCEPT ![s] = @ - 1]
  /\ IF s \in connections /\ ReceiverAlive(s)
       THEN accepted' = [accepted EXCEPT ![s] = @ + 1] /\ UNCHANGED dropped
       ELSE dropped' = [dropped EXCEPT ![s] = @ + 1] /\ UNCHANGED accepted
  /\ UNCHANGED <<tasks, sent, forwarded, frames, queries, answers, billvars>>

\* dns_listener receives an answer and sends it into the channel
DnsAnswer(s) ==
  /\ dns[s] = "running" /\ answers[s] > 0
  /\ answers' = [answers EXCEPT ![s] = @ - 1]
  /\ accepted' = [accepted EXCEPT ![s] = IF ReceiverAlive(s) THEN @ + 1 ELSE @]
  /\ UNCHANGED <<tasks, sent, forwarded, frames, queries, replies, dropped, billvars>>

\* dns_listener ends only when recv_from fails
DnsRecvFails(s) ==
  /\ dns[s] = "running"
  /\ dns' = [dns EXCEPT ![s] = "done"]
  /\ UNCHANGED <<pc, user, client, connections, active, tx, traffic, billvars>>

TxSend(s) ==
  /\ tx[s] = "running" /\ sent[s] < accepted[s]
  /\ sent' = [sent EXCEPT ![s] = @ + 1]
  /\ UNCHANGED <<tasks, accepted, forwarded, frames, queries, replies, answers, dropped, billvars>>

\* the client does not take the frame any more
TxFails(s) ==
  /\ tx[s] = "running" /\ sent[s] < accepted[s] /\ client[s] = "gone"
  /\ tx' = [tx EXCEPT ![s] = "done"]
  /\ UNCHANGED <<pc, user, client, connections, active, dns, traffic, billvars>>

SendersGone(s) == s \notin connections /\ dns[s] = "done"

\* a plausible slip: tx_task is stopped when the senders are gone, queue or not
TxEnd_Abort(s) ==
  /\ tx[s] = "running" /\ SendersGone(s)
  /\ tx' = [tx EXCEPT ![s] = "done"]
  /\ UNCHANGED <<pc, user, client, connections, active, dns, traffic, billvars>>

\* recv returns None: every sender is dropped and the channel is empty
TxEnd(s) ==
  /\ tx[s] = "running" /\ SendersGone(s) /\ sent[s] = accepted[s]
  /\ tx' = [tx EXCEPT ![s] = "done"]
  /\ UNCHANGED <<pc, user, client, connections, active, dns, traffic, billvars>>

ClientLeaves(s) ==
  /\ client[s] = "connected"
  /\ client' = [client EXCEPT ![s] = "gone"]
  /\ UNCHANGED <<pc, user, connections, active, tx, dns, traffic, billvars>>

-----------------------------------------------------------------------------
SessionStep(s) ==
  /\ \/ Reject(s) \/ Admit(s)
     \/ UpgradeFails(s) \/ Upgrade(s) \/ GreetFails(s) \/ Greet(s) \/ BindFails(s) \/ Bind(s)
     \/ ForwardOk(s) \/ ForwardFails(s) \/ RxEnd(s)
     \/ Unregister(s) \/ AwaitTx(s) \/ AwaitDns(s)
  /\ UNCHANGED others

TxStep(s) == (TxSend(s) \/ TxFails(s) \/ TxEnd(s)) /\ UNCHANGED others

\* what clients, exit nodes and DNS servers cause
PeerStep(s) ==
  /\ \/ RxData(s) \/ RxQuery(s) \/ ClientLeaves(s)
     \/ Dispatch(s) \/ DnsAnswer(s) \/ DnsRecvFails(s)
  /\ UNCHANGED others

BillingStep == (FlushTake \/ \E u \in Users : FlushUser(u) \/ FlushUserFails(u))
               /\ UNCHANGED <<tasks, traffic, others>>

\* ForwardOk of another session
OtherForwardOk(u) ==
  /\ MapThenSumSet(LAMBDA v : others[v], Users) < MaxOthers
  /\ others' = [others EXCEPT ![u] = @ + 1]
  /\ RecordUsage(u)
  /\ UNCHANGED <<tasks, traffic>>

Next ==
  \/ \E s \in Sessions : SessionStep(s) \/ TxStep(s) \/ PeerStep(s)
  \/ \E u \in Users : OtherForwardOk(u)
  \/ BillingStep

\* Tasks that can run do run; a forward ends (every request has a timeout); the flush
\* loop ticks.  Nothing is assumed of clients, exit nodes and DNS servers.
Fairness ==
  /\ \A s \in Sessions : WF_vars(SessionStep(s)) /\ WF_vars(TxStep(s))
  /\ WF_vars(BillingStep)

Spec == Init /\ [][Next]_vars /\ Fairness

-----------------------------------------------------------------------------
\* Types; the tasks of a session exist from bind on.
TypeOK ==
  /\ pc \in [Sessions -> {"request", "upgrade", "greet", "bind", "reading", "forwarding",
                          "unregister", "await tx", "await dns", "ended"}]
  /\ user \in [Sessions -> Users] /\ client \in [Sessions -> {"connected", "gone"}]
  /\ connections \subseteq Sessions /\ active \in 0..Cardinality(Sessions)
  /\ tx \in [Sessions -> {"none", "running", "done"}]
  /\ dns \in [Sessions -> {"none", "running", "done"}]
  /\ \A s \in Sessions :
       /\ sent[s] \in 0..accepted[s] /\ forwarded[s] \in 0..frames[s]
       /\ frames[s] \in 0..MaxFrames /\ queries[s] \in 0..MaxQueries
       /\ accepted[s] + dropped[s] + replies[s] + answers[s] \in 0..(MaxFrames + MaxQueries)
       /\ pc[s] = "reading" => tx[s] # "none"

\* The reply to a forwarded frame is dropped only if its client left or its
\* session is being torn down: the registry has the entry before the first
\* frame is forwarded and keeps it while the session reads.
DroppedOnlyAtEnd ==
  \A s \in Sessions : dropped[s] > 0 =>
    client[s] = "gone" \/ pc[s] \in {"unregister", "await tx", "await dns", "ended"}

\* A teardown that the client did not cause loses no frame: when tx_task is
\* done, everything that went into the channel was sent.
ChannelDrained ==
  \A s \in Sessions : tx[s] = "done" /\ client[s] = "connected" => sent[s] = accepted[s]

\* the frames forwarded for a user, each as its session and its number there
ForwardedFor(u) ==
  {x \in Sessions \X (1 .. MaxFrames) : user[x[1]] = u /\ x[2] <= forwarded[x[1]]}

\* Every forwarded frame is billed exactly once to the user of its session: it is
\* in the map, in the batch of the running flush, in the database, or in a row
\* whose write failed, however flushes and sessions interleave.
BilledOnce ==
  \A u \in Users :
    Cardinality(ForwardedFor(u)) + others[u] = usage[u] + batch[u] + billed[u] + unbilled[u]

\* A session that reached its loop leaves the registry once its client is gone or a
\* forward fails.
LeavesRegistry ==
  \A s \in Sessions :
    tx[s] # "none" /\ (client[s] = "gone" \/ pc[s] \in {"unregister", "ended"})
      ~> s \notin connections

\* "Number of active connections" (daemon/src/metrics.rs): a session whose loop has
\* ended is taken off the gauge.
LeaverUncounted == \A s \in Sessions : pc[s] = "unregister" ~> pc[s] = "ended"
=============================================================================
