----------------------------- MODULE DnsClient -----------------------------
(***************************************************************************)
(* The client's local DNS server (client/src/local_dns.rs): one UDP socket *)
(* for the whole process, a WebSocket session that is opened again         *)
(* whenever its reads end, and for each session a task that forwards       *)
(* queries from the socket.  A session's task is never stopped when its    *)
(* session is replaced: it goes on taking queries until a send fails.      *)
(* Answers are read and dropped, so they are left out.                     *)
(***************************************************************************)
EXTENDS Integers, Sequences, Functions, FiniteSets

CONSTANTS
    MaxSessions,  \* bound on the sessions opened
    MaxQueries    \* bound on the queries asked

ASSUME DnsAssumption == MaxSessions \in Nat \ {0} /\ MaxQueries \in Nat

VARIABLES
    loop,      \* the outer loop: "connecting", "up" or "asleep"
    opened,    \* sessions opened so far; the last one is the current one
    udpTask,   \* the UDP task of each session: "none", "running", "ended"
    session,   \* its WebSocket: "none", "open", "failed", or "reset" once the
               \* client's socket has learnt of the failure
    asked,     \* queries asked so far
    socket,    \* queries waiting in the UDP socket
    carried,   \* queries each session has carried to the handler
    unnoticed, \* queries sent into a failed connection
    unsent     \* queries taken from the socket for a send that failed

dnsVars == <<loop, opened, udpTask, session, asked, socket, carried, unnoticed, unsent>>

Session == 1 .. MaxSessions

DnsInit ==
    /\ loop = "connecting" /\ opened = 0
    /\ udpTask = [s \in Session |-> "none"] /\ session = [s \in Session |-> "none"]
    /\ asked = 0 /\ socket = <<>> /\ carried = [s \in Session |-> <<>>]
    /\ unnoticed = {} /\ unsent = {}

DnsConnect ==
    /\ loop = "connecting" /\ opened < MaxSessions
    /\ loop' = "up" /\ opened' = opened + 1
    /\ udpTask' = [udpTask EXCEPT ![opened + 1] = "running"]
    /\ session' = [session EXCEPT ![opened + 1] = "open"]
    /\ UNCHANGED <<asked, socket, carried, unnoticed, unsent>>

DnsConnectFails ==
    /\ loop = "connecting"
    /\ loop' = "asleep"
    /\ UNCHANGED <<opened, udpTask, session, asked, socket, carried, unnoticed, unsent>>

DnsWake ==
    /\ loop = "asleep"
    /\ loop' = "connecting"
    /\ UNCHANGED <<opened, udpTask, session, asked, socket, carried, unnoticed, unsent>>

\* Any session's connection may fail, the current one or an earlier one.
DnsLinkFails(s) ==
    /\ session[s] = "open"
    /\ session' = [session EXCEPT ![s] = "failed"]
    /\ UNCHANGED <<loop, opened, udpTask, asked, socket, carried, unnoticed, unsent>>

\* The current session's reads end: its connection failed, or an answer read
\* in another minute than it was masked in did not deserialize, which leaves
\* the connection itself open.
DnsReadsEnd ==
    /\ loop = "up"
    /\ loop' = "connecting"
    /\ UNCHANGED <<opened, udpTask, session, asked, socket, carried, unnoticed, unsent>>

Ask ==
    /\ asked < MaxQueries
    /\ asked' = asked + 1 /\ socket' = Append(socket, asked + 1)
    /\ UNCHANGED <<loop, opened, udpTask, session, carried, unnoticed, unsent>>

\* A reset, a close or a timeout reaches the client's socket.
ResetArrives(s) ==
    /\ session[s] = "failed"
    /\ session' = [session EXCEPT ![s] = "reset"]
    /\ UNCHANGED <<loop, opened, udpTask, asked, socket, carried, unnoticed, unsent>>

\* Mutant of ForwardFails: the task goes on after a failed send.
ForwardFails_Continue(s) ==
    /\ udpTask[s] = "running" /\ socket # <<>> /\ session[s] \in {"failed", "reset"}
    /\ socket' = Tail(socket) /\ unsent' = unsent \cup {Head(socket)}
    /\ UNCHANGED <<loop, opened, udpTask, session, asked, carried, unnoticed>>

\* Whichever running task is woken takes the next query.
ForwardQuery(s) ==
    /\ udpTask[s] = "running" /\ socket # <<>> /\ session[s] = "open"
    /\ socket' = Tail(socket)
    /\ carried' = [carried EXCEPT ![s] = Append(@, Head(socket))]
    /\ UNCHANGED <<loop, opened, udpTask, session, asked, unnoticed, unsent>>

\* Until the client's socket learns of the failure, sends go on succeeding.
ForwardUnnoticed(s) ==
    /\ udpTask[s] = "running" /\ socket # <<>> /\ session[s] = "failed"
    /\ socket' = Tail(socket) /\ unnoticed' = unnoticed \cup {Head(socket)}
    /\ UNCHANGED <<loop, opened, udpTask, session, asked, carried, unsent>>

\* The send fails: the query it was for is gone, and so is the task.
ForwardFails(s) ==
    /\ udpTask[s] = "running" /\ socket # <<>> /\ session[s] \in {"failed", "reset"}
    /\ socket' = Tail(socket) /\ unsent' = unsent \cup {Head(socket)}
    /\ udpTask' = [udpTask EXCEPT ![s] = "ended"]
    /\ UNCHANGED <<loop, opened, session, asked, carried, unnoticed>>

DnsNext ==
    \/ DnsConnect \/ DnsConnectFails \/ DnsWake \/ DnsReadsEnd \/ Ask
    \/ \E s \in Session : \/ DnsLinkFails(s)
                          \/ ResetArrives(s)
                          \/ ForwardQuery(s)
                          \/ ForwardUnnoticed(s)
                          \/ ForwardFails(s)

-----------------------------------------------------------------------------

\* Types.
DnsTypeOK ==
    /\ loop \in {"connecting", "up", "asleep"} /\ opened \in 0 .. MaxSessions
    /\ udpTask \in [Session -> {"none", "running", "ended"}]
    /\ session \in [Session -> {"none", "open", "failed", "reset"}]
    /\ unnoticed \cup unsent \subseteq 1 .. asked /\ asked \in 0 .. MaxQueries

\* Every query asked is in exactly one place: waiting, carried by one session,
\* sent into a connection not yet known to have failed, or unsent; and once a
\* send fails, the task of a session that was replaced takes no further query
\* from the new one, however often the client reconnects (the UDP task of run,
\* which ends on its first send error).
UnsentPerFailedSession ==
    LET carriedBy(s) == Range(carried[s])
        all          == UNION {carriedBy(s) : s \in Session}
        failed       == {s \in Session : session[s] \in {"failed", "reset"}}
    IN  /\ 1 .. asked = Range(socket) \cup unnoticed \cup unsent \cup all
        /\ Range(socket) \cap (unnoticed \cup unsent \cup all) = {}
        /\ unnoticed \cap unsent = {} /\ all \cap (unnoticed \cup unsent) = {}
        /\ \A s, t \in Session : s # t => carriedBy(s) \cap carriedBy(t) = {}
        /\ Cardinality(unsent) <= Cardinality(failed)

=============================================================================
