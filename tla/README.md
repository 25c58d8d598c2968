# A verification development for apfsds.rs

TLA+ models of the daemon, client and library crates of apfsds.rs, the TLC runs that
check them on small instances, and TLAPS proofs of what matters most.

## The system

apfsds.rs is a proxy. A client opens a WebSocket to a *handler* (`daemon/src/handler.rs`),
which authenticates it and passes its frames to *exit nodes* through a pool of HTTP clients
(`crates/transport`); an exit node (`daemon/src/exit_node.rs`) writes the packets to a TUN
device and streams replies back to the handler, which finds the client's session in a
registry. An exit node without a public address connects to the handler instead ("reverse
mode"). Around this path sit a connection store, a write-ahead log under the storage of a
Raft node, usage billing in PostgreSQL, an archive in ClickHouse, key rotation, an emergency
stop, and the obfuscation of the traffic.

### Inventory

| Part | Source | Module |
| --- | --- | --- |
| Connection store | `crates/storage/src/{engine,segment,blink_tree}.rs` | `StorageEngine`, `ConnTable` |
| Write-ahead log, Raft log storage | `crates/storage/src/wal.rs`, `crates/raft/src/storage.rs` | `Wal`, `RaftStorage` |
| ClickHouse buffers | `crates/storage/src/clickhouse_backup.rs` | `FlushBuffers` |
| Exit pool, exit client | `crates/transport/src/{exit_pool,exit_client}.rs` | `ExitPool`, `ReturnStream` |
| Exit node | `daemon/src/exit_node.rs` | `ExitNode` |
| Exit-node registration | `daemon/src/{exit_node_pool,handler,exit_node}.rs` | `ReverseRegistration` |
| Handler session, registry | `daemon/src/{handler,connection_registry}.rs` | `HandlerSession` |
| Billing | `daemon/src/billing.rs` | `Billing` (composed into `HandlerSession`) |
| Authenticator, replay caches | `daemon/src/auth.rs`, `crates/crypto/src/replay.rs` | `Authenticator` |
| Token endpoint | `daemon/src/handler.rs`, `crates/crypto` | `TokenEndpoint` |
| Key rotation | `daemon/src/key_rotation.rs` | `KeyRotation` |
| Padding, mask, compression | `crates/obfuscation/src` | `Bytes`, `Obfuscation` |
| Frames and their two encodings | `crates/protocol/src`, `crates/transport/src/frame_codec.rs`, `client/src/wss.rs` | `FrameCodec` |
| DNS answers | `client/src/doh.rs` | `Doh` |
| Client: SOCKS5, WebSocket session, emergency checker | `client/src/{socks5,wss,emergency}.rs` | `Tunnel` |
| Client: local DNS server | `client/src/local_dns.rs` | `DnsClient` |
| Connection pool | `crates/transport/src/pool.rs` | `ConnectionPool` |
| Emergency monitor of the daemon | `daemon/src/emergency.rs` | `EmergencyMonitor` |
| Noise generator | `daemon/src/noise.rs` | `NoiseGenerator` |
| Configuration of the daemon | `daemon/src/config.rs` | `DaemonConfig` |
| Raft node and network, transports, front ends, management, region scores | the rest | not modelled, see below |

Modules that put components together: `Wire` (what travels between processes, byte by byte),
`Tunnel` (client and handler end to end), `HandlerSession` (sessions, registry, billing),
`RaftStorage` (the Raft store over the WAL). `Storage`, `Handler`, `AuthService`, `ClientProcess`
and `Services`, and `Wire` with the exit node and its return stream, gather components that share
no state in the code: a variable says which one a behaviour exercises, so each is explored in
full and none multiplies the others' states.

## Modules

### StorageEngine, ConnTable

Append-only segments, one active and the others sealed, and an index from connection to a
pointer (segment id, offset). Every critical section of `engine.rs` is an action: `upsert`
takes its transaction id, appends under the write lock or drops the lock and rotates, then
retries; `get` copies the pointer out of the index, looks in the active segment, then in the
sealed ones. A record is its connection, transaction id and size. `ConnTable` is the table a
caller sees: reads return a version that was current at some moment of the call.

### Wal, RaftStorage

`Wal` is the file as a sequence of cells (checksum, length, data of one record): appending
writes cells, `sync` makes them durable, and a crash leaves any prefix of what was not
synced. `ReadAll` follows `read_all`, its early end and its errors included. `RaftStorage`
adds the in-memory log, the hard state and their operations. An append of one entry or of a
batch may fail at any cell, and a sync may fail: both go to the caller of an append and are
ignored for a hard state. What a failed sync did not write is left to the next one; a kernel
that drops such pages instead is not modelled. `Restart` is a crash followed by
`PersistentStorage::new`.

### ExitPool

`forward` holds the read lock of the groups for the whole call; each of its steps (skip an
unhealthy client, send, answer, failure) is an action, interleaved with the health checker,
the stream tasks, `add_node` and nodes that go up and down. `AnswerLost` is the timeout of a
request the node did receive, `RequestRefused` an answer with an error status, after which the
client stays healthy.

### ExitNode

`handle_forward` in its three steps (address, route, write), the reader task, and the return
streams. Address arithmetic wraps as the `u16` does, over a small `AddrSpace`. The device
mutex is a variable: the reader keeps it across its blocking read.

### ReverseRegistration

Both ends of a registration: the node's retry loop (opening handshake, group list, choice,
service) and the handler's task for every connection (offer, wait, register, serve,
unregister, await the sender task). A connection may break at any point; each end notices in
its own time, so a node can be back on a new connection before the old one is cleaned up.
`Expects` says which `Sec-WebSocket-Accept` values the node's WebSocket library takes, and
`Handshakes` how many opening requests it sends: the handler answers the first with a constant
header and waits for a second in `accept_async`.

### HandlerSession, Billing

`handle_connect`: the request is turned away or admitted for the user of its token, then upgrade,
greeting, DNS socket, the three tasks of a session (read loop, `tx_task`, `dns_listener`), the
channel between them, the registry, the gauge of active sessions, and teardown in the order of
the code. Whether a token is accepted is a choice here, which the authenticator makes; so is
whether `accept_async` succeeds. The client is the environment. Other sessions of the handler are
seen only through the usage they record (`OtherForwardOk`): the registry holds each session under
a key of its own, and a session adds and removes itself only. `Billing` is the map of unflushed
usage, taken as a whole by the flush and then written user by user. The flush loop is assumed to
go on: `main.rs` aborts it at shutdown, which loses what is unflushed. `Handler` puts the
sessions beside the registrations of exit nodes.

### FlushBuffers

Both buffers of the ClickHouse client. `record_connection` pushes under the lock and, if the
batch is full, flushes after releasing it; a flush drains under the lock (`Drain`) and inserts
afterwards (`Insert`, `InsertFails`), so flushes of two callers and of the periodic task
overlap. The Raft buffer has one user, the applier. `EnsureTable` and `EnsureLogsTable` run
beside everything else; an insert into a table that is not there fails. `Restart` is a crash:
the buffers and batches are lost. The WAL is `whole`, `cut` (its last checksum is incomplete,
which `read_all` takes for the end) or `bad` (`read_all` fails, and a record appended behind a
cut makes it so). `Resume` reads the log back, the entries deleted from it included, and
`get_initial_state` takes its last entry for applied. `StartEmpty` is a restart with a bad WAL: the
log begins again at index 1, and `earlier` keeps the rows of its former lives.

### Authenticator, TokenEndpoint, KeyRotation (composed by AuthService)

`Authenticator` is one instance used by several threads. `verify` and
`verify_and_consume_token` judge the time, then call `check_and_insert`, which looks a key up
(`Get`) and inserts it in a second step with an expiry fixed before; the entries are dropped
by `cleanup`. `step[c]` says where a call is. The caches are functions from keys to expiries,
0 standing for absent; the token cache is keyed by half of the nonce, as in the code. Assumed,
as the code leaves it to the machine: the wall clock and the monotonic clock advance together,
and a call takes at most `MaxCall`. The relations the properties need are the assumption
`AuthAssumption`: a nonce is kept for longer than twice the drift plus two calls, a token for
longer than its validity plus two calls. The code's numbers (120 s against a drift of
30 s either way, the token's lifetime plus 60 s) meet them as long as a call takes less than
30 s. A margin of one call would not do: a slow call can overwrite a faster one's entry with
an earlier expiry.

`TokenEndpoint` is `handle_retrieve_token`: `Process` opens, checks and answers the body,
`Answer` waits until 200 ms have passed since the request arrived, `Disconnect` drops a
handler where it waits. Keys, ciphertexts and MACs are symbolic. `AnswerIsOwn` says nothing of
the 200 ms.

In `KeyRotation` keys are numbered and a signature is the number of its key. `verify` looks at
`current`, then at `previous`, keeping the read lock of `current`; `rotate` keeps both write
locks over several steps; `force_rotate` takes no lock.

### Bytes, Obfuscation, FrameCodec, Doh, ReturnStream (composed by Wire)

Encodings as functions over byte strings, scaled down: a byte has four values, a length three
digits, the mask generator an eight-bit state, and sizes and thresholds in proportion. Random
draws are sets of outcomes. `Obfuscation` has the padding distributions with their jitter, the
mask with its scalar, AVX2 and NEON forms, and the gate that compresses only what is large
enough. `FrameCodec` has the constructors of frames, their checks and both encodings: the codec's
(mask, then pad) and the one client and handler use (pad, then mask). `Doh` builds and parses the
simplified DNS answers. `ReturnStream` is `subscribe` of the exit client: chunks cut at any byte,
reassembly, disconnection, backoff. In `Wire` a job is made, sent and read while the clock moves.
A frame the client's receiver cannot unpad is dropped, one it cannot deserialize ends its
reading. The libraries rkyv, crc32 and zstd are external, given by what the code relies on. A job
may also be a run of the exit node, or of the stream it answers on.

### Tunnel, DnsClient (composed by ClientProcess)

`Tunnel` follows a SOCKS connection from `accept` to the return of `handle_connection`: the two
relay directions, the WebSocket between them and the handler's session loop and `tx_task` at the
other end, with the emergency checker that ends the client process. A message is masked with the
minute it was written in; read in another minute it is garbled. `Wire` shows what happens within
one minute. That the client's handshake and the handler's meet is an assumption of `WssConnect`
(see below). `DnsClient` is the local DNS server: one socket, a session opened again whenever its
reads end, and for each session a task that nothing stops when the session is replaced. A link
that died swallows what is sent on it until the reset arrives, any number of queries; then the
next send fails.

### ConnectionPool, EmergencyMonitor, NoiseGenerator, DaemonConfig (composed by Services)

`ConnectionPool`: slots behind locks that calls keep while they use a connection; `connect_all`
and `close` visit the slots one by one, and there may be several `connect_all` at once. The locks
are parking_lot's: a call that waits for one blocks its thread, and a guard kept across an await
ties the call to its thread, so `thread` says which thread each call blocks or is tied to.
`EmergencyMonitor`: the loop from its start (`StartMonitor`), its query, triggers by operators;
`trigger_at` is the sequence of values stored, of which the loop may read an older one, as the
ordering is Relaxed. `NoiseGenerator`: tasks that share one flag over stops and new starts.
`DaemonConfig`: `load`, `load_merge` and `merge` over settings that are Unset when they have
their default; `Fields` are all settings of a file, `Merged` those `merge` looks at.

## Runs

| Run | Question | Bounds |
| --- | --- | --- |
| `storage` | Do pointers always resolve, does the engine implement the table? What does recovery return after any crash? | engine: 2 callers, 2 connections, sizes 1 and 3 over segments of 2 (fits twice, and never fits), 4 transaction ids: two rotations racing each other and a get. Raft: 5 records, 2 crashes inside any write, 1 write or sync that fails: damage, recovery, appends after it, a second recovery |
| `exit_pool` | Does failover visit each client once, when is a packet delivered twice, does `add_node` get its lock? | 2 callers, 2 nodes and one added, 1 outage or error status, 1 round of health checks; the group asked for exists, falls back to group 0, or is missing |
| `handler` | Are replies dropped, channels drained, usage counted once, sessions unregistered? Does the pool of registered exit nodes mirror the live connections, in the groups agreed, and is a broken one cleaned up? | clients: 1 session of either of 2 users, 2 frames, 1 DNS query, 1 frame of another session: two users in one flush, a flush between two frames, replies and answers in the channel at teardown. Nodes: 2, one configured for a group that does not exist, 1 break anywhere, so that a node is back before its old connection is cleaned up; a node that accepts the handler's header and sends the second request |
| `handler_session_gauge` (violation) | Does a session that ended leave the gauge? | 1 session, 2 frames |
| `reverse_handshake` (violation) | Does a node register, with a library that checks the header and shakes hands once? | the 2 nodes of `handler`, 2 breaks |
| `auth_service` | Is a request or a token refused by every call that begins after it was let through? Does every client of the endpoint get its own answer? Is `verify` exact although it reads two entries one after the other? | authenticator: 2 calls, requests whose nonces share their first half and one with a bad HMAC, 9 instants, so that entries expire, are cleaned up and meet late calls. Endpoint: 2 visitors, all kinds of bodies. Keys: 3 threads, 3 keys, 6 instants, grace period 2: two rotations in one grace period and expiry on the exact instant |
| `replay_race` (violation) | Is a nonce new once, for calls that overlap too? | the authenticator of `auth_service` |
| `flush_buffers` | Is a record archived once, are buffers bounded, is the archive of a life of the Raft log in order over restarts, does everything leave the buffer? | 2 callers and the ticker, batches of 2, 3 records, 3 log entries, 2 crashes that leave the WAL whole, cut or bad: two callers that both found a full batch, a periodic flush beside an insert, and an append behind a cut before the next crash |
| `wire` | Is what is read what was written? Do replies find the sender's route and the handler's stream? | payloads up to 3 bytes (one too long), both encodings, all strategies, mixed vector widths, a rotation of the mask; lists of up to 4 addresses, as many as a byte has values, cut at every length; 3 packets in chunks of every size over reconnections; exit node: 2 tasks, 4 packets over 3 addresses (wraps), 2 streams of handler 1 |
| `client_process` | Do streams keep their order, which chunks may be missing, does everything end? | 1 connection, 3 chunks up, 2 replies, 3 minutes; 3 DNS sessions, 4 queries. Connections share only the emergency flag, so one is enough |
| `services` | Do pool calls return and does `close` leave nothing behind, does a trigger stop the daemon, does noise end, what do merged files give? | pool: 2 users, 2 calls of `connect_all` and `close` over 2 slots and 2 threads, 3 connections, 3 requests, so that calls share a thread; 2 operators, delays 0 and 2; 2 tasks, 2 stops; every sequence of up to 4 out of 4 files |
| `config_merge` (violation) | Does every setting follow the rules `merge` states? | the files of `services` |

The modules' type invariants (`TypeOK`, or the name of the component with `TypeOK`) say what
the variables range over; all hold in these instances. That of `StorageEngine`, which bounds
the segments, is part of `storage`; it and `KeyTypeOK` are also proved.

Symmetry is used in `storage` (callers, connections), which checks safety only. Deadlock
checking is off where the bounded system may stop: all sessions ended, all forwards made, all
writes used, all nodes registered, a job read, the clocks at their bound, a service closed or
stopped.

### Fairness

Every task that can run does run (weak fairness per task; tokio schedules runnable tasks).
`ExitPool`: every request ends, because the client has a timeout. `HandlerSession`: the flush
loop ticks; nothing is assumed of clients, exit nodes or DNS servers. `ReverseRegistration`: both
ends notice a broken connection. The code sends no keep-alive, so a half-open TCP connection is
noticed only as far as the operating system does so. `FlushBuffers`: the interval ticks and an
insert ends, well or not. `Tunnel`: the relay tasks and the handler's two tasks run, and the exit
after the emergency delay comes; nothing is assumed of applications, links and exit nodes.
`ConnectionPool`: strong fairness of the locks (parking_lot hands a contended lock over in the
end), and the calls on a thread that is not blocked go on; that a use and a close handshake end
is an assumption about the network, as the pool has no timeout of its own. `EmergencyMonitor`:
time passes, the loop wakes, and queries end; the last is an assumption too, as the 10 s given to
the crates.io client are a rate limit and not a timeout. `NoiseGenerator`: tasks wake.

### What the violations show

* `handler_session_gauge` (`LeaverUncounted`): teardown (`handler.rs:516`) awaits `tx_task`,
  which ends when every sender of its channel is dropped; `dns_listener`, awaited next, owns one.
* `reverse_handshake` (`NodesRejoin`): the handler's accept header is the constant
  `exit-node-register` (`handler.rs:846`), and after it `accept_async` waits for a second opening
  request (line 714). tokio-tungstenite, which the exit node uses, refuses the header and sends
  no second request, and the node retries for ever. `handler` therefore describes a node that
  takes any header and sends the second request.
* `replay_race` (`NewOnce`): `check_and_insert` looks the nonce up and inserts it under separate
  locks (`replay.rs:30` and 37), so calls that overlap are both told that it is new.
  `LaterRefused` is about calls that begin after another was let through. `UuidReplayCache` is
  written in the same way.
* `config_merge` (`RulesKept`): `merge` (`config.rs:66`) looks at eleven settings. A file's
  `handler_endpoint`, `preferred_group_id`, `grace_period`, storage settings and others have no
  effect. `MergedFollowFiles` is about the eleven.

### Other disagreements met while modelling

They follow from single definitions of the models and have no run of their own.

Storage and Raft:

* A crash inside an append leaves part of a record. `read_all` returns an error for it, and
  `PersistentStorage::new` (`raft/src/storage.rs:34`) then starts with an empty log, synced
  entries included, against "Durability with crash recovery" (`crates/storage/README.md:9`).
  `SyncedSurvive` excludes this with `torn`. See `Replay`. The entries that follow are archived
  under the old indexes, and nothing in the table tells the two lives of the log apart;
  `LogArchived` is about one life. See `StartEmpty`.
* `PersistentStorage::new` starts with term 0 and no vote (`raft/src/storage.rs:61`); the markers
  `save_hard_state` wrote are skipped, against "HardState persistence"
  (`crates/raft/README.md:8`). See `Restart`, `Replay`.
* `delete_logs_from` does not touch the WAL (`raft/src/storage.rs:124`), so deleted entries come
  back. See `DeleteLogsFrom`.
* After a restart every entry of the log counts as applied, the ones appended and never applied
  included (`raft/src/storage.rs:97`). See `Restart` of `FlushBuffers`.
* No timer flushes the Raft buffer; its last entries wait for a full batch. `LogArchived` allows
  for it.
* Two callers that saw one full segment rotate twice, and the second seals an almost empty
  segment (`engine.rs:160`; "Segment full - seal and create new", line 114).

Handler and exit nodes:

* The client asks for `/ws` and sends no token (`wss.rs:41`), which the handler answers with a
  decoy page (`handler.rs:119`); on `/connect` the handler's accept header is a constant and
  `accept_async` expects a second opening request (`handler.rs:529`, 362), as for exit nodes.
  The models of sessions begin where the two have met. See `WssConnect`, `Upgrade`.
* The exit client speaks HTTP/2 with prior knowledge by default while the exit node serves
  HTTP/1 (`exit_node.rs`). `ExitPool` and `ReturnStream` begin where they understand each other.
* The token endpoint issues the serialized payload as it is, while `verify_and_consume_token`
  expects base64 and a signature (`auth.rs:143`). `Authenticator` verifies the tokens its own
  `generate_token` makes, `TokenEndpoint` follows a token to the visitor.
* The reader of the TUN device holds its mutex in a blocking read (`exit_node.rs:101`), so a
  forward waits for a packet that only forwards would cause, against "forwards traffic between
  Handlers (via HTTP/2) and the OS" (line 3). See `ReaderLock`, `TunWrite`.
* `health_check` asks for `/health` (`exit_client.rs:209`), which `exit_node.rs` answers with
  404: a health round marks reachable nodes unhealthy until their stream reconnects. See
  `Routes`, `HealthCheck`.
* Every return stream is registered as handler 1 (`exit_node.rs:315`), so replies to other
  handlers are dropped. `RepliesRouted` is checked in `wire` for handler 1. See `StreamId`.
* When the DNS socket cannot be bound, the session returns without leaving the registry or
  the gauge (`handler.rs:402`). See `BindFails`.
* A second rotation within a grace period drops the first key early (`key_rotation.rs:153`);
  `VerifyExact` is about the last retired key for this reason. A `force_rotate` between the
  installation of a key and `force_rotation.store(false)` is forgotten (line 155). See
  `RotateInstall`, `RotateEnd`.
* `handle_connect` creates an `Authenticator` for each request (`handler.rs:337`), so its
  caches remember nothing between requests. `LaterRefused` is about one instance.

Client and wire:

* `PlainPacket::is_valid`, `validate_frame` and `validate_archived_frame` have no callers outside
  the tests: the exit node takes a packet without checking it. `FrameSurvives` says that the
  check would succeed.
* The two encodings of a frame are not compatible: the codec masks and then pads, client and
  handler pad and then mask. Nothing in the repository mixes them.
* A message whose mask has rotated ends the client's session (`wss.rs:195`) and is skipped by the
  handler (`handler.rs:477`).
* An AAAA record cut short whose first octet is 1 parses as an A record (`doh.rs:111`), and a
  list of 256 addresses has count 0 (`doh.rs:138`). `DohAnswerSurvives` says which answers are
  exact.
* A SOCKS connection whose application has closed is not released until its link fails or a reply
  cannot be written. `ReturnsOnceBothEnded` needs the WebSocket to be over.
* The local DNS server reads answers and drops them, and leaves a UDP task behind for each
  session, which takes queries the next session could have carried. `UnsentPerFailedSession`
  bounds those taken for a send that fails; the ones a dead link swallowed unnoticed are as many
  as come before its reset.

Services:

* `auto_reconnect` ("Reconnect on failure", `pool.rs:34`) is never read: a slot whose connection
  failed ("Mark for reconnection", line 165) stays empty until `connect_all`.
* The slot's lock blocks its thread and is held across an await (`pool.rs:156`), so a call can
  block the thread that the holder of its slot needs, for good. `PoolCallsReturn` says that calls
  return unless threads wait for each other in this way, and that calls with a thread each never
  do.
* A connection that `connect_slot` stores after `close` stays open, as it does not read `closed`.
* The emergency loop's own trigger replaces one made by hand during its query, and with Relaxed
  stores the delay can be skipped. `TriggeredStops` holds all the same.
* A noise task that sleeps through a stop and a start goes on beside the new one.
* When files are merged, a known node keeps its location and no file can set a value back to its
  default.
* The pool, the emergency monitor, the noise generator and `load_merge` are not called by
  `main.rs`.

## Proofs

A theorem holds for every value of the constants that meets the named assumptions: any
number of threads, connections and messages and every limit. Each proof module extends the
components it is about. It states the inductive invariant, proves a lemma per action, combines
them, and derives the properties. Every inductive invariant was model-checked on the
component's run before it was proved. The assumptions are those of the modules: bounds are
natural numbers, and the ones named below.

| module | proves | assumes besides |
|---|---|---|
| `StorageProofs` | `TypeOK`, `IndexResolves`, `GetInFlightResolves`, `ImplementsTable`; `RecoveryInOrder`, `SyncedSurvive` | sizes positive |
| `FlushBuffersProofs` | `RecordedOnce`, `BufferBounded`, `LogArchived` | finitely many callers, `BatchSize` positive |
| `HandlerSessionProofs` | `DroppedOnlyAtEnd`, `ChannelDrained`, `BilledOnce` | finitely many sessions |
| `AdmissionProofs` | `LaterRefused`, `AnswerIsOwn`, `KeyTypeOK`, `PreviousKept`, `VerifyExact`; `PoolMatchesTasks` | the margins of `AuthAssumption` |
| `ExitNodeProofs` | `RepliesRouted` | more than two addresses; for the stream, one handler with id 1 |
| `ExitPoolProofs` | `TriesEveryNodeOnce`, `TwiceOnlyIfAnswerLost` | configured groups are nonempty and list a node once |
| `ClientProcessProofs` | `StreamsKeepOrder`, `UnsentPerFailedSession` | |
| `ServicesProofs` | `NothingEarlyLeft`, `MergedFollowFiles` | at least one slot |

**Storage engine.** `IndexResolves` is not inductive: that a pointer survives a rotation needs
that segment ids are never reused (`IdsDistinct`), and that a get in flight resolves needs to
know which locals are set at each program point (`LocalsSet`). The lemmas first show what
appending and sealing do to a lookup: old offsets keep their records and the new one gets its
own. The refinement `EngineImplementsTable` maps every step to a step of `ConnTable` or to a
stutter: an upsert takes effect when it replaces the index entry, a delete when it removes it,
a get at its search; the other steps leave every lookup as it was. It needs one more fact: a
pointer that a delete returned still leads to a record (`RetResolves`).

**Raft storage and WAL.** What recovery returns depends on the cells of the file, so `WInv`
speaks of these. Each file a crash could leave now consists of whole records with increasing
numbers (`Ordered`), and where they stop either the file ends there, or something stands there
that is no record and the position is behind its start (`Reads`). The second case is why damage
stays where it is: every write begins with a checksum, and a checksum inside a place makes it
no record (`NotWhole`), so no later append completes what a crash or an error left, and no
record behind the damage is ever returned. `Extended` shows this for a write of any part of any
records; `WriteKeeps`, `SyncKeeps` and `ReopenKeeps` carry it to all crash images at once, since
`base`, the position of the last sync, is where they begin to differ. As long as nothing is
torn, `Clean` says more: the file is whole records to its end, the synced part too, and the
acknowledged entries are in the synced part, which every image contains. `ReadAllOf` says what
`ReadAll` returns for such files. `Turns` picks the number of records by its defining property
instead of by recursion, so `TurnsAre` needs no induction. `StoresBehave` and `StorageCorrect`
carry the results to the composition the run checks.

**ClickHouse buffers.** `RecordedOnce` counts occurrences. `ConnInv` says instead that buffer,
batches, rows and lost records are disjoint, that none repeats a record, and that together they
are `1..recorded`. `BufferBounded` is inductive with the types: a record above a batch puts its
caller on its way to a flush. `RaftInv` says, of one life of
the log, that the entries still on their way to the table are the last ones applied, in order,
and that those before are in the table or lost; a log that starts empty begins a new life.

**Handler sessions and billing.** `SInv` ties the phase of a session to what exists of it: in its
loop it is registered and has a receiver unless its client left; before it there is no reply;
nothing enters the channel after `tx_task` is done. `BInv` adds the billing equation, which is
inductive once a forward in progress is known not to have been counted.

**Authentication.** For the authenticator, `AInv` says that what was let through stays in its
cache for as long as any call could still find it in time (`NonceKept`, `TokenKept`), and that a
call that began after that is still at its lookup (`Refusable`). The margins (`NonceTtl > 2 *
Drift + 2 * MaxCall`, `TokenSlack > 2 * MaxCall`) are what the argument uses: the expiry a call
writes was computed from a clock up to `MaxCall` old. For the endpoint, `EInv` follows a
visitor's body to its result. For the keys, `KeyTypeOK /\ PreviousKept` is inductive and
`VerifyExact` follows in one step: the step that ends a verification sees either the last retired
key with its own expiry, or no key and a grace period that is over. `PartsBehave` shows that a
behaviour of the composed service is one of each part, so `ServiceCorrect` has all of them of the
composition.

**Reverse registration.** `PInv` adds that the group a task will read was chosen by the node of its
connection, that a node talks on a connection of its own, and that ids are not reused.

**Connection pool and configuration.** `SweptInv` says how far `close` has come: a connection
from before it is in no slot that `close` has passed, and the ones calls of `connect_all` are
about to store are all different and not from before. `ConfigInv` adds to `MergedFollowFiles`
that the files giving a setting a value, if there are any, have a last one. `OneMoreFile` then
shows that one more file changes the last one as `merge` changes the setting. `ServicesCorrect`
has both of the composition.

**Exit node.** Who wrote the route of an address last decides. `RInv` says that two packets fewer
than `AddrSpace` allocations apart have different addresses, which it derives from how far the
counter is ahead of each (`Ahead`), and which forwards could still overwrite a route.
`RouteAlwaysFound` needs no assumption on the handlers: the route found is the sender's.
`RepliesAlwaysRouted`, that the reply also goes down its stream, assumes the one handler
with id 1, which is the id every stream is registered under (see the findings).

**Exit pool.** `FInv` says what a rotation has visited so far (the places after its start, in
order), that groups change only while no forward runs, and that a packet under way belongs
to one forward and was received by nobody unless an answer was lost.

**Client process.** `TInv` follows each direction of a connection through the channel, the
socket and the handler: what is in flight is in order behind what arrived, and while the
reader goes on nothing is missing before it that was not garbled. `DInv` says that a
query is in one place, that a session not opened yet has no task, and charges each unsent query
to the end of a session's UDP task.

Only model-checked:

* Liveness (`AddNodeCompletes`, `RecordLeavesBuffer`, `LeavesRegistry`, `BrokenCleanedUp`,
  `PoolCallsReturn`, ...): the prover has neither fairness nor `ENABLED`.
* The properties of `Wire`: its encodings are recursive, and `Obfuscation` uses bitwise
  operators.
* `ListsAccumulate`: merging a list is a fold over it, and what a fold computes for every list
  needs induction over data.

## Not modelled

* Consensus itself is in the async-raft library; `node.rs` and `network.rs` start it and carry
  its messages in single HTTP calls.
* TLS set-up, the WebSocket client's and server's headers, QUIC, SSH and Noise wrappers:
  stateless calls of libraries. The cryptographic primitives appear in `TokenEndpoint` as
  symbolic operations.
* Checksums of rewritten packets, timing and decoy data, log messages.
* Command line, management pages (its writing endpoints only log), metrics other than the session
  gauge and the counters of the token endpoint.
* Region scores (floating point over a table); the plugin interface and the mobile entry point
  are stubs.
