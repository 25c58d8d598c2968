------------------------------- MODULE Tunnel -------------------------------
(***************************************************************************)
(* A SOCKS connection of the client end to end: handle_connection          *)
(* (client/src/socks5.rs) with its two relay directions over a WebSocket   *)
(* session (client/src/wss.rs), the handler's session loop and tx_task at  *)
(* the other end (daemon/src/handler.rs), and the emergency checker that   *)
(* ends the client's process (client/src/emergency.rs).                    *)
(*                                                                         *)
(* Every message is masked with the minute it was written in and unmasked  *)
(* with the minute it is read in (xor_mask.rs).  Wire shows that a message *)
(* read in its own minute decodes to what was sent; a message read in      *)
(* another minute is garbled, and either its length header is impossible   *)
(* (unpad gives None) or its body does not deserialize.  That a garbled    *)
(* message decodes by chance is left out.                                  *)
(***************************************************************************)
EXTENDS Integers, Sequences, Functions, FiniteSets

CONSTANTS
    Conns,       \* SOCKS connections
    MaxChunks,   \* chunks the application writes on each
    MaxReplies,  \* reply frames an exit node sends to each
    MaxMinute    \* bound on the mask clock

ASSUME TunnelAssumption == {MaxChunks, MaxReplies, MaxMinute} \subseteq Nat

VARIABLES
    minute,     \* the clock the masks are derived from
    emergency,  \* EMERGENCY_MODE
    exited,     \* the client process has exited
    app,        \* "open", "half" (EOF sent, still reading) or "closed"
    written,    \* chunks the application has written
    taken,      \* of those, chunks the sender task has read
    pc,         \* where handle_connection is
    snd, rcv,   \* the sender task and the receive loop
    ws,         \* the WebSocket: "none", "open", "broken" (reads fail),
                \* "ended" (closed by the handler), "left" (by the client)
    up, down,   \* messages in flight in each direction
    h,          \* the handler's session: "none", "reading", "left", "gone"
    chan,       \* replies in the session's registry channel
    dispatched, \* replies the exit nodes have had dispatched
    forwarded,  \* chunks forwarded to an exit node, in order
    delivered,  \* replies written to the application, in order
    garbledUp, garbledDown,  \* messages read in another minute
    refused     \* chunks an exit node refused

clientVars == <<app, written, taken, pc, snd, rcv>>
handlerVars == <<h, chan, dispatched, forwarded, garbledUp, refused>>
global == <<minute, emergency, exited>>
tunnelVars == <<global, clientVars, ws, up, down, delivered, garbledDown,
                handlerVars>>

Message(n) == [n |-> n, minute |-> minute]

\* Whether the reader's mask is the one the message was written with.
Readable(message) == message.minute = minute

TunnelInit ==
    /\ minute = 0 /\ emergency = FALSE /\ exited = FALSE
    /\ app = [c \in Conns |-> "open"] /\ pc = [c \in Conns |-> "accepted"]
    /\ written = [c \in Conns |-> 0] /\ taken = [c \in Conns |-> 0]
    /\ snd = [c \in Conns |-> "none"] /\ rcv = [c \in Conns |-> "none"]
    /\ ws = [c \in Conns |-> "none"] /\ h = [c \in Conns |-> "none"]
    /\ up = [c \in Conns |-> <<>>] /\ down = [c \in Conns |-> <<>>]
    /\ chan = [c \in Conns |-> <<>>] /\ dispatched = [c \in Conns |-> 0]
    /\ forwarded = [c \in Conns |-> <<>>] /\ delivered = [c \in Conns |-> <<>>]
    /\ garbledUp = [c \in Conns |-> {}] /\ garbledDown = [c \in Conns |-> {}]
    /\ refused = [c \in Conns |-> {}]

-----------------------------------------------------------------------------
(* Setting up a connection.                                                *)

\* A connection accepted in emergency mode is dropped without a reply.
Reject(c) ==
    /\ ~exited /\ pc[c] = "accepted" /\ emergency
    /\ pc' = [pc EXCEPT ![c] = "returned"]
    /\ UNCHANGED <<global, app, written, taken, snd, rcv, ws, up, down,
                   delivered, garbledDown, handlerVars>>

\* The method negotiation and the head of the request have been read.
Handshake(c) ==
    /\ ~exited /\ pc[c] = "accepted" /\ ~emergency /\ app[c] = "open"
    /\ pc' = [pc EXCEPT ![c] = "target"]
    /\ UNCHANGED <<global, app, written, taken, snd, rcv, ws, up, down,
                   delivered, garbledDown, handlerVars>>

\* A wrong version, method or command, or an early close.
HandshakeFails(c) ==
    /\ ~exited /\ pc[c] = "accepted" /\ ~emergency
    /\ pc' = [pc EXCEPT ![c] = "returned"]
    /\ UNCHANGED <<global, app, written, taken, snd, rcv, ws, up, down,
                   delivered, garbledDown, handlerVars>>

\* The target address has been read and resolved.
ParseTarget(c) ==
    /\ ~exited /\ pc[c] = "target" /\ app[c] # "closed"
    /\ pc' = [pc EXCEPT ![c] = "connecting"]
    /\ UNCHANGED <<global, app, written, taken, snd, rcv, ws, up, down,
                   delivered, garbledDown, handlerVars>>

\* An unknown address type, an early close, or a name that does not resolve.
TargetFails(c) ==
    /\ ~exited /\ pc[c] = "target"
    /\ pc' = [pc EXCEPT ![c] = "returned"]
    /\ UNCHANGED <<global, app, written, taken, snd, rcv, ws, up, down,
                   delivered, garbledDown, handlerVars>>

\* WssSession::connect: the WebSocket is open and its first message was the
\* connection id of the handler's new session.  That the two meet is an
\* assumption: the client asks for /ws and sends no token, a path the handler
\* answers with the decoy page; it expects sessions on /connect with a token,
\* and there its fixed Sec-WebSocket-Accept and second handshake (accept_async
\* on the upgraded connection) need a peer that takes both.
WssConnect(c) ==
    /\ ~exited /\ pc[c] = "connecting"
    /\ pc' = [pc EXCEPT ![c] = "connected"]
    /\ ws' = [ws EXCEPT ![c] = "open"] /\ h' = [h EXCEPT ![c] = "reading"]
    /\ UNCHANGED <<global, app, written, taken, snd, rcv, up, down, delivered,
                   garbledDown, chan, dispatched, forwarded, garbledUp, refused>>

\* No endpoint, no connection, or a first message that is not an id.
WssConnectFails(c) ==
    /\ ~exited /\ pc[c] = "connecting"
    /\ pc' = [pc EXCEPT ![c] = "returned"]
    /\ UNCHANGED <<global, app, written, taken, snd, rcv, ws, up, down,
                   delivered, garbledDown, handlerVars>>

\* The success reply is written and both relay directions start.
StartRelay(c) ==
    /\ ~exited /\ pc[c] = "connected" /\ app[c] # "closed"
    /\ pc' = [pc EXCEPT ![c] = "relay"]
    /\ snd' = [snd EXCEPT ![c] = "reading"]
    /\ rcv' = [rcv EXCEPT ![c] = "receiving"]
    /\ UNCHANGED <<global, app, written, taken, ws, up, down, delivered,
                   garbledDown, handlerVars>>

\* The reply cannot be written: the new session is dropped with the function.
StartRelayFails(c) ==
    /\ ~exited /\ pc[c] = "connected" /\ app[c] = "closed"
    /\ pc' = [pc EXCEPT ![c] = "returned"]
    /\ ws' = [ws EXCEPT ![c] = IF @ = "open" THEN "left" ELSE @]
    /\ down' = [down EXCEPT ![c] = <<>>]
    /\ UNCHANGED <<global, app, written, taken, snd, rcv, up, delivered,
                   garbledDown, handlerVars>>

-----------------------------------------------------------------------------
(* The application.                                                        *)

AppWrites(c) ==
    /\ ~exited /\ app[c] = "open" /\ pc[c] = "relay" /\ written[c] < MaxChunks
    /\ written' = [written EXCEPT ![c] = @ + 1]
    /\ UNCHANGED <<global, app, taken, pc, snd, rcv, ws, up, down, delivered,
                   garbledDown, handlerVars>>

AppHalfCloses(c) ==
    /\ ~exited /\ app[c] = "open"
    /\ app' = [app EXCEPT ![c] = "half"]
    /\ UNCHANGED <<global, written, taken, pc, snd, rcv, ws, up, down,
                   delivered, garbledDown, handlerVars>>

AppCloses(c) ==
    /\ ~exited /\ app[c] # "closed"
    /\ app' = [app EXCEPT ![c] = "closed"]
    /\ UNCHANGED <<global, written, taken, pc, snd, rcv, ws, up, down,
                   delivered, garbledDown, handlerVars>>

-----------------------------------------------------------------------------
(* The sender task: TCP to WebSocket.                                      *)

SendChunk(c) ==
    /\ ~exited /\ snd[c] = "reading" /\ taken[c] < written[c] /\ ws[c] = "open"
    /\ taken' = [taken EXCEPT ![c] = @ + 1]
    /\ up' = [up EXCEPT ![c] = Append(@, Message(taken[c] + 1))]
    /\ UNCHANGED <<global, app, written, pc, snd, rcv, ws, down, delivered,
                   garbledDown, handlerVars>>

\* On a WebSocket that is no longer open the send fails and the task ends, or
\* the bytes still fit a socket buffer and go nowhere.
SendChunkFails(c) ==
    /\ ~exited /\ snd[c] = "reading" /\ taken[c] < written[c]
    /\ ws[c] \in {"broken", "ended"}
    /\ taken' = [taken EXCEPT ![c] = @ + 1]
    /\ snd' \in {snd, [snd EXCEPT ![c] = "done"]}
    /\ UNCHANGED <<global, app, written, pc, rcv, ws, up, down, delivered,
                   garbledDown, handlerVars>>

\* Mutant of SenderEnds: the end of the application's data closes the session.
SenderEnds_Close(c) ==
    /\ ~exited /\ snd[c] = "reading" /\ app[c] # "open" /\ taken[c] = written[c]
    /\ snd' = [snd EXCEPT ![c] = "done"] /\ rcv' = [rcv EXCEPT ![c] = "done"]
    /\ UNCHANGED <<global, app, written, taken, pc, ws, up, down, delivered,
                   garbledDown, handlerVars>>

\* EOF or a read error: the task ends; nothing tells the handler.
SenderEnds(c) ==
    /\ ~exited /\ snd[c] = "reading" /\ app[c] # "open" /\ taken[c] = written[c]
    /\ snd' = [snd EXCEPT ![c] = "done"]
    /\ UNCHANGED <<global, app, written, taken, pc, rcv, ws, up, down,
                   delivered, garbledDown, handlerVars>>

-----------------------------------------------------------------------------
(* The receive loop: WebSocket to TCP.                                     *)

Receiving(c) == ~exited /\ rcv[c] = "receiving" /\ down[c] # <<>>

\* A reply frame is written to the application; a write to a closed
\* connection fails and ends the loop, or is lost in its socket buffer.
Receive(c) ==
    /\ Receiving(c) /\ Readable(Head(down[c]))
    /\ down' = [down EXCEPT ![c] = Tail(@)]
    /\ IF app[c] # "closed"
       THEN /\ delivered' = [delivered EXCEPT ![c] = Append(@, Head(down[c]).n)]
            /\ UNCHANGED rcv
       ELSE /\ rcv' \in {rcv, [rcv EXCEPT ![c] = "done"]}
            /\ UNCHANGED delivered
    /\ UNCHANGED <<global, app, written, taken, pc, snd, ws, up, garbledDown,
                   handlerVars>>

\* A garbled message: dropped when it does not unpad; recv_frame returns the
\* error, which ends the loop, when it unpads and does not deserialize.
ReceiveGarbled(c) ==
    /\ Receiving(c) /\ ~Readable(Head(down[c]))
    /\ down' = [down EXCEPT ![c] = Tail(@)]
    /\ garbledDown' = [garbledDown EXCEPT ![c] = @ \cup {Head(down[c]).n}]
    /\ rcv' \in {rcv, [rcv EXCEPT ![c] = "done"]}
    /\ UNCHANGED <<global, app, written, taken, pc, snd, ws, up, delivered,
                   handlerVars>>

\* Mutant of ReceiveEnds: only a close frame ends the loop.
ReceiveEnds_CloseOnly(c) ==
    /\ ~exited /\ rcv[c] = "receiving" /\ ws[c] = "ended" /\ down[c] = <<>>
    /\ rcv' = [rcv EXCEPT ![c] = "done"]
    /\ UNCHANGED <<global, app, written, taken, pc, snd, ws, up, down,
                   delivered, garbledDown, handlerVars>>

\* The WebSocket failed, or was closed and everything sent has been read.
ReceiveEnds(c) ==
    /\ ~exited /\ rcv[c] = "receiving"
    /\ ws[c] \in {"broken", "ended"} /\ down[c] = <<>>
    /\ rcv' = [rcv EXCEPT ![c] = "done"]
    /\ UNCHANGED <<global, app, written, taken, pc, snd, ws, up, down,
                   delivered, garbledDown, handlerVars>>

\* After the loop sender_task is awaited; then both halves of the WebSocket
\* and of the TCP connection are dropped.
Return(c) ==
    /\ ~exited /\ pc[c] = "relay" /\ rcv[c] = "done" /\ snd[c] = "done"
    /\ pc' = [pc EXCEPT ![c] = "returned"]
    /\ ws' = [ws EXCEPT ![c] = IF @ = "open" THEN "left" ELSE @]
    /\ down' = [down EXCEPT ![c] = <<>>]
    /\ UNCHANGED <<global, app, written, taken, snd, rcv, up, delivered,
                   garbledDown, handlerVars>>

-----------------------------------------------------------------------------
(* The handler's session.                                                  *)

Reading(c) == h[c] = "reading" /\ up[c] # <<>>

RxForward(c) ==
    /\ Reading(c) /\ Readable(Head(up[c]))
    /\ up' = [up EXCEPT ![c] = Tail(@)]
    /\ forwarded' = [forwarded EXCEPT ![c] = Append(@, Head(up[c]).n)]
    /\ UNCHANGED <<global, clientVars, ws, down, delivered, garbledDown, h, chan,
                   dispatched, garbledUp, refused>>

\* Mutant of RxForwardFails: the loop goes on with the next frame.
RxForwardFails_Continue(c) ==
    /\ Reading(c) /\ Readable(Head(up[c]))
    /\ up' = [up EXCEPT ![c] = Tail(@)]
    /\ refused' = [refused EXCEPT ![c] = @ \cup {Head(up[c]).n}]
    /\ UNCHANGED <<global, clientVars, ws, down, delivered, garbledDown, h, chan,
                   dispatched, forwarded, garbledUp>>

\* No exit node took the frame: the loop is left and the session
\* unregistered, while tx_task keeps the WebSocket open.
RxForwardFails(c) ==
    /\ Reading(c) /\ Readable(Head(up[c]))
    /\ up' = [up EXCEPT ![c] = Tail(@)]
    /\ refused' = [refused EXCEPT ![c] = @ \cup {Head(up[c]).n}]
    /\ h' = [h EXCEPT ![c] = "left"]
    /\ UNCHANGED <<global, clientVars, ws, down, delivered, garbledDown, chan,
                   dispatched, forwarded, garbledUp>>

\* A garbled message is dropped whether or not it unpads.
RxGarbled(c) ==
    /\ Reading(c) /\ ~Readable(Head(up[c]))
    /\ up' = [up EXCEPT ![c] = Tail(@)]
    /\ garbledUp' = [garbledUp EXCEPT ![c] = @ \cup {Head(up[c]).n}]
    /\ UNCHANGED <<global, clientVars, ws, down, delivered, garbledDown, h, chan,
                   dispatched, forwarded, refused>>

\* Mutant of RxEnds: a client that vanished without a failure is not noticed.
RxEnds_FailureOnly(c) ==
    /\ h[c] = "reading" /\ up[c] = <<>> /\ ws[c] = "broken"
    /\ h' = [h EXCEPT ![c] = "left"]
    /\ UNCHANGED <<global, clientVars, ws, up, down, delivered, garbledDown, chan,
                   dispatched, forwarded, garbledUp, refused>>

\* The WebSocket failed or the client dropped it.
RxEnds(c) ==
    /\ h[c] = "reading" /\ up[c] = <<>> /\ ws[c] \in {"broken", "left"}
    /\ h' = [h EXCEPT ![c] = "left"]
    /\ UNCHANGED <<global, clientVars, ws, up, down, delivered, garbledDown, chan,
                   dispatched, forwarded, garbledUp, refused>>

\* A reply from an exit node goes into the channel of a registered session.
Dispatch(c) ==
    /\ h[c] = "reading" /\ forwarded[c] # <<>> /\ dispatched[c] < MaxReplies
    /\ dispatched' = [dispatched EXCEPT ![c] = @ + 1]
    /\ chan' = [chan EXCEPT ![c] = Append(@, dispatched[c] + 1)]
    /\ UNCHANGED <<global, clientVars, ws, up, down, delivered, garbledDown, h,
                   forwarded, garbledUp, refused>>

\* tx_task masks and sends the next frame of the channel.
TxSend(c) ==
    /\ h[c] \in {"reading", "left"} /\ chan[c] # <<>> /\ ws[c] = "open"
    /\ down' = [down EXCEPT ![c] = Append(@, Message(Head(chan[c])))]
    /\ chan' = [chan EXCEPT ![c] = Tail(@)]
    /\ UNCHANGED <<global, clientVars, ws, up, delivered, garbledDown, h,
                   dispatched, forwarded, garbledUp, refused>>

\* The send fails: tx_task ends and the channel goes with it.
TxFails(c) ==
    /\ chan[c] # <<>> /\ ws[c] \in {"broken", "left"}
    /\ chan' = [chan EXCEPT ![c] = <<>>]
    /\ UNCHANGED <<global, clientVars, ws, up, down, delivered, garbledDown, h,
                   dispatched, forwarded, garbledUp, refused>>

\* dns_listener's socket failed, its sender was the last one: tx_task drains
\* the channel and ends, and the session drops the WebSocket.
HandlerCloses(c) ==
    /\ h[c] = "left" /\ chan[c] = <<>>
    /\ h' = [h EXCEPT ![c] = "gone"]
    /\ ws' = [ws EXCEPT ![c] = IF @ = "open" THEN "ended" ELSE @]
    /\ UNCHANGED <<global, clientVars, up, down, delivered, garbledDown, chan,
                   dispatched, forwarded, garbledUp, refused>>

-----------------------------------------------------------------------------
(* The environment and the emergency checker.                              *)

\* The connection fails or the handler's process ends: what was in flight is
\* gone and both ends see an error.
Break(c) ==
    /\ ws[c] = "open"
    /\ ws' = [ws EXCEPT ![c] = "broken"]
    /\ up' = [up EXCEPT ![c] = <<>>] /\ down' = [down EXCEPT ![c] = <<>>]
    /\ UNCHANGED <<global, clientVars, delivered, garbledDown, handlerVars>>

Rotate ==
    /\ minute < MaxMinute
    /\ minute' = minute + 1
    /\ UNCHANGED <<emergency, exited, clientVars, ws, up, down, delivered,
                   garbledDown, handlerVars>>

\* The checker finds the crate yanked or without versions.
TriggerEmergency ==
    /\ ~exited /\ ~emergency
    /\ emergency' = TRUE
    /\ UNCHANGED <<minute, exited, clientVars, ws, up, down, delivered,
                   garbledDown, handlerVars>>

\* The random delay is over: the process exits and its sockets close.
Exit ==
    /\ ~exited /\ emergency
    /\ exited' = TRUE
    /\ ws' = [c \in Conns |-> IF ws[c] = "open" THEN "left" ELSE ws[c]]
    /\ down' = [c \in Conns |-> <<>>]
    /\ UNCHANGED <<minute, emergency, clientVars, up, delivered, garbledDown,
                   handlerVars>>

Sender(c) == SendChunk(c) \/ SendChunkFails(c) \/ SenderEnds(c)

Receiver(c) == Receive(c) \/ ReceiveGarbled(c) \/ ReceiveEnds(c) \/ Return(c)

HandlerRx(c) == RxForward(c) \/ RxForwardFails(c) \/ RxGarbled(c) \/ RxEnds(c)

HandlerTx(c) == TxSend(c) \/ TxFails(c)

TunnelNext ==
    \/ \E c \in Conns :
        \/ Reject(c) \/ Handshake(c) \/ HandshakeFails(c)
        \/ ParseTarget(c) \/ TargetFails(c)
        \/ WssConnect(c) \/ WssConnectFails(c)
        \/ StartRelay(c) \/ StartRelayFails(c)
        \/ AppWrites(c) \/ AppHalfCloses(c) \/ AppCloses(c)
        \/ Sender(c) \/ Receiver(c)
        \/ HandlerRx(c) \/ HandlerTx(c) \/ Dispatch(c) \/ HandlerCloses(c)
        \/ Break(c)
    \/ Rotate \/ TriggerEmergency \/ Exit

\* Every task that can run is scheduled by its runtime, and the delay before
\* the exit ends.  Applications, exit nodes, the network and the checker's
\* finding owe nothing.
TunnelFairness ==
    /\ \A c \in Conns :
        /\ WF_tunnelVars(Sender(c)) /\ WF_tunnelVars(Receiver(c))
        /\ WF_tunnelVars(HandlerRx(c)) /\ WF_tunnelVars(HandlerTx(c))
    /\ WF_tunnelVars(Exit)

-----------------------------------------------------------------------------

\* Types; no relay takes more than was written, and no message is in flight
\* twice.
TunnelTypeOK ==
    /\ minute \in 0 .. MaxMinute /\ emergency \in BOOLEAN /\ exited \in BOOLEAN
    /\ app \in [Conns -> {"open", "half", "closed"}]
    /\ pc \in [Conns -> {"accepted", "target", "connecting", "connected",
                      "relay", "returned"}]
    /\ snd \in [Conns -> {"none", "reading", "done"}]
    /\ rcv \in [Conns -> {"none", "receiving", "done"}]
    /\ ws \in [Conns -> {"none", "open", "broken", "ended", "left"}]
    /\ h \in [Conns -> {"none", "reading", "left", "gone"}]
    /\ \A c \in Conns :
        /\ taken[c] \in 0 .. written[c] /\ written[c] \in 0 .. MaxChunks
        /\ Len(up[c]) <= MaxChunks /\ Len(chan[c]) + Len(down[c]) <= MaxReplies

Ascending(seq) == \A i, j \in DOMAIN seq : i < j => seq[i] < seq[j]

\* The messages `got' of the first n are in order and without repetition, and
\* one is missing before another only if it was garbled.
OnlyGarbledMissing(got, n, garbled) ==
    /\ Ascending(got)
    /\ \A k \in Range(got), i \in 1 .. n : i < k => i \in Range(got) \cup garbled

\* What an exit node gets of a connection is the application's chunks in
\* order and without repetition, and a chunk is missing before another one
\* only if the mask rotated while it was in flight: refusals, failures and
\* closes cost the end of the stream and never its middle (sender_task in
\* socks5.rs, the loop over ws_rx in handler.rs).  The same holds for the
\* replies the application gets (tx_task in handler.rs, the loop over
\* recv_frame in socks5.rs).
StreamsKeepOrder ==
    \A c \in Conns :
        /\ OnlyGarbledMissing(forwarded[c], taken[c], garbledUp[c])
        /\ OnlyGarbledMissing(delivered[c], dispatched[c], garbledDown[c])

\* A reply in the session's channel reaches the application, also one that
\* has already sent its EOF, and also when the handler has left its loop,
\* unless the application closes, the link fails, the process exits or the
\* mask rotates under a message (sender_task ends alone, tx_task drains).
RepliesReachApp ==
    \A c \in Conns, n \in 1 .. MaxReplies :
        n \in Range(chan[c]) ~>
            \/ n \in Range(delivered[c]) \/ garbledDown[c] # {}
            \/ app[c] = "closed" \/ ws[c] = "broken" \/ exited

\* Once the WebSocket is over and the application has stopped writing,
\* handle_connection returns: neither of its two tasks waits for the other
\* for ever (the await of sender_task).
ReturnsOnceBothEnded ==
    \A c \in Conns :
        pc[c] = "relay" /\ ws[c] \in {"broken", "ended"} /\ app[c] # "open" ~>
            pc[c] = "returned" \/ exited

\* The exit of an emergency is seen by every handler session: none keeps
\* reading for a client that is gone (start_checker, the loop over ws_rx).
ExitEndsSessions ==
    emergency ~> exited /\ \A c \in Conns : h[c] # "reading"

=============================================================================
