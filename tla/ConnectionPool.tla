--------------------------- MODULE ConnectionPool ---------------------------
(***************************************************************************)
(* The pool of WebSocket connections (transport/src/pool.rs): slots, each  *)
(* behind a lock that a call keeps while it uses the connection, and that  *)
(* close keeps while it closes it.  connect_all fills the slots one by     *)
(* one; it can be called again, and by several callers at once.            *)
(*                                                                         *)
(* The locks are parking_lot's: a call that waits for one blocks its       *)
(* thread, and every other call on that thread with it, whereas a call     *)
(* that awaits the network leaves its thread to others.  A guard kept      *)
(* across an await ties the call to its thread, since it cannot be sent to *)
(* another.                                                                *)
(***************************************************************************)
EXTENDS Integers, FiniteSets

CONSTANTS
    PoolUsers,       \* tasks that call with_connection
    Connectors,      \* tasks that call connect_all
    Threads,         \* threads of the executor
    Endpoints,       \* the number of endpoints configured
    PoolSize,
    MaxConnections,  \* bound on the connections opened
    MaxRequests      \* bound on robin_counter

ASSUME PoolAssumption ==
    PoolSize \in Nat \ {0} /\ {Endpoints, MaxConnections, MaxRequests} \subseteq Nat

VARIABLES
    slots,           \* connections: the one in each slot, 0 for None
    holder,          \* who holds the lock of each slot
    robin_counter,
    closed,
    thread,          \* the thread each call blocks or is tied to
    user,            \* of each user: "idle", "lock" or "using"
    slot,            \* the slot it was given
    connector,       \* of each connect_all: "idle", "dial" or "store"
    connecting,      \* the slot it is at
    dialed,          \* the connection it opened last
    closer,          \* close: "idle", "lock", "closing" or "ended"
    closing,         \* the slot it is at
    opened,          \* connections opened so far
    early            \* history: those stored before close was called

userVars == <<robin_counter, user, slot>>
connectVars == <<connector, connecting, dialed, opened, early>>
closeVars == <<closed, closer, closing>>
poolVars == <<slots, holder, thread, userVars, connectVars, closeVars>>

Slots == 0 .. PoolSize - 1
Free == "free"
Closer == "closer"
NoThread == "none"
PoolCalls == PoolUsers \cup Connectors \cup {Closer}

PoolInit ==
    /\ slots = [i \in Slots |-> 0] /\ holder = [i \in Slots |-> Free]
    /\ thread = [c \in PoolCalls |-> NoThread]
    /\ robin_counter = 0 /\ closed = FALSE
    /\ user = [u \in PoolUsers |-> "idle"] /\ slot = [u \in PoolUsers |-> 0]
    /\ connector = [k \in Connectors |-> "idle"] /\ connecting = [k \in Connectors |-> 0]
    /\ dialed = [k \in Connectors |-> 0]
    /\ closer = "idle" /\ closing = 0
    /\ opened = 0 /\ early = {}

\* Whether a call waits for a lock, and for that of which slot.
AtLock(c) ==
    \/ c \in PoolUsers /\ user[c] = "lock"
    \/ c \in Connectors /\ connector[c] = "store"
    \/ c = Closer /\ closer = "lock"

SlotOf(c) ==
    IF c \in PoolUsers THEN slot[c] ELSE IF c \in Connectors THEN connecting[c] ELSE closing

\* A thread can go on with a call, or begin one, while no call blocks it.
Runs(t) == \A c \in PoolCalls : AtLock(c) => thread[c] # t

Leaves(c) == thread' = [thread EXCEPT ![c] = NoThread]

OnThread(c) == \E t \in Threads : Runs(t) /\ thread' = [thread EXCEPT ![c] = t]

-----------------------------------------------------------------------------
(* connect_all                                                             *)

\* Without an endpoint it returns an error at once.
ConnectAll(k) ==
    /\ connector[k] = "idle" /\ Endpoints > 0 /\ opened < MaxConnections
    /\ connector' = [connector EXCEPT ![k] = "dial"]
    /\ connecting' = [connecting EXCEPT ![k] = 0]
    /\ UNCHANGED <<slots, holder, thread, userVars, dialed, opened, early, closeVars>>

\* WssClient::connect and the initial frames.  No lock is held, so any thread
\* may go on with the call.
Dial(k) ==
    /\ connector[k] = "dial" /\ opened < MaxConnections
    /\ OnThread(k)
    /\ connector' = [connector EXCEPT ![k] = "store"]
    /\ dialed' = [dialed EXCEPT ![k] = opened + 1] /\ opened' = opened + 1
    /\ UNCHANGED <<slots, holder, userVars, connecting, early, closeVars>>

\* An error ends connect_all with the remaining slots as they were.
DialFails(k) ==
    /\ connector[k] = "dial"
    /\ \E t \in Threads : Runs(t)
    /\ connector' = [connector EXCEPT ![k] = "idle"]
    /\ UNCHANGED <<slots, holder, thread, userVars, connecting, dialed, opened, early, closeVars>>

\* The slot is locked only to store; what it held is dropped.
StoreSlot(k) ==
    /\ connector[k] = "store" /\ holder[connecting[k]] = Free
    /\ slots' = [slots EXCEPT ![connecting[k]] = dialed[k]]
    /\ early' = IF closed THEN early ELSE early \cup {dialed[k]}
    /\ dialed' = [dialed EXCEPT ![k] = 0] /\ Leaves(k)
    /\ connecting' = [connecting EXCEPT ![k] = (@ + 1) % PoolSize]
    /\ connector' = [connector EXCEPT ![k] = IF connecting[k] + 1 < PoolSize THEN "dial" ELSE "idle"]
    /\ UNCHANGED <<holder, userVars, opened, closeVars>>

-----------------------------------------------------------------------------
(* with_connection                                                         *)

\* closed is read and the next slot taken, both without the slot's lock.
WithConnection(u) ==
    /\ user[u] = "idle" /\ ~closed /\ robin_counter < MaxRequests
    /\ OnThread(u)
    /\ slot' = [slot EXCEPT ![u] = robin_counter % PoolSize]
    /\ robin_counter' = robin_counter + 1
    /\ user' = [user EXCEPT ![u] = "lock"]
    /\ UNCHANGED <<slots, holder, connectVars, closeVars>>

Returns(u) ==
    /\ user' = [user EXCEPT ![u] = "idle"]
    /\ slot' = [slot EXCEPT ![u] = 0] /\ Leaves(u)

\* Mutant of LockSlot: an empty slot is waited for.
LockSlot_Wait(u) ==
    /\ user[u] = "lock" /\ holder[slot[u]] = Free
    /\ slots[slot[u]] # 0
    /\ user' = [user EXCEPT ![u] = "using"]
    /\ holder' = [holder EXCEPT ![slot[u]] = u]
    /\ UNCHANGED <<slots, thread, robin_counter, slot, connectVars, closeVars>>

\* An empty slot is an error: PoolExhausted.
LockSlot(u) ==
    /\ user[u] = "lock" /\ holder[slot[u]] = Free
    /\ \/ /\ slots[slot[u]] # 0
          /\ user' = [user EXCEPT ![u] = "using"]
          /\ holder' = [holder EXCEPT ![slot[u]] = u]
          /\ UNCHANGED <<thread, slot>>
       \/ /\ slots[slot[u]] = 0
          /\ Returns(u)
          /\ UNCHANGED holder
    /\ UNCHANGED <<slots, robin_counter, connectVars, closeVars>>

\* The operation was awaited; its result needs the call's thread.
Release(u) ==
    /\ user[u] = "using" /\ Runs(thread[u])
    /\ holder' = [holder EXCEPT ![slot[u]] = Free]
    /\ Returns(u)
    /\ UNCHANGED <<robin_counter, connectVars, closeVars>>

UseSucceeds(u) == Release(u) /\ UNCHANGED slots

\* The connection is dropped; nothing connects the slot again but connect_all.
UseFails(u) == Release(u) /\ slots' = [slots EXCEPT ![slot[u]] = 0]

-----------------------------------------------------------------------------
(* close                                                                   *)

Close ==
    /\ closer = "idle"
    /\ OnThread(Closer)
    /\ closed' = TRUE /\ closer' = "lock" /\ closing' = 0
    /\ UNCHANGED <<slots, holder, userVars, connectVars>>

NextSlot ==
    /\ closing' = (closing + 1) % PoolSize
    /\ IF closing + 1 < PoolSize
       THEN closer' = "lock" /\ UNCHANGED thread
       ELSE closer' = "ended" /\ Leaves(Closer)

\* Mutant of CloseSlot: a slot in use is passed over.
CloseSlot_TryLock ==
    /\ closer = "lock"
    /\ IF holder[closing] = Free /\ slots[closing] # 0
       THEN /\ slots' = [slots EXCEPT ![closing] = 0]
            /\ holder' = [holder EXCEPT ![closing] = Closer]
            /\ closer' = "closing" /\ UNCHANGED <<closing, thread>>
       ELSE NextSlot /\ UNCHANGED <<slots, holder>>
    /\ UNCHANGED <<closed, userVars, connectVars>>

\* The connection is taken out of its slot and closed with the lock held.
CloseSlot ==
    /\ closer = "lock" /\ holder[closing] = Free
    /\ \/ /\ slots[closing] # 0
          /\ slots' = [slots EXCEPT ![closing] = 0]
          /\ holder' = [holder EXCEPT ![closing] = Closer]
          /\ closer' = "closing" /\ UNCHANGED <<closing, thread>>
       \/ /\ slots[closing] = 0
          /\ NextSlot /\ UNCHANGED <<slots, holder>>
    /\ UNCHANGED <<closed, userVars, connectVars>>

\* The close handshake ends, well or not.
CloseEnds ==
    /\ closer = "closing" /\ Runs(thread[Closer])
    /\ holder' = [holder EXCEPT ![closing] = Free]
    /\ NextSlot
    /\ UNCHANGED <<slots, closed, userVars, connectVars>>

PoolNext ==
    \/ \E k \in Connectors : ConnectAll(k) \/ Dial(k) \/ DialFails(k) \/ StoreSlot(k)
    \/ \E u \in PoolUsers : WithConnection(u) \/ LockSlot(u) \/ UseSucceeds(u) \/ UseFails(u)
    \/ Close \/ CloseSlot \/ CloseEnds

\* The locks are eventually fair, and a thread that is not blocked gets round
\* to each of its calls.  That a use and a close handshake end is up to the
\* operation and the network.
PoolFairness ==
    /\ \A k \in Connectors : SF_poolVars(StoreSlot(k))
    /\ \A u \in PoolUsers :
        SF_poolVars(LockSlot(u)) /\ WF_poolVars(UseSucceeds(u) \/ UseFails(u))
    /\ SF_poolVars(CloseSlot) /\ WF_poolVars(CloseEnds)

-----------------------------------------------------------------------------

\* Types; no connection is in two slots.
PoolTypeOK ==
    /\ slots \in [Slots -> 0 .. MaxConnections] /\ thread \in [PoolCalls -> Threads \cup {NoThread}]
    /\ user \in [PoolUsers -> {"idle", "lock", "using"}]
    /\ connector \in [Connectors -> {"idle", "dial", "store"}]
    /\ closer \in {"idle", "lock", "closing", "ended"}
    /\ slot \in [PoolUsers -> Slots] /\ connecting \in [Connectors -> Slots] /\ closing \in Slots
    /\ \A i \in Slots : slots[i] # 0 => \A j \in Slots : slots[j] = slots[i] => j = i

\* Once close has returned, no connection stored before it was called is in a
\* slot, and so none is in use: what is left came from a connect_all that was
\* still under way, which does not look at closed (close, connect_slot).
NothingEarlyLeft ==
    closer = "ended" =>
        \A i \in Slots : slots[i] \notin early

\* Threads that wait for each other: each is blocked by a call that waits for a
\* slot whose holder is to go on on one of them.
Entangled(T) ==
    \A t \in T : \E c \in PoolCalls :
        /\ AtLock(c) /\ thread[c] = t
        /\ holder[SlotOf(c)] # Free /\ thread[holder[SlotOf(c)]] \in T

Stuck(c) == \E T \in SUBSET Threads : thread[c] \in T /\ Entangled(T)

\* The calls that wait for a lock or hold one, each on a thread of its own.
Engaged == {c \in PoolCalls : AtLock(c) \/ \E i \in Slots : holder[i] = c}
Apart == \A c, d \in Engaged : thread[c] = thread[d] => c = d

\* A call that waits for a slot gets it and returns, however users, connect_all
\* and close wait for each other, unless threads block each other for good, as
\* the calls that share a thread can bring about; calls that have a thread each
\* never do (with_connection, connect_slot, close).
PoolCallsReturn ==
    /\ \A u \in PoolUsers : user[u] = "lock" ~> user[u] = "idle" \/ Stuck(u)
    /\ \A k \in Connectors : connector[k] = "store" ~> connector[k] # "store" \/ Stuck(k)
    /\ closer = "lock" ~> closer = "ended" \/ Stuck(Closer)
    /\ [](Apart => \A c \in Engaged : ~Stuck(c))

=============================================================================
