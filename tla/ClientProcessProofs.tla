------------------------- MODULE ClientProcessProofs -------------------------
(***************************************************************************)
(* Proofs about the client process, for any number of SOCKS connections,   *)
(* chunks, replies, minutes, DNS sessions and queries.                     *)
(*                                                                         *)
(* StreamsKeepOrder speaks of what has arrived only.  TInv follows every   *)
(* message on its way: what is in flight is in order behind what arrived,  *)
(* and as long as the reader of a direction goes on, nothing before a      *)
(* message in flight is missing without having been garbled.  DInv does    *)
(* the same for the queries of the DNS server, and charges each lost query *)
(* to the session that lost it.                                            *)
(***************************************************************************)
EXTENDS ClientProcess, SequenceTheorems, FiniteSetTheorems, TLAPS

Messages == [n : Nat, minute : Nat]

TTypes ==
    /\ minute \in Nat
    /\ DOMAIN app = Conns /\ DOMAIN pc = Conns /\ DOMAIN snd = Conns
    /\ DOMAIN rcv = Conns /\ DOMAIN ws = Conns /\ DOMAIN h = Conns
    /\ taken \in [Conns -> Nat] /\ dispatched \in [Conns -> Nat]
    /\ up \in [Conns -> Seq(Messages)] /\ down \in [Conns -> Seq(Messages)]
    /\ chan \in [Conns -> Seq(Nat)]
    /\ forwarded \in [Conns -> Seq(Nat)] /\ delivered \in [Conns -> Seq(Nat)]
    /\ DOMAIN garbledUp = Conns /\ DOMAIN garbledDown = Conns

\* before the WebSocket is open nothing has been sent on it
Early == {"accepted", "target", "connecting"}

Fresh(c) ==
    pc[c] \in Early =>
        /\ ws[c] = "none" /\ h[c] = "none"
        /\ taken[c] = 0 /\ dispatched[c] = 0 /\ up[c] = <<>> /\ down[c] = <<>>

\* One direction of a connection, of which n messages have been sent: `got' has
\* arrived, `q' is in flight behind it, and `ch' waits to be sent.
Order(got, q, ch, n, garbled) ==
    /\ Ascending(got) /\ Ascending(q) /\ Ascending(ch)
    /\ Range(got) \cup Range(q) \cup Range(ch) \subseteq 1 .. n
    /\ \A i \in Range(got), j \in Range(q) \cup Range(ch) : i < j
    /\ \A i \in Range(q), j \in Range(ch) : i < j
    /\ \A k \in Range(got) : \A i \in 1 .. (k - 1) : i \in Range(got) \cup garbled

\* nothing is missing before a message in flight
Gapless(got, q, garbled) ==
    \A k \in Range(q) : \A i \in 1 .. (k - 1) : i \in Range(got) \cup garbled \cup Range(q)

\* nothing at all is missing
Complete(got, q, ch, n, garbled) ==
    \A i \in 1 .. n : i \in Range(got) \cup garbled \cup Range(q) \cup Range(ch)

Numbers(q) == [j \in DOMAIN q |-> q[j].n]

\* from the application to the exit node: gapless until the handler leaves its
\* loop, complete as long as the WebSocket is open too
UpInOrder(c) ==
    /\ Order(forwarded[c], Numbers(up[c]), <<>>, taken[c], garbledUp[c])
    /\ h[c] = "reading" =>
        /\ Gapless(forwarded[c], Numbers(up[c]), garbledUp[c])
        /\ ws[c] = "open" => Complete(forwarded[c], Numbers(up[c]), <<>>, taken[c], garbledUp[c])

\* from the exit node to the application, through the session's channel:
\* gapless until the application closes
DownInOrder(c) ==
    /\ Order(delivered[c], Numbers(down[c]), chan[c], dispatched[c], garbledDown[c])
    /\ app[c] # "closed" =>
        /\ Gapless(delivered[c], Numbers(down[c]), garbledDown[c])
        /\ ws[c] = "open" => Complete(delivered[c], Numbers(down[c]), chan[c], dispatched[c], garbledDown[c])

TInv == TTypes /\ \A c \in Conns : Fresh(c) /\ UpInOrder(c) /\ DownInOrder(c)

Carried == UNION {Range(carried[s]) : s \in Session}
Lost == unnoticed \cup unsent
Ended == {s \in Session : udpTask[s] = "ended"}
Failed == {s \in Session : session[s] \in {"failed", "reset"}}

DTypes ==
    /\ opened \in Nat /\ asked \in Nat /\ socket \in Seq(Nat)
    /\ DOMAIN udpTask = Session /\ DOMAIN session = Session
    /\ carried \in [Session -> Seq(Nat)] /\ IsFiniteSet(unsent)

\* a query is in one place, a session not opened yet has no task, and an unsent
\* query was the last of its task
DInv ==
    /\ DTypes
    /\ 1 .. asked = Range(socket) \cup Lost \cup Carried
    /\ Ascending(socket)
    /\ Range(socket) \cap (Lost \cup Carried) = {} /\ Lost \cap Carried = {}
    /\ unnoticed \cap unsent = {}
    /\ \A s, t \in Session : s # t => Range(carried[s]) \cap Range(carried[t]) = {}
    /\ \A s \in Session : s > opened => session[s] = "none" /\ udpTask[s] = "none"
    /\ Ended \subseteq Failed
    /\ Cardinality(unsent) <= Cardinality(Ended)

-----------------------------------------------------------------------------
(***************************************************************************)
(* Queues of numbers                                                       *)
(***************************************************************************)

\* What Range and the order say of a queue, element by element.
LEMMA QueueElements ==
    ASSUME NEW S, NEW q \in Seq(S)
    PROVE  /\ DOMAIN q = 1 .. Len(q) /\ Len(q) \in Nat
           /\ Range(q) = {q[j] : j \in 1 .. Len(q)}
           /\ \A j \in 1 .. Len(q) : q[j] \in S
BY DEF Range

\* The types of what is taken from a queue and of what is put into it.
LEMMA QueueTypes ==
    ASSUME NEW S
    PROVE  /\ <<>> \in Seq(S)
           /\ \A q \in Seq(S) : q # <<>> => Head(q) \in S /\ Tail(q) \in Seq(S)
           /\ \A q \in Seq(S), x \in S : Append(q, x) \in Seq(S)
OBVIOUS

\* What a queue holds after an append.
LEMMA Appended ==
    ASSUME NEW S, NEW q \in Seq(S), NEW x \in S
    PROVE  Range(Append(q, x)) = Range(q) \cup {x}
<1> DEFINE r == Append(q, x)
<1>1. r \in Seq(S)
  OBVIOUS
<1>2. /\ Len(q) \in Nat /\ Len(r) = Len(q) + 1 /\ r[Len(q) + 1] = x
      /\ \A j \in 1 .. Len(q) : r[j] = q[j] /\ j \in 1 .. Len(r)
      /\ Len(q) + 1 \in 1 .. Len(r)
  BY <1>1
<1> HIDE DEF r
<1>3. /\ Range(q) = {q[j] : j \in 1 .. Len(q)} /\ Range(r) = {r[j] : j \in 1 .. Len(r)}
  BY <1>1, QueueElements, Zenon
<1>4. \A j \in 1 .. Len(r) : j \in 1 .. Len(q) \/ j = Len(q) + 1
  BY <1>2
<1>5. \A k \in Range(r) : k \in Range(q) \cup {x}
  BY <1>2, <1>3, <1>4, Zenon
<1>6. x \in Range(r) /\ \A k \in Range(q) : k \in Range(r)
  BY <1>2, <1>3, Zenon
<1>7. QED
  BY <1>5, <1>6, Zenon DEF r

\* Taking the head of an ordered queue leaves an ordered queue without it.
LEMMA Pop ==
    ASSUME NEW q \in Seq(Nat), q # <<>>, Ascending(q)
    PROVE  /\ Head(q) \in Nat /\ Tail(q) \in Seq(Nat) /\ Ascending(Tail(q))
           /\ Range(q) = {Head(q)} \cup Range(Tail(q))
           /\ \A k \in Range(Tail(q)) : Head(q) < k
<1>1. /\ Len(q) \in Nat /\ Len(q) > 0 /\ Head(q) = q[1] /\ q[1] \in Nat
      /\ Tail(q) \in Seq(Nat) /\ Len(Tail(q)) = Len(q) - 1
      /\ \A j \in 1 .. (Len(q) - 1) : Tail(q)[j] = q[j + 1]
  OBVIOUS
<1>2. /\ DOMAIN q = 1 .. Len(q) /\ DOMAIN Tail(q) = 1 .. (Len(q) - 1)
      /\ Range(q) = {q[j] : j \in 1 .. Len(q)}
      /\ Range(Tail(q)) = {Tail(q)[j] : j \in 1 .. (Len(q) - 1)}
  <2>1. DOMAIN q = 1 .. Len(q) /\ Range(q) = {q[j] : j \in 1 .. Len(q)}
    BY QueueElements, Zenon
  <2>2. PICK t \in Seq(Nat) : t = Tail(q)
    BY <1>1, Zenon
  <2>3. DOMAIN t = 1 .. Len(t) /\ Range(t) = {t[j] : j \in 1 .. Len(t)}
    BY QueueElements, Zenon
  <2>4. QED
    BY <1>1, <2>1, <2>2, <2>3, Zenon
<1>3. \A i, j \in 1 .. Len(q) : i < j => q[i] < q[j]
  BY <1>2, Zenon DEF Ascending
<1>4. Ascending(Tail(q))
  BY <1>1, <1>2, <1>3, SMTT(30) DEF Ascending
<1>5. \A k \in Range(Tail(q)) : k \in Range(q) /\ Head(q) < k
  BY <1>1, <1>2, <1>3
<1>6. \A k \in Range(q) : k = Head(q) \/ k \in Range(Tail(q))
  <2>1. SUFFICES ASSUME NEW j \in 1 .. Len(q), j # 1 PROVE q[j] \in Range(Tail(q))
    BY <1>1, <1>2, Zenon
  <2>2. PICK i \in 1 .. (Len(q) - 1) : j = i + 1
    BY <1>1, <2>1
  <2>3. Tail(q)[i] = q[j]
    BY <1>1, <2>2, Zenon
  <2>4. QED
    BY <1>2, <2>3, Zenon
<1>7. Head(q) \in Range(q)
  BY <1>1, <1>2
<1>8. QED
  BY <1>1, <1>4, <1>5, <1>6, <1>7, Zenon

\* Appending what is later than everything in an ordered queue.
LEMMA Push ==
    ASSUME NEW q \in Seq(Nat), Ascending(q), NEW x \in Nat, \A k \in Range(q) : k < x
    PROVE  /\ Append(q, x) \in Seq(Nat) /\ Ascending(Append(q, x))
           /\ Range(Append(q, x)) = Range(q) \cup {x}
<1> DEFINE r == Append(q, x)
<1>1. /\ Len(q) \in Nat /\ r \in Seq(Nat) /\ Len(r) = Len(q) + 1 /\ r[Len(q) + 1] = x
      /\ \A j \in 1 .. Len(q) : r[j] = q[j]
  OBVIOUS
<1>2. /\ DOMAIN q = 1 .. Len(q) /\ DOMAIN r = 1 .. (Len(q) + 1)
      /\ Range(q) = {q[j] : j \in 1 .. Len(q)} /\ Range(r) = {r[j] : j \in 1 .. (Len(q) + 1)}
  BY <1>1, QueueElements, Zenon
<1>3. \A j \in 1 .. (Len(q) + 1) : j \in 1 .. Len(q) \/ j = Len(q) + 1
  BY <1>1
<1>4. /\ \A i, j \in 1 .. Len(q) : i < j => q[i] < q[j]
      /\ \A j \in 1 .. Len(q) : q[j] < x
  BY <1>2, Zenon DEF Ascending
<1> HIDE DEF r
<1>5. ASSUME NEW i \in 1 .. (Len(q) + 1), NEW j \in 1 .. (Len(q) + 1), i < j
      PROVE  r[i] < r[j]
  <2>1. i \in 1 .. Len(q) /\ (j \in 1 .. Len(q) \/ j = Len(q) + 1)
    BY <1>1, <1>3, <1>5, SMTT(30)
  <2>2. CASE j \in 1 .. Len(q)
    BY <1>1, <1>4, <1>5, <2>1, <2>2, Zenon
  <2>3. CASE j = Len(q) + 1
    <3>1. r[j] = x /\ r[i] = q[i] /\ q[i] < x
      BY <1>1, <1>4, <2>1, <2>3, Zenon
    <3>2. QED
      BY <3>1, Zenon
  <2>4. QED
    BY <2>1, <2>2, <2>3, Zenon
<1>6. Range(r) = Range(q) \cup {x}
  BY Appended DEF r
<1>7. QED
  BY <1>1, <1>2, <1>5, <1>6, Zenon DEF Ascending, r

-----------------------------------------------------------------------------
(***************************************************************************)
(* The local DNS server                                                    *)
(***************************************************************************)

\* The sets of sessions that the count is about are finite.
LEMMA SessionSets ==
    ASSUME NEW S \in SUBSET Session
    PROVE  IsFiniteSet(S) /\ Cardinality(S) \in Nat
<1>1. IsFiniteSet(Session)
  BY DnsAssumption, FS_Interval DEF Session
<1>2. QED
  BY <1>1, FS_Subset, FS_CardinalityType, Zenon

\* Adding at most one element adds at most one to the cardinality.
LEMMA AddOne ==
    ASSUME NEW S, IsFiniteSet(S), NEW x
    PROVE  /\ IsFiniteSet(S \cup {x}) /\ Cardinality(S) \in Nat
           /\ Cardinality(S \cup {x}) \in Nat
           /\ Cardinality(S \cup {x}) <= Cardinality(S) + 1
           /\ x \notin S => Cardinality(S \cup {x}) = Cardinality(S) + 1
<1>1. /\ IsFiniteSet(S \cup {x}) /\ Cardinality(S) \in Nat
      /\ x \in S => Cardinality(S \cup {x}) = Cardinality(S)
      /\ x \notin S => Cardinality(S \cup {x}) = Cardinality(S) + 1
  BY FS_AddElement, FS_CardinalityType, Zenon
<1>2. QED
  BY <1>1

\* Initially nothing has been asked.
LEMMA DnsInitHolds == DnsInit => DInv
<1> SUFFICES ASSUME DnsInit PROVE DInv
  BY Zenon
<1>1. DTypes
  BY FS_EmptySet DEF DnsInit, DTypes
<1>2. /\ Range(socket) = {} /\ unnoticed = {} /\ unsent = {} /\ Lost = {}
      /\ \A s \in Session : Range(carried[s]) = {}
  BY DEF DnsInit, Range, Lost
<1>3. Carried = {}
  BY <1>2, Zenon DEF Carried
<1>4. 1 .. asked = {}
  BY DEF DnsInit
<1>5. Ascending(socket)
  BY DEF DnsInit, Ascending
<1>6. Ended = {}
  BY Zenon DEF DnsInit, Ended
<1>7. Cardinality(unsent) <= Cardinality(Ended)
  BY <1>2, <1>6, FS_EmptySet
<1>8. \A s \in Session : session[s] = "none" /\ udpTask[s] = "none"
  BY Zenon DEF DnsInit
<1>9. QED
  BY <1>1, <1>2, <1>3, <1>4, <1>5, <1>6, <1>7, <1>8 DEF DInv

\* Steps that leave the queries where they are.
LEMMA LinkKeeps ==
    ASSUME DInv, UNCHANGED <<asked, socket, carried, unnoticed, unsent>>,
           \/ DnsConnect \/ DnsConnectFails \/ DnsWake \/ DnsReadsEnd
           \/ \E s \in Session : DnsLinkFails(s) \/ ResetArrives(s)
    PROVE  DInv'
<1>1. Carried' = Carried /\ Lost' = Lost
  BY Zenon DEF Carried, Lost
<1>2. CASE UNCHANGED <<opened, udpTask, session>>
  BY <1>1, <1>2, Zenon DEF DInv, DTypes, Ended, Failed
<1>3. CASE DnsConnect
  <2>1. PICK k \in Session : k = opened + 1 /\ opened' = k
    BY <1>3, DnsAssumption DEF DnsConnect, DInv, DTypes, Session
  <2>2. k > opened /\ \A s \in Session : s > k => s > opened
    BY <2>1 DEF DInv, DTypes, Session
  <2>3. udpTask' = [udpTask EXCEPT ![k] = "running"] /\ session' = [session EXCEPT ![k] = "open"]
    BY <1>3, <2>1, Zenon DEF DnsConnect
  <2>4. session[k] = "none" /\ udpTask[k] = "none"
    BY <2>2, Zenon DEF DInv
  <2>5. DTypes'
    BY <2>1, <2>3 DEF DInv, DTypes, Session
  <2>6. Ended' = Ended /\ Failed' = Failed
    BY <2>3, <2>4, Zenon DEF DInv, DTypes, Ended, Failed
  <2>7. \A s \in Session : s > k => session'[s] = "none" /\ udpTask'[s] = "none"
    <3>1. \A s \in Session : s > k => s # k
      BY DEF Session
    <3>2. QED
      BY <2>2, <2>3, <3>1, Zenon DEF DInv, DTypes
  <2>8. QED
    BY <1>1, <2>1, <2>5, <2>6, <2>7, Zenon DEF DInv
<1>4. ASSUME NEW s \in Session, DnsLinkFails(s) \/ ResetArrives(s) PROVE DInv'
  <2>1. /\ session[s] \in {"open", "failed"} /\ UNCHANGED <<opened, udpTask>>
        /\ \/ session' = [session EXCEPT ![s] = "failed"]
           \/ session' = [session EXCEPT ![s] = "reset"]
    BY <1>4, Zenon DEF DnsLinkFails, ResetArrives
  <2>2. DTypes'
    BY <2>1, Zenon DEF DInv, DTypes
  <2>3. Ended' = Ended /\ Failed \subseteq Failed'
    BY <2>1, Zenon DEF DInv, DTypes, Ended, Failed
  <2>4. \A t \in Session : t > opened' => session'[t] = "none" /\ udpTask'[t] = "none"
    BY <2>1, Zenon DEF DInv, DTypes
  <2>5. QED
    BY <1>1, <2>2, <2>3, <2>4, Zenon DEF DInv
<1>5. QED
  BY <1>2, <1>3, <1>4, Zenon DEF DnsConnectFails, DnsWake, DnsReadsEnd

\* A new query is later than every other.
LEMMA AskKeeps == DInv /\ Ask => DInv'
<1> SUFFICES ASSUME DInv, Ask PROVE DInv'
  BY Zenon
<1>1. PICK k \in Nat : k = asked + 1 /\ asked \in Nat
  BY DEF DInv, DTypes
<1>2. /\ asked' = k /\ socket' = Append(socket, k)
      /\ UNCHANGED <<opened, udpTask, session, carried, unnoticed, unsent>>
  BY <1>1, Zenon DEF Ask
<1>3. 1 .. k = 1 .. asked \cup {k} /\ \A i \in 1 .. asked : i < k
  BY <1>1
<1>4. /\ socket \in Seq(Nat) /\ Ascending(socket)
      /\ 1 .. asked = Range(socket) \cup Lost \cup Carried
  BY Zenon DEF DInv, DTypes
<1>5. /\ socket' \in Seq(Nat) /\ Ascending(socket') /\ Range(socket') = Range(socket) \cup {k}
  <2>1. \A i \in Range(socket) : i < k
    BY <1>3, <1>4, Zenon
  <2>2. QED
    BY <1>2, <1>4, <2>1, Push, Zenon
<1>6. k \notin 1 .. asked
  BY <1>1
<1>7. Carried' = Carried /\ Lost' = Lost /\ Ended' = Ended /\ Failed' = Failed
  BY <1>2, Zenon DEF Carried, Lost, Ended, Failed
<1>8. DTypes'
  BY <1>2, <1>5, Zenon DEF DInv, DTypes
<1>9. 1 .. asked' = Range(socket') \cup Lost' \cup Carried'
  BY <1>2, <1>3, <1>4, <1>5, <1>7, Zenon
<1>10. Range(socket') \cap (Lost' \cup Carried') = {}
  BY <1>2, <1>4, <1>5, <1>6, <1>7 DEF DInv
<1>11. QED
  BY <1>2, <1>5, <1>7, <1>8, <1>9, <1>10, Zenon DEF DInv

\* A query leaves the socket for the session that carries it.
LEMMA ForwardKeeps == \A s \in Session : DInv /\ ForwardQuery(s) => DInv'
<1> SUFFICES ASSUME NEW s \in Session, DInv, ForwardQuery(s) PROVE DInv'
  BY Zenon
<1>1. PICK x : x = Head(socket)
  BY Zenon
<1>2. /\ socket # <<>> /\ socket' = Tail(socket)
      /\ carried' = [carried EXCEPT ![s] = Append(carried[s], x)]
      /\ UNCHANGED <<opened, udpTask, session, asked, unnoticed, unsent>>
  BY <1>1, Zenon DEF ForwardQuery
<1>3. /\ x \in Nat /\ socket' \in Seq(Nat) /\ Ascending(socket')
      /\ Range(socket) = {x} \cup Range(socket')
      /\ \A k \in Range(socket') : x < k
  BY <1>1, <1>2, Pop, Zenon DEF DInv, DTypes
<1>4. x \notin Range(socket')
  BY <1>3
<1>5. /\ carried'[s] = Append(carried[s], x) /\ carried[s] \in Seq(Nat)
      /\ \A t \in Session : t # s => carried'[t] = carried[t]
      /\ carried' \in [Session -> Seq(Nat)]
  BY <1>2, <1>3 DEF DInv, DTypes
<1>6. Range(carried'[s]) = Range(carried[s]) \cup {x}
  BY <1>3, <1>5, Appended
<1>7. Carried' = Carried \cup {x} /\ Lost' = Lost
  BY <1>2, <1>5, <1>6, Zenon DEF Carried, Lost
<1>8. x \notin Lost /\ \A t \in Session : x \notin Range(carried[t])
  BY <1>3 DEF DInv, Carried
<1>9. DTypes'
  BY <1>2, <1>3, <1>5, Zenon DEF DInv, DTypes
<1>10. /\ 1 .. asked' = Range(socket') \cup Lost' \cup Carried'
       /\ Range(socket') \cap (Lost' \cup Carried') = {} /\ Lost' \cap Carried' = {}
  BY <1>2, <1>3, <1>4, <1>7, <1>8 DEF DInv
<1>11. \A a, b \in Session : a # b => Range(carried'[a]) \cap Range(carried'[b]) = {}
  <2> SUFFICES ASSUME NEW a \in Session, NEW b \in Session, a # b
               PROVE  Range(carried'[a]) \cap Range(carried'[b]) = {}
    BY Zenon
  <2>1. Range(carried[a]) \cap Range(carried[b]) = {} /\ x \notin Range(carried[a]) /\ x \notin Range(carried[b])
    BY <1>8, Zenon DEF DInv
  <2>2. CASE a = s
    BY <1>5, <1>6, <2>1, <2>2, Zenon
  <2>3. CASE b = s
    BY <1>5, <1>6, <2>1, <2>3, Zenon
  <2>4. CASE a # s /\ b # s
    BY <1>5, <2>1, <2>4, Zenon
  <2>5. QED
    BY <2>2, <2>3, <2>4, Zenon
<1>12. Ended' = Ended /\ Failed' = Failed
  BY <1>2, Zenon DEF Ended, Failed
<1>13. QED
  BY <1>2, <1>3, <1>9, <1>10, <1>11, <1>12, Zenon DEF DInv

\* A query that goes nowhere is not counted, or is the last of its task.
LEMMA LoseKeeps == \A s \in Session : DInv /\ (ForwardUnnoticed(s) \/ ForwardFails(s)) => DInv'
<1> SUFFICES ASSUME NEW s \in Session, DInv, ForwardUnnoticed(s) \/ ForwardFails(s) PROVE DInv'
  BY Zenon
<1>1. PICK x : x = Head(socket)
  BY Zenon
<1>2. /\ socket # <<>> /\ socket' = Tail(socket) /\ UNCHANGED <<opened, asked, carried, session>>
      /\ udpTask[s] = "running" /\ session[s] \in {"failed", "reset"}
      /\ \/ unnoticed' = unnoticed \cup {x} /\ UNCHANGED <<unsent, udpTask>>
         \/ unsent' = unsent \cup {x} /\ unnoticed' = unnoticed
            /\ udpTask' = [udpTask EXCEPT ![s] = "ended"]
  BY <1>1, Zenon DEF ForwardUnnoticed, ForwardFails
<1>3. /\ x \in Nat /\ socket' \in Seq(Nat) /\ Ascending(socket')
      /\ Range(socket) = {x} \cup Range(socket')
      /\ \A k \in Range(socket') : x < k
  BY <1>1, <1>2, Pop, Zenon DEF DInv, DTypes
<1>4. x \notin Range(socket') /\ x \notin Lost /\ x \notin Carried
  BY <1>3 DEF DInv
<1>5. Carried' = Carried /\ Lost' = Lost \cup {x} /\ unnoticed' \cap unsent' = {}
  BY <1>2, <1>4 DEF DInv, Carried, Lost
<1>6. /\ 1 .. asked' = Range(socket') \cup Lost' \cup Carried'
      /\ Range(socket') \cap (Lost' \cup Carried') = {} /\ Lost' \cap Carried' = {}
  BY <1>2, <1>3, <1>4, <1>5 DEF DInv
<1>7. /\ Cardinality(unsent') <= Cardinality(Ended') /\ Ended' \subseteq Failed'
      /\ DOMAIN udpTask' = Session /\ DOMAIN session' = Session /\ IsFiniteSet(unsent')
  <2>1. CASE UNCHANGED <<unsent, udpTask>>
    BY <1>2, <2>1, Zenon DEF DInv, DTypes, Ended, Failed
  <2>2. CASE unsent' = unsent \cup {x} /\ udpTask' = [udpTask EXCEPT ![s] = "ended"]
    <3>1. IsFiniteSet(unsent') /\ Cardinality(unsent) \in Nat /\ Cardinality(unsent') = Cardinality(unsent) + 1
      BY <1>4, <2>2, AddOne, Zenon DEF DInv, DTypes, Lost
    <3>2. /\ IsFiniteSet(Ended) /\ Cardinality(Ended) \in Nat
          /\ Cardinality(unsent) <= Cardinality(Ended)
      BY SessionSets, Zenon DEF DInv, Ended
    <3>3. Ended' = Ended \cup {s} /\ s \notin Ended /\ s \in Failed /\ Failed' = Failed
      BY <1>2, <2>2, Zenon DEF DInv, DTypes, Ended, Failed
    <3>4. Cardinality(Ended') = Cardinality(Ended) + 1
      BY <3>2, <3>3, AddOne, Zenon
    <3>5. QED
      BY <1>2, <2>2, <3>1, <3>2, <3>3, <3>4 DEF DInv, DTypes
  <2>3. QED
    BY <1>2, <2>1, <2>2, Zenon
<1>8. DTypes'
  BY <1>2, <1>3, <1>7, Zenon DEF DInv, DTypes
<1>9. \A t \in Session : t > opened' => session'[t] = "none" /\ udpTask'[t] = "none"
  <2> SUFFICES ASSUME NEW t \in Session, t > opened PROVE session'[t] = "none" /\ udpTask'[t] = "none"
    BY <1>2, Zenon
  <2>1. session[t] = "none" /\ udpTask[t] = "none"
    BY Zenon DEF DInv
  <2>2. t # s
    BY <1>2, <2>1, Zenon
  <2>3. QED
    BY <1>2, <2>1, <2>2, Zenon DEF DInv, DTypes
<1>10. QED
  BY <1>3, <1>5, <1>2, <1>6, <1>7, <1>8, <1>9, Zenon DEF DInv

\* The invariant of the DNS server is inductive.
LEMMA DnsStepKeeps == DInv /\ [DnsNext]_dnsVars => DInv'
<1> SUFFICES ASSUME DInv, [DnsNext]_dnsVars PROVE DInv'
  BY Zenon
<1>1. CASE Ask
  BY <1>1, AskKeeps, Zenon
<1>2. CASE \/ DnsConnect \/ DnsConnectFails \/ DnsWake \/ DnsReadsEnd
           \/ \E s \in Session : DnsLinkFails(s) \/ ResetArrives(s)
  <2>1. UNCHANGED <<asked, socket, carried, unnoticed, unsent>>
    BY <1>2, Zenon DEF DnsConnect, DnsConnectFails, DnsWake, DnsReadsEnd, DnsLinkFails, ResetArrives
  <2>2. QED
    BY <1>2, <2>1, LinkKeeps, Zenon
<1>3. ASSUME NEW s \in Session, ForwardQuery(s) PROVE DInv'
  BY <1>3, ForwardKeeps, Zenon
<1>4. ASSUME NEW s \in Session, ForwardUnnoticed(s) \/ ForwardFails(s) PROVE DInv'
  BY <1>4, LoseKeeps, Zenon
<1>5. CASE UNCHANGED dnsVars
  BY <1>5 DEF dnsVars, DInv, DTypes, Carried, Lost, Ended, Failed
<1>6. QED
  BY <1>1, <1>2, <1>3, <1>4, <1>5 DEF DnsNext

\* The count of the invariant gives the bound of the property.
LEMMA DnsInvariant == DInv => UnsentPerFailedSession
<1> SUFFICES ASSUME DInv PROVE UnsentPerFailedSession
  BY Zenon
<1>1. Ended \subseteq Failed /\ Failed \subseteq Session
  BY Zenon DEF DInv, Failed
<1>2. IsFiniteSet(Failed) /\ Cardinality(Failed) \in Nat /\ Cardinality(Ended) \in Nat
  BY <1>1, SessionSets, Zenon
<1>3. Cardinality(Ended) <= Cardinality(Failed)
  BY <1>1, <1>2, FS_Subset, Zenon
<1>4. Cardinality(unsent) \in Nat /\ Cardinality(unsent) <= Cardinality(Ended)
  BY FS_CardinalityType, Zenon DEF DInv, DTypes
<1>5. Cardinality(unsent) <= Cardinality(Failed)
  BY <1>2, <1>3, <1>4
<1>6. /\ 1 .. asked = Range(socket) \cup unnoticed \cup unsent \cup Carried
      /\ Range(socket) \cap (unnoticed \cup unsent \cup Carried) = {}
      /\ Carried \cap (unnoticed \cup unsent) = {}
  BY DEF DInv, Lost
<1>7. QED
  BY <1>5, <1>6, Zenon DEF DInv, UnsentPerFailedSession, Carried, Failed

-----------------------------------------------------------------------------
(***************************************************************************)
(* One direction of a connection                                           *)
(***************************************************************************)

\* Nothing is in an empty queue.
LEMMA EmptyQueue == Range(<<>>) = {} /\ Ascending(<<>>)
BY DEF Range, Ascending

\* One more message is handed over: it waits behind all others.
LEMMA HandOver ==
    ASSUME NEW got \in Seq(Nat), NEW q \in Seq(Nat), NEW ch \in Seq(Nat), NEW n \in Nat,
           NEW garbled, Order(got, q, ch, n, garbled)
    PROVE  /\ Append(ch, n + 1) \in Seq(Nat)
           /\ Order(got, q, Append(ch, n + 1), n + 1, garbled)
           /\ Complete(got, q, ch, n, garbled) => Complete(got, q, Append(ch, n + 1), n + 1, garbled)
<1>1. PICK m \in Nat : m = n + 1
  OBVIOUS
<1>2. 1 .. m = 1 .. n \cup {m} /\ \A i \in 1 .. n : i < m
  BY <1>1
<1>3. /\ Range(got) \cup Range(q) \cup Range(ch) \subseteq 1 .. n
      /\ Ascending(ch)
  BY Zenon DEF Order
<1>4. Append(ch, m) \in Seq(Nat) /\ Ascending(Append(ch, m)) /\ Range(Append(ch, m)) = Range(ch) \cup {m}
  BY <1>2, <1>3, Push, Zenon
<1>5. Order(got, q, Append(ch, m), m, garbled)
  BY <1>2, <1>3, <1>4, Zenon DEF Order
<1>6. Complete(got, q, ch, n, garbled) => Complete(got, q, Append(ch, m), m, garbled)
  BY <1>2, <1>4, Zenon DEF Complete
<1>7. QED
  BY <1>1, <1>4, <1>5, <1>6, Zenon

\* The first message that waits is sent.
LEMMA SendFirst ==
    ASSUME NEW got \in Seq(Nat), NEW q \in Seq(Nat), NEW ch \in Seq(Nat), ch # <<>>, NEW n \in Nat,
           NEW garbled, Order(got, q, ch, n, garbled)
    PROVE  /\ Order(got, Append(q, Head(ch)), Tail(ch), n, garbled)
           /\ Complete(got, q, ch, n, garbled) =>
                /\ Gapless(got, Append(q, Head(ch)), garbled)
                /\ Complete(got, Append(q, Head(ch)), Tail(ch), n, garbled)
<1>1. PICK x, t : x = Head(ch) /\ t = Tail(ch)
  BY Zenon
<1>2. /\ x \in Nat /\ t \in Seq(Nat) /\ Ascending(t) /\ Range(ch) = {x} \cup Range(t)
      /\ \A k \in Range(t) : x < k
  BY <1>1, Pop, Zenon DEF Order
<1>3. \A k \in Range(q) : k < x
  BY <1>2, Zenon DEF Order
<1>4. PICK r : r = Append(q, x)
  BY Zenon
<1>5. r \in Seq(Nat) /\ Ascending(r) /\ Range(r) = Range(q) \cup {x}
  BY <1>2, <1>3, <1>4, Push, Zenon DEF Order
<1>6. Order(got, r, t, n, garbled)
  BY <1>2, <1>5, Zenon DEF Order
<1>7. ASSUME Complete(got, q, ch, n, garbled)
      PROVE  Gapless(got, r, garbled) /\ Complete(got, r, t, n, garbled)
  <2>1. Complete(got, r, t, n, garbled)
    BY <1>2, <1>5, <1>7, Zenon DEF Complete
  <2>2. ASSUME NEW k \in Range(r), NEW i \in 1 .. (k - 1)
        PROVE  i \in Range(got) \cup garbled \cup Range(r)
    <3>1. k \in 1 .. n /\ k <= x
      BY <1>2, <1>3, <1>5 DEF Order
    <3>2. i \in 1 .. n /\ i < x
      BY <1>2, <3>1
    <3>3. i \notin Range(t)
      BY <1>2, <3>2
    <3>4. QED
      BY <2>1, <3>2, <3>3, Zenon DEF Complete
  <2>3. QED
    BY <2>1, <2>2, Zenon DEF Gapless
<1>8. QED
  BY <1>1, <1>4, <1>6, <1>7, Zenon

\* The first message in flight arrives.
LEMMA Arrive ==
    ASSUME NEW got \in Seq(Nat), NEW q \in Seq(Nat), q # <<>>, NEW ch \in Seq(Nat), NEW n \in Nat,
           NEW garbled, Order(got, q, ch, n, garbled), Gapless(got, q, garbled)
    PROVE  /\ Append(got, Head(q)) \in Seq(Nat)
           /\ Order(Append(got, Head(q)), Tail(q), ch, n, garbled)
           /\ Gapless(Append(got, Head(q)), Tail(q), garbled)
           /\ Complete(got, q, ch, n, garbled) => Complete(Append(got, Head(q)), Tail(q), ch, n, garbled)
<1>1. PICK x, t : x = Head(q) /\ t = Tail(q)
  BY Zenon
<1>2. /\ x \in Nat /\ t \in Seq(Nat) /\ Ascending(t) /\ Range(q) = {x} \cup Range(t)
      /\ \A k \in Range(t) : x < k
  BY <1>1, Pop, Zenon DEF Order
<1>3. \A k \in Range(got) : k < x
  BY <1>2, Zenon DEF Order
<1>4. PICK r : r = Append(got, x)
  BY Zenon
<1>5. r \in Seq(Nat) /\ Ascending(r) /\ Range(r) = Range(got) \cup {x}
  BY <1>2, <1>3, <1>4, Push, Zenon DEF Order
<1>6. \A i \in 1 .. (x - 1) : i \in Range(got) \cup garbled
  <2> SUFFICES ASSUME NEW i \in 1 .. (x - 1) PROVE i \in Range(got) \cup garbled
    BY Zenon
  <2>1. i < x
    BY <1>2
  <2>2. i # x /\ i \notin Range(t)
    BY <1>2, <2>1
  <2>3. QED
    BY <1>2, <2>2, Zenon DEF Gapless
<1>7. Order(r, t, ch, n, garbled)
  BY <1>2, <1>5, <1>6, Zenon DEF Order
<1>8. Gapless(r, t, garbled) /\ (Complete(got, q, ch, n, garbled) => Complete(r, t, ch, n, garbled))
  BY <1>2, <1>5, Zenon DEF Gapless, Complete
<1>9. QED
  BY <1>1, <1>4, <1>5, <1>7, <1>8, Zenon

\* The first message in flight is garbled, or goes nowhere.
LEMMA Drop ==
    ASSUME NEW got \in Seq(Nat), NEW q \in Seq(Nat), q # <<>>, NEW ch \in Seq(Nat), NEW n \in Nat,
           NEW garbled, Order(got, q, ch, n, garbled)
    PROVE  /\ Order(got, Tail(q), ch, n, garbled)
           /\ Order(got, Tail(q), ch, n, garbled \cup {Head(q)})
           /\ Gapless(got, q, garbled) => Gapless(got, Tail(q), garbled \cup {Head(q)})
           /\ Complete(got, q, ch, n, garbled) => Complete(got, Tail(q), ch, n, garbled \cup {Head(q)})
<1>1. PICK x, t : x = Head(q) /\ t = Tail(q)
  BY Zenon
<1>2. /\ t \in Seq(Nat) /\ Ascending(t) /\ Range(q) = {x} \cup Range(t)
  BY <1>1, Pop, Zenon DEF Order
<1>3. Order(got, t, ch, n, garbled) /\ Order(got, t, ch, n, garbled \cup {x})
  BY <1>2, Zenon DEF Order
<1>4. /\ Gapless(got, q, garbled) => Gapless(got, t, garbled \cup {x})
      /\ Complete(got, q, ch, n, garbled) => Complete(got, t, ch, n, garbled \cup {x})
  BY <1>2, Zenon DEF Gapless, Complete
<1>5. QED
  BY <1>1, <1>3, <1>4, Zenon

\* What is in flight or waits is gone; a message is taken and never sent.
LEMMA Clear ==
    ASSUME NEW got, NEW q, NEW ch, NEW n \in Nat, NEW garbled, Order(got, q, ch, n, garbled)
    PROVE  /\ Order(got, <<>>, ch, n, garbled) /\ Order(got, q, <<>>, n, garbled)
           /\ Order(got, <<>>, <<>>, n, garbled) /\ Order(got, q, ch, n + 1, garbled)
           /\ Gapless(got, <<>>, garbled)
<1>1. 1 .. n \subseteq 1 .. (n + 1)
  OBVIOUS
<1>2. QED
  BY <1>1, EmptyQueue, Zenon DEF Order, Gapless

\* The property speaks of what has arrived.
LEMMA Arrived ==
    ASSUME NEW got \in Seq(Nat), NEW q, NEW ch, NEW n \in Nat, NEW garbled, Order(got, q, ch, n, garbled)
    PROVE  OnlyGarbledMissing(got, n, garbled)
<1>1. ASSUME NEW k \in Range(got), NEW i \in 1 .. n, i < k PROVE i \in Range(got) \cup garbled
  <2>1. k \in 1 .. n
    BY Zenon DEF Order
  <2>2. i \in 1 .. (k - 1)
    BY <1>1, <2>1
  <2>3. QED
    BY <2>2, Zenon DEF Order
<1>2. QED
  BY <1>1, Zenon DEF Order, OnlyGarbledMissing

\* The numbers of a queue of messages.
LEMMA NumbersOf ==
    ASSUME NEW u \in Seq(Messages)
    PROVE  /\ Numbers(u) \in Seq(Nat) /\ Len(Numbers(u)) = Len(u)
           /\ \A j \in 1 .. Len(u) : Numbers(u)[j] = u[j].n
           /\ u # <<>> => /\ Numbers(u) # <<>> /\ Head(Numbers(u)) = Head(u).n
                          /\ Numbers(Tail(u)) = Tail(Numbers(u))
           /\ \A m \in Messages : Numbers(Append(u, m)) = Append(Numbers(u), m.n)
<1>1. \A v \in Seq(Messages) :
        /\ Numbers(v) \in Seq(Nat) /\ Len(Numbers(v)) = Len(v)
        /\ \A j \in 1 .. Len(v) : Numbers(v)[j] = v[j].n
  <2> SUFFICES ASSUME NEW v \in Seq(Messages)
               PROVE  /\ Numbers(v) \in Seq(Nat) /\ Len(Numbers(v)) = Len(v)
                      /\ \A j \in 1 .. Len(v) : Numbers(v)[j] = v[j].n
    BY Zenon
  <2>1. Len(v) \in Nat /\ DOMAIN v = 1 .. Len(v) /\ \A j \in 1 .. Len(v) : v[j] \in Messages
    OBVIOUS
  <2>2. \A j \in 1 .. Len(v) : v[j].n \in Nat
    BY <2>1, Zenon DEF Messages
  <2>3. Numbers(v) = [j \in 1 .. Len(v) |-> v[j].n]
    BY <2>1, Zenon DEF Numbers
  <2>4. QED
    BY <2>1, <2>2, <2>3
<1>2. ASSUME u # <<>>
      PROVE  /\ Numbers(u) # <<>> /\ Head(Numbers(u)) = Head(u).n
             /\ Numbers(Tail(u)) = Tail(Numbers(u))
  <2>1. /\ Len(u) \in Nat /\ Len(u) > 0 /\ Tail(u) \in Seq(Messages) /\ Len(Tail(u)) = Len(u) - 1
        /\ \A j \in 1 .. (Len(u) - 1) : Tail(u)[j] = u[j + 1]
        /\ Head(u) = u[1]
    BY <1>2
  <2>2. PICK v \in Seq(Nat) : v = Numbers(u) /\ Len(v) = Len(u) /\ \A j \in 1 .. Len(u) : v[j] = u[j].n
    BY <1>1, Zenon
  <2>3. v # <<>> /\ Head(v) = u[1].n
    BY <2>1, <2>2
  <2>4. PICK w \in Seq(Nat) : w = Numbers(Tail(u)) /\ Len(w) = Len(u) - 1
                              /\ \A j \in 1 .. (Len(u) - 1) : w[j] = Tail(u)[j].n
    BY <1>1, <2>1, Zenon
  <2>5. /\ Tail(v) \in Seq(Nat) /\ Len(Tail(v)) = Len(u) - 1
        /\ \A j \in 1 .. (Len(u) - 1) : Tail(v)[j] = v[j + 1]
    BY <2>1, <2>2, <2>3
  <2>6. \A j \in 1 .. (Len(u) - 1) : w[j] = Tail(v)[j]
    BY <2>1, <2>2, <2>4, <2>5
  <2>7. w = Tail(v)
    BY <2>4, <2>5, <2>6, SeqEqual, Zenon
  <2>8. QED
    BY <2>1, <2>2, <2>3, <2>4, <2>7, Zenon
<1>3. ASSUME NEW m \in Messages PROVE Numbers(Append(u, m)) = Append(Numbers(u), m.n)
  <2>1. /\ Len(u) \in Nat /\ Append(u, m) \in Seq(Messages) /\ Len(Append(u, m)) = Len(u) + 1
        /\ \A j \in 1 .. Len(u) : Append(u, m)[j] = u[j]
        /\ Append(u, m)[Len(u) + 1] = m
    OBVIOUS
  <2>2. PICK v \in Seq(Nat) : v = Numbers(u) /\ Len(v) = Len(u) /\ \A j \in 1 .. Len(u) : v[j] = u[j].n
    BY <1>1, Zenon
  <2>3. PICK w \in Seq(Nat) : w = Numbers(Append(u, m)) /\ Len(w) = Len(u) + 1
                              /\ \A j \in 1 .. (Len(u) + 1) : w[j] = Append(u, m)[j].n
    BY <1>1, <2>1, Zenon
  <2>4. PICK x \in Nat : x = m.n
    BY Zenon DEF Messages
  <2>5. /\ Append(v, x) \in Seq(Nat) /\ Len(Append(v, x)) = Len(u) + 1
        /\ \A j \in 1 .. Len(u) : Append(v, x)[j] = v[j]
        /\ Append(v, x)[Len(u) + 1] = x
    BY <2>1, <2>2
  <2>6. \A j \in 1 .. (Len(u) + 1) : j \in 1 .. Len(u) \/ j = Len(u) + 1
    BY <2>1
  <2>7. \A j \in 1 .. (Len(u) + 1) : w[j] = Append(v, x)[j]
    BY <2>1, <2>2, <2>3, <2>4, <2>5, <2>6, ZenonT(40)
  <2>8. w = Append(v, x)
    BY <2>3, <2>5, <2>7, SeqEqual
  <2>9. QED
    BY <2>2, <2>3, <2>4, <2>8, Zenon
<1>4. QED
  BY <1>1, <1>2, <1>3, Zenon

\* An empty queue of messages.
LEMMA NumbersOfNone == Numbers(<<>>) = <<>>
<1>1. <<>> \in Seq(Messages) /\ Len(<<>>) = 0
  OBVIOUS
<1>2. Numbers(<<>>) \in Seq(Nat) /\ Len(Numbers(<<>>)) = 0
  BY <1>1, NumbersOf, Zenon
<1>3. QED
  BY <1>2, EmptySeq, Zenon

-----------------------------------------------------------------------------
(***************************************************************************)
(* The tunnel                                                              *)
(***************************************************************************)

\* A step that hands over or takes no message of connection d, and may cut what
\* is in flight only by ending the WebSocket.
Quiet(d) ==
    /\ taken'[d] = taken[d] /\ dispatched'[d] = dispatched[d]
    /\ forwarded'[d] = forwarded[d] /\ delivered'[d] = delivered[d]
    /\ garbledUp'[d] = garbledUp[d] /\ garbledDown'[d] = garbledDown[d]
    /\ up'[d] = up[d] \/ (up'[d] = <<>> /\ ws'[d] # "open")
    /\ down'[d] = down[d] \/ (down'[d] = <<>> /\ ws'[d] # "open")
    /\ chan'[d] = chan[d] \/ (chan'[d] = <<>> /\ ws'[d] # "open")
    /\ ws'[d] = ws[d] \/ (ws[d] # "none" /\ ws'[d] # "open")
    /\ h'[d] = h[d] \/ (h[d] # "none" /\ h'[d] # "reading")
    /\ app'[d] # "closed" => app[d] # "closed"
    /\ pc'[d] \in Early => pc[d] \in Early

\* Such a step keeps d's part of the invariant.
LEMMA QuietKeeps ==
    ASSUME NEW d \in Conns, TInv, Quiet(d)
    PROVE  Fresh(d)' /\ UpInOrder(d)' /\ DownInOrder(d)'
<1>1. Fresh(d) /\ UpInOrder(d) /\ DownInOrder(d) /\ taken[d] \in Nat /\ dispatched[d] \in Nat
  BY Zenon DEF TInv, TTypes
<1>2. Fresh(d)'
  BY <1>1, Zenon DEF Fresh, Quiet
<1>3. UpInOrder(d)'
  <2>1. CASE up'[d] = up[d]
    BY <1>1, <2>1, Zenon DEF Quiet, UpInOrder
  <2>2. CASE up'[d] = <<>> /\ ws'[d] # "open"
    <3>1. /\ Order(forwarded[d], <<>>, <<>>, taken[d], garbledUp[d])
          /\ Gapless(forwarded[d], <<>>, garbledUp[d])
      BY <1>1, Clear, Zenon DEF UpInOrder
    <3>2. QED
      BY <2>2, <3>1, NumbersOfNone, Zenon DEF Quiet, UpInOrder
  <2>3. QED
    BY <2>1, <2>2, Zenon DEF Quiet
<1>4. DownInOrder(d)'
  <2>1. CASE down'[d] = down[d] /\ chan'[d] = chan[d]
    BY <1>1, <2>1, Zenon DEF Quiet, DownInOrder
  <2>2. CASE ws'[d] # "open"
    <3>1. /\ Order(delivered[d], Numbers(down[d]), chan[d], dispatched[d], garbledDown[d])
          /\ Order(delivered[d], <<>>, chan[d], dispatched[d], garbledDown[d])
          /\ Order(delivered[d], Numbers(down[d]), <<>>, dispatched[d], garbledDown[d])
          /\ Order(delivered[d], <<>>, <<>>, dispatched[d], garbledDown[d])
          /\ Gapless(delivered[d], <<>>, garbledDown[d])
      BY <1>1, Clear, Zenon DEF DownInOrder
    <3>2. Order(delivered'[d], Numbers(down'[d]), chan'[d], dispatched'[d], garbledDown'[d])
      <4>1. Numbers(down'[d]) = Numbers(down[d]) \/ Numbers(down'[d]) = <<>>
        BY NumbersOfNone, Zenon DEF Quiet
      <4>2. chan'[d] = chan[d] \/ chan'[d] = <<>>
        BY Zenon DEF Quiet
      <4>3. QED
        BY <3>1, <4>1, <4>2, Zenon DEF Quiet
    <3>3. app'[d] # "closed" => Gapless(delivered'[d], Numbers(down'[d]), garbledDown'[d])
      BY <1>1, <3>1, NumbersOfNone, Zenon DEF Quiet, DownInOrder
    <3>4. QED
      BY <2>2, <3>2, <3>3, Zenon DEF DownInOrder
  <2>3. QED
    BY <2>1, <2>2, Zenon DEF Quiet
<1>5. QED
  BY <1>2, <1>3, <1>4, Zenon

\* The domains of what the steps below do not type otherwise.
Shapes ==
    /\ DOMAIN app = Conns /\ DOMAIN pc = Conns /\ DOMAIN snd = Conns
    /\ DOMAIN rcv = Conns /\ DOMAIN ws = Conns /\ DOMAIN h = Conns

\* Setting up, the application, and the ends of the tasks.
LEMMA CalmKeeps ==
    ASSUME NEW c \in Conns, TInv,
           \/ Reject(c) \/ Handshake(c) \/ HandshakeFails(c) \/ ParseTarget(c) \/ TargetFails(c)
           \/ WssConnectFails(c) \/ StartRelay(c)
           \/ AppWrites(c) \/ AppHalfCloses(c) \/ AppCloses(c)
           \/ SenderEnds(c) \/ ReceiveEnds(c) \/ RxEnds(c)
    PROVE  TInv'
<1>1. UNCHANGED <<minute, taken, dispatched, forwarded, delivered, garbledUp, garbledDown, up, down, chan, ws>>
  BY Zenon DEF Reject, Handshake, HandshakeFails, ParseTarget, TargetFails, WssConnectFails, StartRelay,
         AppWrites, AppHalfCloses, AppCloses, SenderEnds, ReceiveEnds, RxEnds, global, handlerVars,
         clientVars
<1>2. /\ pc' = pc \/ \E p \in {"target", "connecting", "relay", "returned"} : pc' = [pc EXCEPT ![c] = p]
      /\ pc'[c] = pc[c] \/ pc'[c] \notin Early \/ pc[c] \in Early
  BY Zenon DEF Reject, Handshake, HandshakeFails, ParseTarget, TargetFails, WssConnectFails, StartRelay,
         AppWrites, AppHalfCloses, AppCloses, SenderEnds, ReceiveEnds, RxEnds, clientVars,
         TInv, TTypes, Early
<1>3. /\ app' = app \/ (app[c] # "closed" /\ \E a \in {"half", "closed"} : app' = [app EXCEPT ![c] = a])
      /\ snd' = snd \/ \E a \in {"reading", "done"} : snd' = [snd EXCEPT ![c] = a]
      /\ rcv' = rcv \/ \E a \in {"receiving", "done"} : rcv' = [rcv EXCEPT ![c] = a]
      /\ h' = h \/ (h[c] = "reading" /\ h' = [h EXCEPT ![c] = "left"])
  BY Zenon DEF Reject, Handshake, HandshakeFails, ParseTarget, TargetFails, WssConnectFails, StartRelay,
         AppWrites, AppHalfCloses, AppCloses, SenderEnds, ReceiveEnds, RxEnds, clientVars, handlerVars
<1>4. Shapes'
  BY <1>1, <1>2, <1>3, Zenon DEF TInv, TTypes, Shapes
<1>5. TTypes'
  BY <1>1, <1>4, Zenon DEF TInv, TTypes, Shapes
<1>6. \A d \in Conns : Quiet(d)
  <2> SUFFICES ASSUME NEW d \in Conns PROVE Quiet(d)
    BY Zenon
  <2>1. pc'[d] \in Early => pc[d] \in Early
    BY <1>2, Zenon DEF TInv, TTypes
  <2>2. app'[d] # "closed" => app[d] # "closed"
    BY <1>3, Zenon DEF TInv, TTypes
  <2>3. h'[d] = h[d] \/ (h[d] # "none" /\ h'[d] # "reading")
    BY <1>3, Zenon DEF TInv, TTypes
  <2>4. QED
    BY <1>1, <2>1, <2>2, <2>3, Zenon DEF Quiet
<1>7. QED
  BY <1>5, <1>6, QuietKeeps, Zenon DEF TInv

\* The ends of the WebSocket, and what they cut off.
LEMMA EndKeeps ==
    ASSUME NEW c \in Conns, TInv,
           StartRelayFails(c) \/ Return(c) \/ HandlerCloses(c) \/ Break(c) \/ TxFails(c)
    PROVE  TInv'
<1>1. UNCHANGED <<minute, app, snd, rcv, taken, dispatched, forwarded, delivered, garbledUp, garbledDown>>
  BY Zenon DEF StartRelayFails, Return, HandlerCloses, Break, TxFails, global, handlerVars, clientVars
<1>2. /\ pc' = pc \/ (pc' = [pc EXCEPT ![c] = "returned"])
      /\ h' = h \/ (h[c] = "left" /\ h' = [h EXCEPT ![c] = "gone"])
  BY Zenon DEF StartRelayFails, Return, HandlerCloses, Break, TxFails, handlerVars, clientVars
<1>3. /\ DOMAIN ws' = Conns
      /\ \A d \in Conns : ws'[d] = ws[d] \/ (ws[d] # "none" /\ ws'[d] # "open")
      /\ up' = up \/ (up' = [up EXCEPT ![c] = <<>>] /\ ws'[c] # "open")
      /\ down' = down \/ (down' = [down EXCEPT ![c] = <<>>] /\ ws'[c] # "open")
      /\ chan' = chan \/ (chan' = [chan EXCEPT ![c] = <<>>] /\ ws'[c] # "open")
  <2>1. CASE StartRelayFails(c) \/ Return(c)
    <3>1. /\ ws' = [ws EXCEPT ![c] = IF ws[c] = "open" THEN "left" ELSE ws[c]]
          /\ up' = up /\ chan' = chan /\ down' = [down EXCEPT ![c] = <<>>]
      BY <2>1, Zenon DEF StartRelayFails, Return, handlerVars
    <3>2. QED
      BY <3>1, Zenon DEF TInv, TTypes
  <2>2. CASE HandlerCloses(c)
    <3>1. /\ ws' = [ws EXCEPT ![c] = IF ws[c] = "open" THEN "ended" ELSE ws[c]]
          /\ up' = up /\ chan' = chan /\ down' = down
      BY <2>2, Zenon DEF HandlerCloses
    <3>2. QED
      BY <3>1, Zenon DEF TInv, TTypes
  <2>3. CASE Break(c)
    BY <2>3, Zenon DEF Break, handlerVars, TInv, TTypes
  <2>4. CASE TxFails(c)
    BY <2>4, Zenon DEF TxFails, TInv, TTypes
  <2>5. QED
    BY <2>1, <2>2, <2>3, <2>4, Zenon
<1>4. TTypes'
  <2>1. DOMAIN pc' = Conns /\ DOMAIN h' = Conns
    BY <1>2, Zenon DEF TInv, TTypes
  <2>2. <<>> \in Seq(Messages) /\ <<>> \in Seq(Nat)
    BY QueueTypes, Zenon
  <2>3. up' \in [Conns -> Seq(Messages)]
    BY <1>3, <2>2, ZenonT(40) DEF TInv, TTypes
  <2>4. down' \in [Conns -> Seq(Messages)]
    BY <1>3, <2>2, ZenonT(40) DEF TInv, TTypes
  <2>5. chan' \in [Conns -> Seq(Nat)]
    BY <1>3, <2>2, ZenonT(40) DEF TInv, TTypes
  <2>6. QED
    BY <1>1, <1>3, <2>1, <2>3, <2>4, <2>5, Zenon DEF TInv, TTypes
<1>5. \A d \in Conns : Quiet(d)
  <2> SUFFICES ASSUME NEW d \in Conns PROVE Quiet(d)
    BY Zenon
  <2>1. pc'[d] \in Early => pc[d] \in Early
    BY <1>2, Zenon DEF TInv, TTypes, Early
  <2>2. h'[d] = h[d] \/ (h[d] # "none" /\ h'[d] # "reading")
    BY <1>2, Zenon DEF TInv, TTypes
  <2>3. up'[d] = up[d] \/ (up'[d] = <<>> /\ ws'[d] # "open")
    BY <1>3, Zenon DEF TInv, TTypes
  <2>4. down'[d] = down[d] \/ (down'[d] = <<>> /\ ws'[d] # "open")
    BY <1>3, Zenon DEF TInv, TTypes
  <2>5. chan'[d] = chan[d] \/ (chan'[d] = <<>> /\ ws'[d] # "open")
    BY <1>3, SMTT(30) DEF TInv, TTypes
  <2>6. QED
    BY <1>1, <1>3, <2>1, <2>2, <2>3, <2>4, <2>5, Zenon DEF Quiet
<1>6. QED
  BY <1>4, <1>5, QuietKeeps, Zenon DEF TInv

\* The clock, the checker, and the exit of the process, which ends every WebSocket.
LEMMA GlobalKeeps == TInv /\ (Rotate \/ TriggerEmergency \/ Exit \/ UNCHANGED tunnelVars) => TInv'
<1> SUFFICES ASSUME TInv, Rotate \/ TriggerEmergency \/ Exit \/ UNCHANGED tunnelVars PROVE TInv'
  BY Zenon
<1>1. UNCHANGED <<app, pc, snd, rcv, h, up, chan, taken, dispatched, forwarded, delivered, garbledUp,
                  garbledDown>>
  BY Zenon DEF Rotate, TriggerEmergency, Exit, tunnelVars, handlerVars, clientVars
<1>2. minute' \in Nat
  <2>1. minute \in Nat
    BY Zenon DEF TInv, TTypes
  <2>2. minute' = minute \/ minute' = minute + 1
    BY Zenon DEF Rotate, TriggerEmergency, Exit, tunnelVars, global
  <2>3. minute + 1 \in Nat
    BY <2>1
  <2>4. QED
    BY <2>2, <2>1, <2>3, Zenon
<1>3. /\ down' \in [Conns -> Seq(Messages)] /\ DOMAIN ws' = Conns
      /\ \A d \in Conns : /\ ws'[d] = ws[d] \/ (ws[d] # "none" /\ ws'[d] # "open")
                          /\ down'[d] = down[d] \/ (down'[d] = <<>> /\ ws'[d] # "open")
  <2>1. CASE UNCHANGED <<ws, down>>
    BY <2>1, Zenon DEF TInv, TTypes
  <2>2. CASE Exit
    <3>1. /\ ws' = [c \in Conns |-> IF ws[c] = "open" THEN "left" ELSE ws[c]]
          /\ down' = [c \in Conns |-> <<>>]
      BY <2>2, Zenon DEF Exit
    <3>2. QED
      BY <3>1
  <2>3. QED
    BY <2>1, <2>2, Zenon DEF Rotate, TriggerEmergency, tunnelVars
<1>4. TTypes'
  BY <1>1, <1>2, <1>3, Zenon DEF TInv, TTypes
<1>5. \A d \in Conns : Quiet(d)
  BY <1>1, <1>3, Zenon DEF Quiet
<1>6. QED
  BY <1>4, <1>5, QuietKeeps, Zenon DEF TInv

\* A new session starts with nothing sent.
LEMMA ConnectKeeps == \A c \in Conns : TInv /\ WssConnect(c) => TInv'
<1> SUFFICES ASSUME NEW c \in Conns, TInv, WssConnect(c) PROVE TInv'
  BY Zenon
<1>1. /\ UNCHANGED <<minute, app, snd, rcv, up, down, chan, taken, dispatched, forwarded, delivered,
                     garbledUp, garbledDown>>
      /\ pc[c] = "connecting" /\ pc' = [pc EXCEPT ![c] = "connected"]
      /\ ws' = [ws EXCEPT ![c] = "open"] /\ h' = [h EXCEPT ![c] = "reading"]
  BY Zenon DEF WssConnect, global
<1>2. TTypes'
  BY <1>1, Zenon DEF TInv, TTypes
<1>3. ASSUME NEW d \in Conns, d # c PROVE Fresh(d)' /\ UpInOrder(d)' /\ DownInOrder(d)'
  <2>1. Quiet(d)
    BY <1>1, <1>3, Zenon DEF TInv, TTypes, Quiet
  <2>2. QED
    BY <2>1, QuietKeeps, Zenon
<1>4. Fresh(c)'
  BY <1>1, Zenon DEF TInv, TTypes, Fresh, Early
<1>5. taken[c] = 0 /\ dispatched[c] = 0 /\ up[c] = <<>> /\ down[c] = <<>>
  BY <1>1, Zenon DEF TInv, Fresh, Early
<1>6. /\ \A got, q, ch, garbled : Complete(got, q, ch, 0, garbled)
      /\ \A got, garbled : Gapless(got, <<>>, garbled)
  BY EmptyQueue DEF Complete, Gapless
<1>7. UpInOrder(c)'
  <2>1. Order(forwarded[c], Numbers(up[c]), <<>>, taken[c], garbledUp[c])
    BY Zenon DEF TInv, UpInOrder
  <2>2. /\ Gapless(forwarded[c], Numbers(up[c]), garbledUp[c])
        /\ Complete(forwarded[c], Numbers(up[c]), <<>>, taken[c], garbledUp[c])
    BY <1>5, <1>6, NumbersOfNone, Zenon
  <2>3. QED
    BY <1>1, <2>1, <2>2, Zenon DEF UpInOrder
<1>8. DownInOrder(c)'
  <2>1. Order(delivered[c], Numbers(down[c]), chan[c], dispatched[c], garbledDown[c])
    BY Zenon DEF TInv, DownInOrder
  <2>2. /\ Gapless(delivered[c], Numbers(down[c]), garbledDown[c])
        /\ Complete(delivered[c], Numbers(down[c]), chan[c], dispatched[c], garbledDown[c])
    BY <1>5, <1>6, NumbersOfNone, Zenon
  <2>3. QED
    BY <1>1, <2>1, <2>2, Zenon DEF DownInOrder
<1>9. QED
  BY <1>2, <1>3, <1>4, <1>7, <1>8, SMTT(30) DEF TInv

\* A connection whose WebSocket has been opened is past its set-up.
LEMMA NotEarly ==
    ASSUME NEW c \in Conns, TInv, ws[c] # "none" \/ h[c] # "none" \/ up[c] # <<>> \/ down[c] # <<>>
    PROVE  pc[c] \notin Early
BY Zenon DEF TInv, Fresh

\* A step of one connection that moves a message towards the exit node.
LEMMA UpMoves ==
    ASSUME NEW c \in Conns, TInv, TTypes', UpInOrder(c)', pc[c] \notin Early,
           UNCHANGED <<pc, app, ws, down, chan, dispatched, delivered, garbledDown>>,
           \A d \in Conns : d # c =>
               /\ up'[d] = up[d] /\ taken'[d] = taken[d] /\ forwarded'[d] = forwarded[d]
               /\ garbledUp'[d] = garbledUp[d] /\ h'[d] = h[d]
    PROVE  TInv'
<1>1. ASSUME NEW d \in Conns, d # c PROVE Fresh(d)' /\ UpInOrder(d)' /\ DownInOrder(d)'
  <2>1. Quiet(d)
    BY <1>1, Zenon DEF Quiet
  <2>2. QED
    BY <2>1, QuietKeeps, Zenon
<1>2. Fresh(c)' /\ DownInOrder(c)'
  BY Zenon DEF TInv, Fresh, DownInOrder
<1>3. QED
  BY <1>1, <1>2, Zenon DEF TInv

\* A step of one connection that moves a message towards the application.
LEMMA DownMoves ==
    ASSUME NEW c \in Conns, TInv, TTypes', DownInOrder(c)', pc[c] \notin Early,
           UNCHANGED <<pc, app, ws, h, up, taken, forwarded, garbledUp>>,
           \A d \in Conns : d # c =>
               /\ down'[d] = down[d] /\ chan'[d] = chan[d] /\ dispatched'[d] = dispatched[d]
               /\ delivered'[d] = delivered[d] /\ garbledDown'[d] = garbledDown[d]
    PROVE  TInv'
<1>1. ASSUME NEW d \in Conns, d # c PROVE Fresh(d)' /\ UpInOrder(d)' /\ DownInOrder(d)'
  <2>1. Quiet(d)
    BY <1>1, Zenon DEF Quiet
  <2>2. QED
    BY <2>1, QuietKeeps, Zenon
<1>2. Fresh(c)' /\ UpInOrder(c)'
  BY Zenon DEF TInv, Fresh, UpInOrder
<1>3. QED
  BY <1>1, <1>2, Zenon DEF TInv

\* The message that is written now.
LEMMA MessageOf ==
    ASSUME TInv, NEW k \in Nat
    PROVE  Message(k) \in Messages /\ Message(k).n = k
BY Zenon DEF TInv, TTypes, Message, Messages

\* The sender task takes a chunk and sends it, or takes it in vain.
LEMMA SenderKeeps == \A c \in Conns : TInv /\ (SendChunk(c) \/ SendChunkFails(c)) => TInv'
<1> SUFFICES ASSUME NEW c \in Conns, TInv, SendChunk(c) \/ SendChunkFails(c) PROVE TInv'
  BY Zenon
<1>1. /\ UNCHANGED <<minute, pc, app, rcv, h, ws, down, chan, dispatched, forwarded, delivered,
                     garbledUp, garbledDown>>
      /\ taken' = [taken EXCEPT ![c] = taken[c] + 1] /\ taken[c] \in Nat /\ DOMAIN snd' = Conns
  BY Zenon DEF SendChunk, SendChunkFails, global, handlerVars, TInv, TTypes
<1>2. PICK k \in Nat : k = taken[c] + 1
  BY <1>1
<1>3. /\ taken' \in [Conns -> Nat] /\ taken'[c] = k
      /\ \A d \in Conns : d # c => taken'[d] = taken[d]
  BY <1>1, <1>2, Zenon DEF TInv, TTypes
<1>4. ws[c] # "none"
  BY Zenon DEF SendChunk, SendChunkFails
<1>5. /\ Order(forwarded[c], Numbers(up[c]), <<>>, taken[c], garbledUp[c])
      /\ forwarded[c] \in Seq(Nat) /\ up[c] \in Seq(Messages) /\ Numbers(up[c]) \in Seq(Nat)
      /\ <<>> \in Seq(Nat)
  <2>1. Order(forwarded[c], Numbers(up[c]), <<>>, taken[c], garbledUp[c])
    BY Zenon DEF TInv, UpInOrder
  <2>2. forwarded[c] \in Seq(Nat) /\ up[c] \in Seq(Messages)
    BY Zenon DEF TInv, TTypes
  <2>3. QED
    BY <2>1, <2>2, NumbersOf, QueueTypes, Zenon
<1>6. CASE SendChunk(c)
  <2>1. PICK m \in Messages : m = Message(k) /\ m.n = k
    BY MessageOf, Zenon
  <2>2. up' = [up EXCEPT ![c] = Append(up[c], m)] /\ ws[c] = "open"
    BY <1>2, <1>6, <2>1, Zenon DEF SendChunk
  <2>3. /\ up' \in [Conns -> Seq(Messages)] /\ up'[c] = Append(up[c], m)
        /\ \A d \in Conns : d # c => up'[d] = up[d]
    <3>1. Append(up[c], m) \in Seq(Messages)
      BY <1>5, QueueTypes, Zenon
    <3>2. QED
      BY <2>2, <3>1, Zenon DEF TInv, TTypes
  <2>4. Numbers(up'[c]) = Append(Numbers(up[c]), k)
    BY <1>5, <2>1, <2>3, NumbersOf, SMTT(30)
  <2>5. /\ Append(<<>>, k) \in Seq(Nat) /\ Append(<<>>, k) # <<>>
        /\ Head(Append(<<>>, k)) = k /\ Tail(Append(<<>>, k)) = <<>>
    OBVIOUS
  <2>6. /\ Order(forwarded[c], Numbers(up[c]), Append(<<>>, k), k, garbledUp[c])
        /\ Complete(forwarded[c], Numbers(up[c]), <<>>, taken[c], garbledUp[c]) =>
             Complete(forwarded[c], Numbers(up[c]), Append(<<>>, k), k, garbledUp[c])
    BY <1>1, <1>2, <1>5, HandOver, Zenon
  <2>7. /\ Order(forwarded[c], Append(Numbers(up[c]), k), <<>>, k, garbledUp[c])
        /\ Complete(forwarded[c], Numbers(up[c]), Append(<<>>, k), k, garbledUp[c]) =>
             /\ Gapless(forwarded[c], Append(Numbers(up[c]), k), garbledUp[c])
             /\ Complete(forwarded[c], Append(Numbers(up[c]), k), <<>>, k, garbledUp[c])
    BY <1>5, <2>5, <2>6, SendFirst, Zenon
  <2>8. UpInOrder(c)'
    BY <1>1, <1>3, <2>2, <2>4, <2>6, <2>7, ZenonT(40) DEF TInv, UpInOrder
  <2>9. TTypes'
    BY <1>1, <1>3, <2>3, Zenon DEF TInv, TTypes
  <2>10. QED
    BY <1>1, <1>3, <1>4, <2>3, <2>8, <2>9, NotEarly, UpMoves, ZenonT(40)
<1>7. CASE SendChunkFails(c)
  <2>1. up' = up /\ ws[c] # "open"
    BY <1>7, Zenon DEF SendChunkFails
  <2>2. Order(forwarded[c], Numbers(up[c]), <<>>, k, garbledUp[c])
    BY <1>1, <1>2, <1>5, Clear, Zenon
  <2>3. UpInOrder(c)'
    BY <1>1, <1>3, <2>1, <2>2, Zenon DEF TInv, UpInOrder
  <2>4. TTypes'
    BY <1>1, <1>3, <2>1, Zenon DEF TInv, TTypes
  <2>5. QED
    BY <1>1, <1>3, <1>4, <2>1, <2>3, <2>4, NotEarly, UpMoves, Zenon
<1>8. QED
  BY <1>6, <1>7, Zenon

\* The handler reads the next message: it is forwarded, garbled, or refused,
\* which ends the loop.
LEMMA RxKeeps == \A c \in Conns : TInv /\ (RxForward(c) \/ RxForwardFails(c) \/ RxGarbled(c)) => TInv'
<1> SUFFICES ASSUME NEW c \in Conns, TInv, RxForward(c) \/ RxForwardFails(c) \/ RxGarbled(c) PROVE TInv'
  BY Zenon
<1>1. /\ UNCHANGED <<minute, pc, app, snd, rcv, ws, down, chan, dispatched, taken, delivered, garbledDown>>
      /\ up' = [up EXCEPT ![c] = Tail(up[c])] /\ h[c] = "reading" /\ up[c] # <<>>
  BY Zenon DEF RxForward, RxForwardFails, RxGarbled, Reading, global, clientVars
<1>2. /\ Order(forwarded[c], Numbers(up[c]), <<>>, taken[c], garbledUp[c])
      /\ Gapless(forwarded[c], Numbers(up[c]), garbledUp[c])
      /\ ws[c] = "open" => Complete(forwarded[c], Numbers(up[c]), <<>>, taken[c], garbledUp[c])
      /\ forwarded[c] \in Seq(Nat) /\ up[c] \in Seq(Messages) /\ taken[c] \in Nat
      /\ <<>> \in Seq(Nat)
  <2>1. UpInOrder(c) /\ forwarded[c] \in Seq(Nat) /\ up[c] \in Seq(Messages) /\ taken[c] \in Nat
    BY Zenon DEF TInv, TTypes
  <2>2. QED
    BY <1>1, <2>1, QueueTypes, Zenon DEF UpInOrder
<1>3. PICK q \in Seq(Nat) : /\ q = Numbers(up[c]) /\ q # <<>> /\ Head(q) = Head(up[c]).n
                            /\ Numbers(Tail(up[c])) = Tail(q)
  BY <1>1, <1>2, NumbersOf, Zenon
<1>4. /\ up' \in [Conns -> Seq(Messages)] /\ up'[c] = Tail(up[c])
      /\ \A d \in Conns : d # c => up'[d] = up[d]
  <2>1. Tail(up[c]) \in Seq(Messages)
    BY <1>1, <1>2, QueueTypes, Zenon
  <2>2. QED
    BY <1>1, <2>1, Zenon DEF TInv, TTypes
<1>5. pc[c] \notin Early
  BY <1>1, NotEarly, ZenonT(40)
<1>6. CASE RxForward(c)
  <2>1. forwarded' = [forwarded EXCEPT ![c] = Append(forwarded[c], Head(q))] /\ UNCHANGED <<h, garbledUp>>
    BY <1>3, <1>6, Zenon DEF RxForward
  <2>2. /\ Append(forwarded[c], Head(q)) \in Seq(Nat)
        /\ Order(Append(forwarded[c], Head(q)), Tail(q), <<>>, taken[c], garbledUp[c])
        /\ Gapless(Append(forwarded[c], Head(q)), Tail(q), garbledUp[c])
        /\ Complete(forwarded[c], q, <<>>, taken[c], garbledUp[c]) =>
             Complete(Append(forwarded[c], Head(q)), Tail(q), <<>>, taken[c], garbledUp[c])
    BY <1>2, <1>3, Arrive, Zenon
  <2>3. /\ forwarded' \in [Conns -> Seq(Nat)] /\ forwarded'[c] = Append(forwarded[c], Head(q))
        /\ \A d \in Conns : d # c => forwarded'[d] = forwarded[d]
    BY <1>3, <2>1, <2>2, Zenon DEF TInv, TTypes
  <2>4. UpInOrder(c)'
    BY <1>1, <1>2, <1>3, <1>4, <2>1, <2>2, <2>3, Zenon DEF UpInOrder
  <2>5. TTypes'
    BY <1>1, <1>4, <2>1, <2>3, Zenon DEF TInv, TTypes
  <2>6. QED
    BY <1>1, <1>4, <1>5, <2>1, <2>3, <2>4, <2>5, UpMoves, ZenonT(40)
<1>7. CASE RxForwardFails(c)
  <2>1. h' = [h EXCEPT ![c] = "left"] /\ UNCHANGED <<forwarded, garbledUp>>
    BY <1>7, Zenon DEF RxForwardFails
  <2>2. /\ DOMAIN h' = Conns /\ h'[c] = "left" /\ \A d \in Conns : d # c => h'[d] = h[d]
    BY <2>1, Zenon DEF TInv, TTypes
  <2>3. Order(forwarded[c], Tail(q), <<>>, taken[c], garbledUp[c])
    BY <1>2, <1>3, Drop, Zenon
  <2>4. UpInOrder(c)'
    BY <1>1, <1>3, <1>4, <2>1, <2>2, <2>3, Zenon DEF UpInOrder
  <2>5. TTypes'
    BY <1>1, <1>4, <2>1, <2>2, Zenon DEF TInv, TTypes
  <2>6. QED
    BY <1>1, <1>4, <1>5, <2>1, <2>2, <2>4, <2>5, UpMoves, ZenonT(40)
<1>8. CASE RxGarbled(c)
  <2>1. garbledUp' = [garbledUp EXCEPT ![c] = garbledUp[c] \cup {Head(q)}] /\ UNCHANGED <<h, forwarded>>
    BY <1>3, <1>8, Zenon DEF RxGarbled
  <2>2. /\ DOMAIN garbledUp' = Conns /\ garbledUp'[c] = garbledUp[c] \cup {Head(q)}
        /\ \A d \in Conns : d # c => garbledUp'[d] = garbledUp[d]
    BY <1>3, <2>1, Zenon DEF TInv, TTypes
  <2>3. /\ Order(forwarded[c], Tail(q), <<>>, taken[c], garbledUp[c] \cup {Head(q)})
        /\ Gapless(forwarded[c], q, garbledUp[c]) => Gapless(forwarded[c], Tail(q), garbledUp[c] \cup {Head(q)})
        /\ Complete(forwarded[c], q, <<>>, taken[c], garbledUp[c]) =>
             Complete(forwarded[c], Tail(q), <<>>, taken[c], garbledUp[c] \cup {Head(q)})
    BY <1>2, <1>3, Drop, Zenon
  <2>4. UpInOrder(c)'
    BY <1>1, <1>2, <1>3, <1>4, <2>1, <2>2, <2>3, Zenon DEF UpInOrder
  <2>5. TTypes'
    BY <1>1, <1>4, <2>1, <2>2, Zenon DEF TInv, TTypes
  <2>6. QED
    BY <1>1, <1>4, <1>5, <2>1, <2>2, <2>4, <2>5, UpMoves, ZenonT(40)
<1>9. QED
  BY <1>6, <1>7, <1>8, Zenon

\* The receive loop reads the next message: it is written to the application,
\* garbled, or written to a closed connection.
LEMMA ReceiveKeeps == \A c \in Conns : TInv /\ (Receive(c) \/ ReceiveGarbled(c)) => TInv'
<1> SUFFICES ASSUME NEW c \in Conns, TInv, Receive(c) \/ ReceiveGarbled(c) PROVE TInv'
  BY Zenon
<1>1. /\ UNCHANGED <<minute, pc, app, snd, ws, h, up, taken, forwarded, garbledUp, chan, dispatched>>
      /\ down' = [down EXCEPT ![c] = Tail(down[c])] /\ down[c] # <<>> /\ DOMAIN rcv' = Conns
  BY Zenon DEF Receive, ReceiveGarbled, Receiving, global, handlerVars, TInv, TTypes
<1>2. /\ Order(delivered[c], Numbers(down[c]), chan[c], dispatched[c], garbledDown[c])
      /\ app[c] # "closed" =>
           /\ Gapless(delivered[c], Numbers(down[c]), garbledDown[c])
           /\ ws[c] = "open" => Complete(delivered[c], Numbers(down[c]), chan[c], dispatched[c], garbledDown[c])
      /\ delivered[c] \in Seq(Nat) /\ down[c] \in Seq(Messages) /\ dispatched[c] \in Nat
      /\ chan[c] \in Seq(Nat)
  BY Zenon DEF TInv, TTypes, DownInOrder
<1>3. PICK q \in Seq(Nat) : /\ q = Numbers(down[c]) /\ q # <<>> /\ Head(q) = Head(down[c]).n
                            /\ Numbers(Tail(down[c])) = Tail(q)
  BY <1>1, <1>2, NumbersOf, Zenon
<1>4. /\ down' \in [Conns -> Seq(Messages)] /\ down'[c] = Tail(down[c])
      /\ \A d \in Conns : d # c => down'[d] = down[d]
  <2>1. Tail(down[c]) \in Seq(Messages)
    BY <1>1, <1>2, QueueTypes, Zenon
  <2>2. QED
    BY <1>1, <2>1, Zenon DEF TInv, TTypes
<1>5. pc[c] \notin Early
  BY <1>1, NotEarly, ZenonT(40)
<1>6. CASE Receive(c) /\ app[c] # "closed"
  <2>1. delivered' = [delivered EXCEPT ![c] = Append(delivered[c], Head(q))] /\ UNCHANGED garbledDown
    BY <1>3, <1>6, Zenon DEF Receive
  <2>2. /\ Append(delivered[c], Head(q)) \in Seq(Nat)
        /\ Order(Append(delivered[c], Head(q)), Tail(q), chan[c], dispatched[c], garbledDown[c])
        /\ Gapless(Append(delivered[c], Head(q)), Tail(q), garbledDown[c])
        /\ Complete(delivered[c], q, chan[c], dispatched[c], garbledDown[c]) =>
             Complete(Append(delivered[c], Head(q)), Tail(q), chan[c], dispatched[c], garbledDown[c])
    BY <1>2, <1>3, <1>6, Arrive, Zenon
  <2>3. /\ delivered' \in [Conns -> Seq(Nat)] /\ delivered'[c] = Append(delivered[c], Head(q))
        /\ \A d \in Conns : d # c => delivered'[d] = delivered[d]
    BY <2>1, <2>2, Zenon DEF TInv, TTypes
  <2>4. DownInOrder(c)'
    BY <1>1, <1>2, <1>3, <1>4, <1>6, <2>1, <2>2, <2>3, ZenonT(40) DEF DownInOrder
  <2>5. TTypes'
    BY <1>1, <1>4, <2>1, <2>3, Zenon DEF TInv, TTypes
  <2>6. QED
    BY <1>1, <1>4, <1>5, <2>1, <2>3, <2>4, <2>5, DownMoves, SMTT(30)
<1>7. CASE Receive(c) /\ app[c] = "closed"
  <2>1. UNCHANGED <<delivered, garbledDown>>
    BY <1>7, Zenon DEF Receive
  <2>2. Order(delivered[c], Tail(q), chan[c], dispatched[c], garbledDown[c])
    BY <1>2, <1>3, Drop, Zenon
  <2>3. DownInOrder(c)'
    BY <1>1, <1>3, <1>4, <1>7, <2>1, <2>2, ZenonT(40) DEF DownInOrder
  <2>4. TTypes'
    BY <1>1, <1>4, <2>1, Zenon DEF TInv, TTypes
  <2>5. QED
    BY <1>1, <1>4, <1>5, <2>1, <2>3, <2>4, DownMoves, ZenonT(40)
<1>8. CASE ReceiveGarbled(c)
  <2>1. garbledDown' = [garbledDown EXCEPT ![c] = garbledDown[c] \cup {Head(q)}] /\ UNCHANGED delivered
    BY <1>3, <1>8, Zenon DEF ReceiveGarbled
  <2>2. /\ DOMAIN garbledDown' = Conns /\ garbledDown'[c] = garbledDown[c] \cup {Head(q)}
        /\ \A d \in Conns : d # c => garbledDown'[d] = garbledDown[d]
    BY <2>1, Zenon DEF TInv, TTypes
  <2>3. /\ Order(delivered[c], Tail(q), chan[c], dispatched[c], garbledDown[c] \cup {Head(q)})
        /\ Gapless(delivered[c], q, garbledDown[c]) => Gapless(delivered[c], Tail(q), garbledDown[c] \cup {Head(q)})
        /\ Complete(delivered[c], q, chan[c], dispatched[c], garbledDown[c]) =>
             Complete(delivered[c], Tail(q), chan[c], dispatched[c], garbledDown[c] \cup {Head(q)})
    BY <1>2, <1>3, Drop, Zenon
  <2>4. DownInOrder(c)'
    BY <1>1, <1>2, <1>3, <1>4, <2>1, <2>2, <2>3, ZenonT(40) DEF DownInOrder
  <2>5. TTypes'
    BY <1>1, <1>4, <2>1, <2>2, Zenon DEF TInv, TTypes
  <2>6. QED
    BY <1>1, <1>4, <1>5, <2>1, <2>2, <2>4, <2>5, DownMoves, ZenonT(40)
<1>9. QED
  BY <1>6, <1>7, <1>8

\* A reply enters the session's channel.
LEMMA DispatchKeeps == \A c \in Conns : TInv /\ Dispatch(c) => TInv'
<1> SUFFICES ASSUME NEW c \in Conns, TInv, Dispatch(c) PROVE TInv'
  BY Zenon
<1>1. /\ UNCHANGED <<minute, pc, app, snd, rcv, ws, h, up, taken, forwarded, garbledUp, down, delivered,
                     garbledDown>>
      /\ dispatched' = [dispatched EXCEPT ![c] = dispatched[c] + 1]
      /\ chan' = [chan EXCEPT ![c] = Append(chan[c], dispatched[c] + 1)]
      /\ h[c] = "reading"
  BY Zenon DEF Dispatch, global, clientVars
<1>2. /\ Order(delivered[c], Numbers(down[c]), chan[c], dispatched[c], garbledDown[c])
      /\ delivered[c] \in Seq(Nat) /\ Numbers(down[c]) \in Seq(Nat) /\ dispatched[c] \in Nat
      /\ chan[c] \in Seq(Nat)
  BY NumbersOf, Zenon DEF TInv, TTypes, DownInOrder
<1>3. /\ Append(chan[c], dispatched[c] + 1) \in Seq(Nat)
      /\ Order(delivered[c], Numbers(down[c]), Append(chan[c], dispatched[c] + 1), dispatched[c] + 1, garbledDown[c])
      /\ Complete(delivered[c], Numbers(down[c]), chan[c], dispatched[c], garbledDown[c]) =>
           Complete(delivered[c], Numbers(down[c]), Append(chan[c], dispatched[c] + 1), dispatched[c] + 1,
                    garbledDown[c])
  BY <1>2, HandOver, Zenon
<1>4. PICK k \in Nat : k = dispatched[c] + 1
  BY <1>2
<1>5. /\ dispatched' \in [Conns -> Nat] /\ dispatched'[c] = k
      /\ chan' \in [Conns -> Seq(Nat)] /\ chan'[c] = Append(chan[c], k)
      /\ \A d \in Conns : d # c => dispatched'[d] = dispatched[d] /\ chan'[d] = chan[d]
  <2>1. dispatched' = [dispatched EXCEPT ![c] = k] /\ chan' = [chan EXCEPT ![c] = Append(chan[c], k)]
    BY <1>1, <1>4, Zenon
  <2>2. Append(chan[c], k) \in Seq(Nat)
    BY <1>3, <1>4, Zenon
  <2>3. QED
    BY <1>4, <2>1, <2>2, Zenon DEF TInv, TTypes
<1>6. DownInOrder(c)'
  BY <1>1, <1>3, <1>4, <1>5, Zenon DEF TInv, DownInOrder
<1>7. TTypes'
  BY <1>1, <1>5, Zenon DEF TInv, TTypes
<1>8. QED
  BY <1>1, <1>5, <1>6, <1>7, NotEarly, DownMoves, ZenonT(40)

\* tx_task sends the next reply of the channel.
LEMMA TxKeeps == \A c \in Conns : TInv /\ TxSend(c) => TInv'
<1> SUFFICES ASSUME NEW c \in Conns, TInv, TxSend(c) PROVE TInv'
  BY Zenon
<1>1. /\ UNCHANGED <<minute, pc, app, snd, rcv, ws, h, up, taken, forwarded, garbledUp, dispatched,
                     delivered, garbledDown>>
      /\ chan' = [chan EXCEPT ![c] = Tail(chan[c])]
      /\ down' = [down EXCEPT ![c] = Append(down[c], Message(Head(chan[c])))]
      /\ chan[c] # <<>> /\ ws[c] = "open"
  BY Zenon DEF TxSend, global, clientVars
<1>2. /\ Order(delivered[c], Numbers(down[c]), chan[c], dispatched[c], garbledDown[c])
      /\ app[c] # "closed" => Complete(delivered[c], Numbers(down[c]), chan[c], dispatched[c], garbledDown[c])
      /\ delivered[c] \in Seq(Nat) /\ Numbers(down[c]) \in Seq(Nat) /\ dispatched[c] \in Nat
      /\ chan[c] \in Seq(Nat) /\ down[c] \in Seq(Messages)
  BY <1>1, NumbersOf, Zenon DEF TInv, TTypes, DownInOrder
<1>3. PICK k \in Nat : k = Head(chan[c])
  BY <1>1, <1>2, QueueTypes, Zenon
<1>4. PICK m \in Messages : m = Message(k) /\ m.n = k
  BY MessageOf, Zenon
<1>5. Numbers(Append(down[c], m)) = Append(Numbers(down[c]), k)
  BY <1>2, <1>4, NumbersOf, Zenon
<1>6. /\ Order(delivered[c], Append(Numbers(down[c]), k), Tail(chan[c]), dispatched[c], garbledDown[c])
      /\ app[c] # "closed" =>
           /\ Gapless(delivered[c], Append(Numbers(down[c]), k), garbledDown[c])
           /\ Complete(delivered[c], Append(Numbers(down[c]), k), Tail(chan[c]), dispatched[c], garbledDown[c])
  BY <1>1, <1>2, <1>3, SendFirst, Zenon
<1>7. /\ down' \in [Conns -> Seq(Messages)] /\ down'[c] = Append(down[c], m)
      /\ chan' \in [Conns -> Seq(Nat)] /\ chan'[c] = Tail(chan[c])
      /\ \A d \in Conns : d # c => down'[d] = down[d] /\ chan'[d] = chan[d]
  <2>1. down' = [down EXCEPT ![c] = Append(down[c], m)]
    BY <1>1, <1>3, <1>4, Zenon
  <2>2. Tail(chan[c]) \in Seq(Nat) /\ Append(down[c], m) \in Seq(Messages)
    BY <1>1, <1>2, QueueTypes, Zenon
  <2>3. down \in [Conns -> Seq(Messages)] /\ chan \in [Conns -> Seq(Nat)]
    BY Zenon DEF TInv, TTypes
  <2>4. /\ down' \in [Conns -> Seq(Messages)] /\ down'[c] = Append(down[c], m)
        /\ \A d \in Conns : d # c => down'[d] = down[d]
    BY <2>1, <2>2, <2>3, Zenon
  <2>5. /\ chan' \in [Conns -> Seq(Nat)] /\ chan'[c] = Tail(chan[c])
        /\ \A d \in Conns : d # c => chan'[d] = chan[d]
    BY <1>1, <2>2, <2>3, Zenon
  <2>6. QED
    BY <2>4, <2>5, Zenon
<1>8. DownInOrder(c)'
  BY <1>1, <1>5, <1>6, <1>7, Zenon DEF DownInOrder
<1>9. TTypes'
  BY <1>1, <1>7, Zenon DEF TInv, TTypes
<1>10. QED
  BY <1>1, <1>7, <1>8, <1>9, NotEarly, DownMoves, ZenonT(40)

\* Initially no connection has sent anything.
LEMMA TunnelInitHolds == TunnelInit => TInv
<1> SUFFICES ASSUME TunnelInit PROVE TInv
  BY Zenon
<1>1. TTypes
  BY DEF TunnelInit, TTypes
<1>2. ASSUME NEW c \in Conns PROVE Fresh(c) /\ UpInOrder(c) /\ DownInOrder(c)
  <2>1. /\ ws[c] = "none" /\ h[c] = "none" /\ taken[c] = 0 /\ dispatched[c] = 0
        /\ up[c] = <<>> /\ down[c] = <<>> /\ chan[c] = <<>>
        /\ forwarded[c] = <<>> /\ delivered[c] = <<>>
    BY Zenon DEF TunnelInit
  <2>2. \A g : Order(<<>>, <<>>, <<>>, 0, g) /\ Gapless(<<>>, <<>>, g) /\ Complete(<<>>, <<>>, <<>>, 0, g)
    BY EmptyQueue DEF Order, Gapless, Complete
  <2>3. QED
    BY <2>1, <2>2, NumbersOfNone, Zenon DEF Fresh, UpInOrder, DownInOrder
<1>3. QED
  BY <1>1, <1>2, Zenon DEF TInv

\* The invariant of the tunnel is inductive.
LEMMA TunnelStepKeeps == TInv /\ [TunnelNext]_tunnelVars => TInv'
<1> SUFFICES ASSUME TInv, [TunnelNext]_tunnelVars PROVE TInv'
  BY Zenon
<1>1. CASE Rotate \/ TriggerEmergency \/ Exit \/ UNCHANGED tunnelVars
  BY <1>1, GlobalKeeps, Zenon
<1>2. ASSUME NEW c \in Conns,
             \/ Reject(c) \/ Handshake(c) \/ HandshakeFails(c) \/ ParseTarget(c) \/ TargetFails(c)
             \/ WssConnectFails(c) \/ StartRelay(c)
             \/ AppWrites(c) \/ AppHalfCloses(c) \/ AppCloses(c)
             \/ SenderEnds(c) \/ ReceiveEnds(c) \/ RxEnds(c)
      PROVE  TInv'
  BY <1>2, CalmKeeps, Zenon
<1>3. ASSUME NEW c \in Conns,
             StartRelayFails(c) \/ Return(c) \/ HandlerCloses(c) \/ Break(c) \/ TxFails(c)
      PROVE  TInv'
  BY <1>3, EndKeeps, Zenon
<1>4. ASSUME NEW c \in Conns,
             \/ WssConnect(c) \/ SendChunk(c) \/ SendChunkFails(c)
             \/ RxForward(c) \/ RxForwardFails(c) \/ RxGarbled(c)
             \/ Receive(c) \/ ReceiveGarbled(c) \/ Dispatch(c) \/ TxSend(c)
      PROVE  TInv'
  BY <1>4, ConnectKeeps, SenderKeeps, RxKeeps, ReceiveKeeps, DispatchKeeps, TxKeeps, SMTT(30)
<1>5. QED
  BY <1>1, <1>2, <1>3, <1>4, SMTT(30) DEF TunnelNext, Sender, Receiver, HandlerRx, HandlerTx

-----------------------------------------------------------------------------
(***************************************************************************)
(* The theorems                                                            *)
(***************************************************************************)

\* Both invariants hold throughout: a behaviour follows one service, and the
\* other's state does not change.
LEMMA Inductive == Spec => [](TInv /\ DInv)
<1>1. Init => TInv /\ DInv
  BY TunnelInitHolds, DnsInitHolds, Zenon DEF Init
<1>2. TInv /\ DInv /\ [Next]_<<service, tunnelVars, dnsVars>> => TInv' /\ DInv'
  <2> SUFFICES ASSUME TInv, DInv, [Next]_<<service, tunnelVars, dnsVars>> PROVE TInv' /\ DInv'
    BY Zenon
  <2>1. [TunnelNext]_tunnelVars /\ [DnsNext]_dnsVars
    BY Zenon DEF Next
  <2>2. QED
    BY <2>1, TunnelStepKeeps, DnsStepKeeps, Zenon
<1>3. QED
  BY <1>1, <1>2, PTL DEF Spec

\* For any number of connections, chunks, replies and rotations of the mask:
\* what reaches an exit node, and what reaches the application, is in order,
\* without repetition, and lacks a message before another only if it was
\* garbled.
THEOREM StreamsAlwaysInOrder == Spec => []StreamsKeepOrder
<1>1. TInv => StreamsKeepOrder
  <2> SUFFICES ASSUME TInv, NEW c \in Conns
               PROVE  /\ OnlyGarbledMissing(forwarded[c], taken[c], garbledUp[c])
                      /\ OnlyGarbledMissing(delivered[c], dispatched[c], garbledDown[c])
    BY Zenon DEF StreamsKeepOrder
  <2>1. /\ forwarded[c] \in Seq(Nat) /\ taken[c] \in Nat
        /\ delivered[c] \in Seq(Nat) /\ dispatched[c] \in Nat
    BY Zenon DEF TInv, TTypes
  <2>2. OnlyGarbledMissing(forwarded[c], taken[c], garbledUp[c])
    BY <2>1, Arrived, Zenon DEF TInv, UpInOrder
  <2>3. OnlyGarbledMissing(delivered[c], dispatched[c], garbledDown[c])
    BY <2>1, Arrived, Zenon DEF TInv, DownInOrder
  <2>4. QED
    BY <2>2, <2>3, Zenon
<1>2. QED
  BY <1>1, Inductive, PTL

\* For any number of sessions and queries: each query is in one place, and a
\* failed session costs at most one query whose send fails (the UDP task of
\* run).
THEOREM UnsentBounded == Spec => []UnsentPerFailedSession
BY DnsInvariant, Inductive, PTL

=============================================================================
