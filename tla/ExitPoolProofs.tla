--------------------------- MODULE ExitPoolProofs ---------------------------
(***************************************************************************)
(* Proofs about ExitPool, for any number of callers, nodes and packets,    *)
(* every grouping of the nodes and any outages.                            *)
(*                                                                         *)
(* Neither property is inductive.  FInv adds what the rotation has visited *)
(* so far, that groups list their clients once and change only while no    *)
(* forward runs, and that a packet under way belongs to one forward and    *)
(* was received by nobody unless an answer was lost.                       *)
(***************************************************************************)
EXTENDS ExitPool, SequenceTheorems, FiniteSetTheorems, TLAPS

Places == {"idle", "visit", "request"}

Types ==
  /\ forwards \in Nat /\ forwards <= MaxForwards
  /\ pc \in [Callers -> Places] /\ packet \in [Callers -> Nat] /\ DOMAIN group = Callers
  /\ start \in [Callers -> Nat] /\ attempts \in [Callers -> Nat]
  /\ visited \in [Callers -> Seq(Nodes)] /\ DOMAIN ret = Callers
  /\ received \in [Packets -> SUBSET Nodes]

\* a group lists its clients once each, and a node being added is in none
Group(g) ==
  /\ groups[g] \in Seq(Nodes) /\ Len(groups[g]) > 0 /\ IsInjective(groups[g])
  /\ next_index[g] \in Nat

Grouped ==
  /\ DOMAIN next_index = DOMAIN groups
  /\ \A g \in DOMAIN groups : Group(g)
  /\ adding # <<>> => adding[1] \in Nodes \ Clients

\* the place in a group of n clients that is visited i-th, from place s on
Turn(s, i, n) == ((s + (i - 1)) % n) + 1

\* a forward visits the clients of its group in turn
Rotates(f) ==
  /\ Len(visited[f]) = attempts[f]
  /\ pc[f] = "idle" => attempts[f] = 0
  /\ pc[f] # "idle" =>
       /\ group[f] \in DOMAIN groups
       /\ start[f] < Len(Members(f)) /\ attempts[f] <= Len(Members(f))
       /\ pc[f] = "request" => attempts[f] < Len(Members(f))
       /\ \A i \in 1..attempts[f] : visited[f][i] = Members(f)[Turn(start[f], i, Len(Members(f)))]

\* a forward has a packet of its own, which nobody received unless an answer was
\* lost; one that returned Ok was received
Carries(f) ==
  /\ packet[f] <= forwards
  /\ pc[f] # "idle" =>
       /\ packet[f] > 0
       /\ received[packet[f]] # {} => packet[f] \in lost
       /\ \A e \in Callers : pc[e] # "idle" /\ packet[e] = packet[f] => e = f
  /\ pc[f] = "idle" /\ ret[f] = "ok" /\ packet[f] # 0 => received[packet[f]] # {}

\* a packet not forwarded yet was not received; twice only if an answer was lost
Sent(m) ==
  /\ m > forwards => received[m] = {}
  /\ m \in lost \/ \A a, b \in received[m] : a = b

FInv ==
  /\ Types /\ Grouped
  /\ \A f \in Callers : Rotates(f) /\ Carries(f)
  /\ \A m \in Packets : Sent(m)

-----------------------------------------------------------------------------
(***************************************************************************)
(* The rotation                                                            *)
(***************************************************************************)

\* The places are visited in order from the start and wrap round once.
LEMMA Turns ==
  ASSUME NEW n \in Nat, n > 0, NEW s \in Nat, s < n, NEW i \in 1..n
  PROVE  /\ Turn(s, i, n) = IF s + (i - 1) < n THEN s + i ELSE s + i - n
         /\ Turn(s, i, n) \in 1..n
<1>1. (s + (i - 1)) % n = IF s + (i - 1) < n THEN s + (i - 1) ELSE s + (i - 1) - n
  OBVIOUS
<1>2. QED
  BY <1>1 DEF Turn

\* No place is visited twice in a round.
LEMMA TurnsDiffer ==
  ASSUME NEW n \in Nat, n > 0, NEW s \in Nat, s < n, NEW i \in 1..n, NEW j \in 1..n,
         Turn(s, i, n) = Turn(s, j, n)
  PROVE  i = j
<1>1. Turn(s, i, n) = IF s + (i - 1) < n THEN s + i ELSE s + i - n
  BY Turns, Zenon
<1>2. Turn(s, j, n) = IF s + (j - 1) < n THEN s + j ELSE s + j - n
  BY Turns, Zenon
<1>3. (IF s + (i - 1) < n THEN s + i ELSE s + i - n) = (IF s + (j - 1) < n THEN s + j ELSE s + j - n)
  BY <1>1, <1>2, Zenon
<1>4. QED
  BY <1>3

\* Every place is visited in a round.
LEMMA TurnsCover ==
  ASSUME NEW n \in Nat, n > 0, NEW s \in Nat, s < n, NEW k \in 1..n
  PROVE  \E i \in 1..n : Turn(s, i, n) = k
<1>1. CASE k > s
  <2>1. k - s \in 1..n /\ s + ((k - s) - 1) < n /\ s + (k - s) = k
    BY <1>1
  <2>2. QED
    BY <2>1, Turns, Zenon
<1>2. CASE k <= s
  <2>1. k - s + n \in 1..n /\ ~(s + ((k - s + n) - 1) < n) /\ s + (k - s + n) - n = k
    BY <1>2
  <2>2. QED
    BY <2>1, Turns, Zenon
<1>3. QED
  BY <1>1, <1>2

\* What the rotation has visited so far, each client once; after a full round,
\* all of them.
LEMMA VisitedSoFar ==
  ASSUME FInv, NEW f \in Callers, pc[f] # "idle"
  PROVE  /\ IsInjective(visited[f])
         /\ attempts[f] = Len(Members(f)) => Range(visited[f]) = Range(Members(f))
<1> DEFINE n == Len(Members(f))
           s == start[f]
<1>1. /\ Members(f) \in Seq(Nodes) /\ n \in Nat /\ n > 0 /\ IsInjective(Members(f))
      /\ s \in Nat /\ s < n
      /\ attempts[f] \in Nat /\ attempts[f] <= n
      /\ \A i \in 1..attempts[f] : visited[f][i] = Members(f)[Turn(s, i, n)]
  BY DEF FInv, Types, Grouped, Group, Rotates, Members
<1>2. DOMAIN Members(f) = 1..n
  BY <1>1
<1>3. DOMAIN visited[f] = 1..attempts[f]
  BY DEF FInv, Types, Rotates
<1> HIDE DEF n, s
<1>4. ASSUME NEW i \in 1..attempts[f] PROVE i \in 1..n /\ Turn(s, i, n) \in 1..n
  <2>1. i \in 1..n
    BY <1>1
  <2>2. QED
    BY <1>1, <2>1, Turns, Zenon
<1>5. ASSUME NEW i \in 1..attempts[f], NEW j \in 1..attempts[f], visited[f][i] = visited[f][j]
      PROVE  i = j
  <2>1. Turn(s, i, n) = Turn(s, j, n)
    BY <1>1, <1>2, <1>4, <1>5, Zenon DEF IsInjective
  <2>2. QED
    BY <1>1, <1>4, <2>1, TurnsDiffer, Zenon
<1>6. ASSUME attempts[f] = n PROVE Range(visited[f]) = Range(Members(f))
  <2>1. ASSUME NEW k \in 1..n PROVE \E i \in 1..attempts[f] : visited[f][i] = Members(f)[k]
    <3>1. PICK i \in 1..n : Turn(s, i, n) = k
      BY <1>1, TurnsCover, Zenon
    <3>2. QED
      BY <1>1, <1>6, <3>1, Zenon
  <2>2. \A i \in 1..attempts[f] : \E k \in 1..n : visited[f][i] = Members(f)[k]
    BY <1>1, <1>4, Zenon
  <2>3. Range(visited[f]) = {visited[f][i] : i \in 1..attempts[f]}
    BY <1>3, Zenon DEF Range
  <2>4. Range(Members(f)) = {Members(f)[k] : k \in 1..n}
    BY <1>2, Zenon DEF Range
  <2>5. QED
    BY <2>1, <2>2, <2>3, <2>4
<1>7. QED
  BY <1>3, <1>5, <1>6, Zenon DEF IsInjective, n

\* A client more is visited: the next in turn.
LEMMA NextAttemptRotates ==
  ASSUME FInv, NEW f \in Callers, pc[f] # "idle", AttemptsLeft(f), NextAttempt(f),
         pc' = [pc EXCEPT ![f] = "visit"], UNCHANGED <<groups, group, start>>
  PROVE  /\ attempts' \in [Callers -> Nat] /\ visited' \in [Callers -> Seq(Nodes)]
         /\ \A e \in Callers : Rotates(e)'
<1> DEFINE n == Len(Members(f))
           s == start[f]
           a == attempts[f]
           c == Candidate(f)
<1>1. /\ Members(f) \in Seq(Nodes) /\ n \in Nat /\ n > 0 /\ s \in Nat /\ s < n
      /\ a \in Nat /\ a < n /\ group[f] \in DOMAIN groups
      /\ visited[f] \in Seq(Nodes) /\ Len(visited[f]) = a
      /\ \A i \in 1..a : visited[f][i] = Members(f)[Turn(s, i, n)]
  BY DEF FInv, Types, Grouped, Group, Rotates, Members, AttemptsLeft
<1>2. Turn(s, a + 1, n) \in 1..n /\ c = Members(f)[Turn(s, a + 1, n)]
  <2>1. a + 1 \in 1..n /\ (a + 1) - 1 = a
    BY <1>1
  <2>2. Turn(s, a + 1, n) \in 1..n
    BY <1>1, <2>1, Turns, Zenon
  <2>3. Turn(s, a + 1, n) = ((s + a) % n) + 1
    BY <2>1, Zenon DEF Turn
  <2>4. QED
    BY <2>2, <2>3, Zenon DEF Candidate
<1>3. c \in Nodes
  BY <1>1, <1>2
<1>4. attempts' = [attempts EXCEPT ![f] = a + 1] /\ visited' = [visited EXCEPT ![f] = Append(visited[f], c)]
  BY Zenon DEF NextAttempt, FInv, Types
<1> HIDE DEF c
<1>5. attempts' \in [Callers -> Nat] /\ visited' \in [Callers -> Seq(Nodes)]
  BY <1>1, <1>3, <1>4 DEF FInv, Types
<1>6. ASSUME NEW e \in Callers, e # f PROVE Rotates(e)'
  <2>1. attempts'[e] = attempts[e] /\ visited'[e] = visited[e] /\ pc'[e] = pc[e] /\ Rotates(e)
    BY <1>4, <1>6, Zenon DEF FInv, Types
  <2>2. QED
    BY <2>1, Zenon DEF Rotates, Members
<1>7. Rotates(f)'
  <2>1. attempts'[f] = a + 1 /\ visited'[f] = Append(visited[f], c) /\ pc'[f] = "visit"
    BY <1>4, Zenon DEF FInv, Types
  <2>2. /\ Len(visited'[f]) = a + 1 /\ visited'[f][a + 1] = c
        /\ \A i \in 1..a : visited'[f][i] = visited[f][i]
    BY <1>1, <1>3, <2>1
  <2>3. \A i \in 1..(a + 1) : i \in 1..a \/ i = a + 1
    BY <1>1
  <2>4. \A i \in 1..(a + 1) : visited'[f][i] = Members(f)[Turn(s, i, n)]
    BY <1>1, <1>2, <2>2, <2>3, Zenon
  <2>5. Members(f)' = Members(f)
    BY Zenon DEF Members
  <2>6. QED
    BY <1>1, <2>1, <2>2, <2>4, <2>5 DEF Rotates
<1>8. QED
  BY <1>5, <1>6, <1>7, Zenon

-----------------------------------------------------------------------------
(***************************************************************************)
(* The steps                                                               *)
(***************************************************************************)

\* The bound on the packets is a number.
LEMMA Bound == MaxForwards \in Nat
BY PoolAssumption, Zenon

\* A remainder is below the divisor.
LEMMA Remainder == \A x, y \in Nat : y > 0 => x % y \in Nat /\ x % y < y
OBVIOUS

\* The packet of a forward under way is one of Packets.
LEMMA PacketOf == \A f \in Callers : FInv /\ pc[f] # "idle" => packet[f] \in Packets
BY Bound DEF FInv, Types, Carries, Packets

\* Steps that touch neither the forwards nor the groups.
LEMMA QuietKeeps ==
  ASSUME FInv, UNCHANGED <<groups, next_index, locals, received, lost, forwards>>,
         adding' = adding \/ adding' = <<>> \/ adding'[1] \in Nodes \ Clients
  PROVE  FInv'
<1> USE DEF locals
<1>1. Types'
  BY Zenon DEF FInv, Types
<1>2. Grouped'
  BY Zenon DEF FInv, Grouped, Group, Clients
<1>3. ASSUME NEW f \in Callers PROVE Rotates(f)' /\ Carries(f)'
  BY ZenonT(40) DEF FInv, Rotates, Members, Carries
<1>4. \A m \in Packets : Sent(m)'
  BY Zenon DEF FInv, Sent
<1>5. QED
  BY <1>1, <1>2, <1>3, <1>4, Zenon DEF FInv

\* forward begins with a packet nobody has, in a group that exists.
LEMMA BeginKeeps ==
  \A f \in Callers, g \in Requested : FInv /\ (ForwardBegin(f, g) \/ ForwardNoGroup(f, g)) => FInv'
<1> SUFFICES ASSUME NEW f \in Callers, NEW g \in Requested, FInv,
                    ForwardBegin(f, g) \/ ForwardNoGroup(f, g)
             PROVE  FInv'
  BY Zenon
<1>1. forwards \in Nat /\ forwards < MaxForwards /\ forwards + 1 \in Packets /\ pc[f] = "idle"
  <2>1. forwards \in Nat /\ forwards < MaxForwards /\ pc[f] = "idle"
    BY Zenon DEF ForwardBegin, ForwardNoGroup, FInv, Types
  <2>2. QED
    BY <2>1, Bound DEF Packets
<1>2. PICK k \in Nat : k = forwards + 1
  BY <1>1
<1>3. \A m \in Packets : Sent(m) => (k <= m => received[m] = {}) /\ (m > k => received[m] = {})
  BY <1>1, <1>2 DEF Sent, Packets
<1>4. CASE ForwardNoGroup(f, g)
  <2>1. /\ UNCHANGED <<groups, next_index, adding, pc, packet, group, start, attempts, visited,
                       received, lost>>
        /\ forwards' = k /\ ret' = [ret EXCEPT ![f] = "no group"]
    BY <1>2, <1>4, Zenon DEF ForwardNoGroup
  <2>2. Types' /\ Grouped'
    <3>1. k <= MaxForwards
      BY <1>1, <1>2, Bound
    <3>2. Types'
      BY <2>1, <3>1, Zenon DEF FInv, Types
    <3>3. Grouped'
      BY <2>1, Zenon DEF FInv, Grouped, Group, Clients
    <3>4. QED
      BY <3>2, <3>3, Zenon
  <2>3. ASSUME NEW e \in Callers PROVE Rotates(e)' /\ Carries(e)'
    <3>1. Rotates(e)'
      BY <2>1, ZenonT(40) DEF FInv, Rotates, Members
    <3>2. packet[e] \in Nat /\ (ret'[e] = ret[e] \/ ret'[e] = "no group")
      BY <2>1, Zenon DEF FInv, Types
    <3>3. Carries(e)
      BY Zenon DEF FInv
    <3>4. packet[e] <= k
      <4>1. packet[e] <= forwards
        BY <3>3, Zenon DEF Carries
      <4>2. packet[e] \in Nat /\ forwards \in Nat
        BY <1>1, <3>2, Zenon
      <4>3. QED
        BY <1>2, <4>1, <4>2
    <3>5. QED
      BY <2>1, <3>1, <3>2, <3>3, <3>4, Zenon DEF Carries
  <2>4. \A m \in Packets : Sent(m)'
    BY <1>3, <2>1, Zenon DEF FInv, Sent
  <2>5. QED
    BY <2>2, <2>3, <2>4, Zenon DEF FInv
<1>5. CASE ForwardBegin(f, g)
  <2>1. PICK h \in DOMAIN groups : h = Serving(g)
    BY <1>5, Zenon DEF ForwardBegin
  <2>2. PICK s : s = next_index[h] % Len(groups[h])
    BY Zenon
  <2>3. /\ UNCHANGED <<groups, adding, attempts, visited, ret, received, lost>> /\ forwards' = k
        /\ packet' = [packet EXCEPT ![f] = k] /\ group' = [group EXCEPT ![f] = h]
        /\ start' = [start EXCEPT ![f] = s]
        /\ next_index' = [next_index EXCEPT ![h] = @ + 1]
        /\ pc' = [pc EXCEPT ![f] = "visit"]
    BY <1>2, <1>5, <2>1, <2>2, Zenon DEF ForwardBegin
  <2>4. Len(groups[h]) \in Nat /\ s \in Nat /\ s < Len(groups[h])
    <3>1. Len(groups[h]) \in Nat /\ Len(groups[h]) > 0 /\ next_index[h] \in Nat
      BY DEF FInv, Grouped, Group
    <3>2. PICK x \in Nat, n \in Nat : x = next_index[h] /\ n = Len(groups[h]) /\ n > 0
      BY <3>1, Zenon
    <3>3. s = x % n
      BY <2>2, <3>2, Zenon
    <3>4. s \in Nat /\ s < n
      BY <3>2, <3>3, Remainder, Zenon
    <3>5. QED
      BY <3>2, <3>4, Zenon
  <2>5. Types'
    <3>1. k <= MaxForwards
      <4>1. forwards \in Nat /\ forwards < MaxForwards
        BY <1>1, Zenon
      <4>2. QED
        BY <1>2, <4>1, Bound
    <3>2. "visit" \in Places
      BY Zenon DEF Places
    <3>3. pc' \in [Callers -> Places] /\ DOMAIN group' = Callers
      BY <2>3, <3>2, Zenon DEF FInv, Types
    <3>4. packet' \in [Callers -> Nat] /\ start' \in [Callers -> Nat]
      BY <2>3, <2>4, Zenon DEF FInv, Types
    <3>5. QED
      BY <2>3, <3>1, <3>3, <3>4, Zenon DEF FInv, Types
  <2>6. Grouped'
    BY <2>3 DEF FInv, Grouped, Group, Clients
  <2>7. ASSUME NEW e \in Callers, e # f PROVE Rotates(e)' /\ Carries(e)'
    <3>1. /\ pc'[e] = pc[e] /\ packet'[e] = packet[e] /\ group'[e] = group[e] /\ start'[e] = start[e]
          /\ Rotates(e) /\ Carries(e) /\ packet[e] \in Nat
      BY <2>3, <2>7, Zenon DEF FInv, Types
    <3>2. Rotates(e)'
      BY <2>3, <3>1, Zenon DEF Rotates, Members
    <3>3. packet[e] <= k /\ packet[e] # k
      BY <1>1, <1>2, <3>1 DEF Carries
    <3>4. \A d \in Callers : pc'[d] # "idle" /\ packet'[d] = packet[e] => pc[d] # "idle" /\ packet[d] = packet[e]
      BY <2>3, <3>3, Zenon DEF FInv, Types
    <3>5. Carries(e)'
      BY <2>3, <3>1, <3>3, <3>4 DEF Carries
    <3>6. QED
      BY <3>2, <3>5, Zenon
  <2>8. Rotates(f)'
    <3>1. attempts[f] = 0 /\ Len(visited[f]) = 0
      BY <1>1, Zenon DEF FInv, Rotates
    <3>2. pc'[f] = "visit" /\ group'[f] = h /\ start'[f] = s
      BY <2>3, Zenon DEF FInv, Types
    <3>3. QED
      BY <2>3, <2>4, <3>1, <3>2 DEF Rotates, Members
  <2>9. Carries(f)'
    <3>1. pc'[f] = "visit" /\ packet'[f] = k
      BY <2>3, Zenon DEF FInv, Types
    <3>2. received[k] = {} /\ k > 0 /\ k <= k
      BY <1>1, <1>2 DEF FInv, Sent
    <3>3. \A e \in Callers : e # f => packet'[e] # k
      BY <1>1, <1>2, <2>3 DEF FInv, Types, Carries
    <3>4. QED
      BY <2>3, <3>1, <3>2, <3>3, Zenon DEF Carries
  <2>10. \A m \in Packets : Sent(m)'
    BY <1>3, <2>3, Zenon DEF FInv, Sent
  <2>11. QED
    BY <2>5, <2>6, <2>7, <2>8, <2>9, <2>10, Zenon DEF FInv
<1>6. QED
  BY <1>4, <1>5, Zenon

\* While attempts are left the rotation points at a client of the group.
LEMMA CandidateIsNode ==
  ASSUME FInv, NEW f \in Callers, pc[f] # "idle", AttemptsLeft(f)
  PROVE  Candidate(f) \in Nodes
<1>1. /\ Members(f) \in Seq(Nodes) /\ Len(Members(f)) \in Nat /\ Len(Members(f)) > 0
      /\ start[f] \in Nat /\ attempts[f] \in Nat
  BY DEF FInv, Types, Grouped, Group, Rotates, Members
<1>2. PICK x \in Nat, n \in Nat : x = start[f] + attempts[f] /\ n = Len(Members(f)) /\ n > 0
  BY <1>1, SMTT(30)
<1>3. (x % n) + 1 \in 1..n
  BY <1>2, Remainder
<1>4. QED
  BY <1>1, <1>2, <1>3 DEF Candidate

\* A failed attempt: the rotation moves on, and the packet is known to a node
\* more only if the answer was lost.
LEMMA AttemptKeeps ==
  ASSUME FInv, NEW f \in Callers, pc[f] # "idle", AttemptsLeft(f), NextAttempt(f),
         pc' = [pc EXCEPT ![f] = "visit"],
         UNCHANGED <<groups, next_index, adding, packet, group, start, ret, forwards>>,
         \/ UNCHANGED <<received, lost>>
         \/ /\ received' = [received EXCEPT ![packet[f]] = @ \cup {Candidate(f)}]
            /\ lost' = lost \cup {packet[f]}
  PROVE  FInv'
<1>1. /\ attempts' \in [Callers -> Nat] /\ visited' \in [Callers -> Seq(Nodes)]
      /\ \A e \in Callers : Rotates(e)'
  BY NextAttemptRotates, Zenon
<1>2. PICK p \in Packets : p = packet[f]
  BY PacketOf, Zenon
<1>3. PICK c \in Nodes : c = Candidate(f)
  BY CandidateIsNode, Zenon
<1>4. /\ received' \in [Packets -> SUBSET Nodes]
      /\ lost \subseteq lost'
      /\ \A m \in Packets : m # p => received'[m] = received[m]
      /\ received'[p] = received[p] \/ p \in lost'
      /\ \A m \in Packets : received[m] \subseteq received'[m]
  <2>1. CASE UNCHANGED <<received, lost>>
    BY <2>1, Zenon DEF FInv, Types
  <2>2. CASE /\ received' = [received EXCEPT ![packet[f]] = @ \cup {Candidate(f)}]
             /\ lost' = lost \cup {packet[f]}
    <3>1. received' = [received EXCEPT ![p] = received[p] \cup {c}] /\ lost' = lost \cup {p}
      BY <1>2, <1>3, <2>2, Zenon
    <3>2. QED
      BY <3>1, Zenon DEF FInv, Types
  <2>3. QED
    BY <2>1, <2>2, Zenon
<1>5. Types'
  <2>1. "visit" \in Places
    BY Zenon DEF Places
  <2>2. pc' \in [Callers -> Places]
    BY <2>1, Zenon DEF FInv, Types
  <2>3. QED
    BY <1>1, <1>4, <2>2, Zenon DEF FInv, Types
<1>6. Grouped'
  BY Zenon DEF FInv, Grouped, Group, Clients
<1>7. ASSUME NEW e \in Callers PROVE Carries(e)'
  <2>1. \A d \in Callers : pc'[d] # "idle" <=> pc[d] # "idle"
    BY Zenon DEF FInv, Types
  <2>2. Carries(e) /\ Carries(f)
    BY Zenon DEF FInv
  <2>3. pc[e] # "idle" => packet[e] \in Packets
    BY PacketOf, Zenon
  <2>4. pc[e] # "idle" => (received'[packet[e]] # {} => packet[e] \in lost')
    BY <1>2, <1>4, <2>2, <2>3, Zenon DEF Carries
  <2>5. pc[e] = "idle" /\ ret[e] = "ok" /\ packet[e] # 0 => received'[packet[e]] # {}
    <3>1. SUFFICES ASSUME pc[e] = "idle", ret[e] = "ok", packet[e] # 0
                   PROVE  received'[packet[e]] # {}
      BY Zenon
    <3>2. packet[e] \in Packets
      BY <2>2, <3>1, Bound DEF FInv, Types, Carries, Packets
    <3>3. received[packet[e]] # {}
      BY <2>2, <3>1, Zenon DEF Carries
    <3>4. QED
      BY <1>4, <3>2, <3>3, Zenon
  <2>6. QED
    BY <2>1, <2>2, <2>4, <2>5, Zenon DEF Carries
<1>8. ASSUME NEW m \in Packets PROVE Sent(m)'
  <2>1. Sent(m) /\ (m = p => m <= forwards)
    BY <1>2, Zenon DEF FInv, Carries
  <2>2. m > forwards => m # p
    BY <2>1, Bound DEF FInv, Types, Packets
  <2>3. m > forwards => received'[m] = {}
    BY <1>4, <2>1, <2>2, Zenon DEF Sent
  <2>4. m \in lost' \/ \A a, b \in received'[m] : a = b
    BY <1>4, <2>1, Zenon DEF Sent
  <2>5. QED
    BY <2>3, <2>4, Zenon DEF Sent
<1>9. QED
  BY <1>1, <1>5, <1>6, <1>7, <1>8, Zenon DEF FInv

\* The three ways in which an attempt fails.
LEMMA FailKeeps ==
  \A f \in Callers :
    FInv /\ (SkipUnhealthy(f) \/ RequestFailed(f) \/ RequestRefused(f) \/ AnswerLost(f)) => FInv'
<1> SUFFICES ASSUME NEW f \in Callers, FInv,
                    SkipUnhealthy(f) \/ RequestFailed(f) \/ RequestRefused(f) \/ AnswerLost(f)
             PROVE  FInv'
  BY Zenon
<1>1. pc[f] # "idle" /\ NextAttempt(f)
  BY Zenon DEF SkipUnhealthy, RequestFailed, RequestRefused, AnswerLost
<1>2. AttemptsLeft(f)
  <2>1. CASE SkipUnhealthy(f)
    BY <2>1, Zenon DEF SkipUnhealthy
  <2>2. CASE pc[f] = "request"
    BY <2>2, Zenon DEF FInv, Rotates, AttemptsLeft
  <2>3. QED
    BY <2>1, <2>2, Zenon DEF RequestFailed, RequestRefused, AnswerLost
<1>3. pc' = [pc EXCEPT ![f] = "visit"]
  <2>1. CASE SkipUnhealthy(f)
    BY <2>1, Zenon DEF SkipUnhealthy, FInv, Types
  <2>2. CASE RequestFailed(f) \/ RequestRefused(f) \/ AnswerLost(f)
    BY <2>2, Zenon DEF RequestFailed, RequestRefused, AnswerLost
  <2>3. QED
    BY <2>1, <2>2, Zenon
<1>4. UNCHANGED <<groups, next_index, adding, packet, group, start, ret, forwards>>
  BY Zenon DEF SkipUnhealthy, RequestFailed, RequestRefused, AnswerLost, counters
<1>5. \/ UNCHANGED <<received, lost>>
      \/ /\ received' = [received EXCEPT ![packet[f]] = @ \cup {Candidate(f)}]
         /\ lost' = lost \cup {packet[f]}
  BY Zenon DEF SkipUnhealthy, RequestFailed, RequestRefused, AnswerLost
<1>6. QED
  BY <1>1, <1>2, <1>3, <1>4, <1>5, AttemptKeeps, Zenon

\* A request is sent only while attempts are left.
LEMMA SendKeeps == \A f \in Callers : FInv /\ SendRequest(f) => FInv'
<1> SUFFICES ASSUME NEW f \in Callers, FInv, SendRequest(f) PROVE FInv'
  BY Zenon
<1>1. /\ UNCHANGED <<groups, next_index, adding, packet, group, start, attempts, visited, ret,
                     received, lost, forwards>>
      /\ pc' = [pc EXCEPT ![f] = "request"]
      /\ pc[f] = "visit" /\ attempts[f] < Len(Members(f))
  BY Zenon DEF SendRequest, AttemptsLeft, counters
<1>2. Types'
  <2>1. "request" \in Places
    BY Zenon DEF Places
  <2>2. pc' \in [Callers -> Places]
    BY <1>1, <2>1, Zenon DEF FInv, Types
  <2>3. QED
    BY <1>1, <2>2, Zenon DEF FInv, Types
<1>3. Grouped'
  BY <1>1, Zenon DEF FInv, Grouped, Group, Clients
<1>4. ASSUME NEW e \in Callers PROVE Rotates(e)' /\ Carries(e)'
  <2>1. /\ \A d \in Callers : pc'[d] # "idle" <=> pc[d] # "idle"
        /\ pc'[e] = pc[e] \/ e = f
        /\ Rotates(e) /\ Carries(e)
    BY <1>1, Zenon DEF FInv, Types
  <2>2. Rotates(e)'
    BY <1>1, <2>1, Zenon DEF Rotates, Members
  <2>3. Carries(e)'
    BY <1>1, <2>1, Zenon DEF Carries
  <2>4. QED
    BY <2>2, <2>3, Zenon
<1>5. \A m \in Packets : Sent(m)'
  BY <1>1, Zenon DEF FInv, Sent
<1>6. QED
  BY <1>2, <1>3, <1>4, <1>5, Zenon DEF FInv

\* forward returns: Ok after the first node that answered, an error after the last.
LEMMA ReturnKeeps == \A f \in Callers : FInv /\ (RequestOk(f) \/ AllFailed(f)) => FInv'
<1> SUFFICES ASSUME NEW f \in Callers, FInv, RequestOk(f) \/ AllFailed(f) PROVE FInv'
  BY Zenon
<1>1. /\ UNCHANGED <<groups, next_index, adding, packet, lost, forwards>>
      /\ pc' = [pc EXCEPT ![f] = "idle"] /\ group' = [group EXCEPT ![f] = 0]
      /\ start' = [start EXCEPT ![f] = 0] /\ attempts' = [attempts EXCEPT ![f] = 0]
      /\ visited' = [visited EXCEPT ![f] = <<>>]
      /\ pc[f] # "idle"
  BY Zenon DEF RequestOk, AllFailed, Return, counters
<1>2. PICK p \in Packets : p = packet[f]
  BY <1>1, PacketOf, Zenon
<1>3. /\ received' \in [Packets -> SUBSET Nodes]
      /\ \A m \in Packets : m # p => received'[m] = received[m]
      /\ \A m \in Packets : received[m] \subseteq received'[m]
      /\ p \in lost \/ \A a, b \in received'[p] : a = b
      /\ DOMAIN ret' = Callers /\ \A e \in Callers : e # f => ret'[e] = ret[e]
      /\ ret'[f] = "ok" => received'[p] # {}
  <2>1. CASE RequestOk(f)
    <3>1. AttemptsLeft(f)
      BY <2>1, Zenon DEF RequestOk, FInv, Rotates, AttemptsLeft
    <3>2. PICK c \in Nodes : c = Candidate(f)
      BY <1>1, <3>1, CandidateIsNode, Zenon
    <3>3. /\ received' = [received EXCEPT ![p] = received[p] \cup {c}]
          /\ ret' = [ret EXCEPT ![f] = "ok"]
      BY <1>2, <2>1, <3>2, Zenon DEF RequestOk, Return
    <3>4. received[p] # {} => p \in lost
      BY <1>1, <1>2, Zenon DEF FInv, Carries
    <3>5. QED
      BY <3>3, <3>4, Zenon DEF FInv, Types
  <2>2. CASE AllFailed(f)
    <3>1. received' = received /\ ret' = [ret EXCEPT ![f] = "all failed"]
      BY <2>2, Zenon DEF AllFailed, Return
    <3>2. QED
      BY <3>1, Zenon DEF FInv, Types, Sent
  <2>3. QED
    BY <2>1, <2>2, Zenon
<1>4. Types'
  <2>1. "idle" \in Places
    BY Zenon DEF Places
  <2>2. pc' \in [Callers -> Places] /\ DOMAIN group' = Callers
    BY <1>1, <2>1, Zenon DEF FInv, Types
  <2>3. start' \in [Callers -> Nat] /\ attempts' \in [Callers -> Nat] /\ visited' \in [Callers -> Seq(Nodes)]
    BY <1>1 DEF FInv, Types
  <2>4. QED
    BY <1>1, <1>3, <2>2, <2>3, Zenon DEF FInv, Types
<1>5. Grouped'
  BY <1>1, Zenon DEF FInv, Grouped, Group, Clients
<1>6. ASSUME NEW e \in Callers PROVE Rotates(e)'
  <2>1. CASE e = f
    <3>1. pc'[f] = "idle" /\ attempts'[f] = 0 /\ visited'[f] = <<>>
      BY <1>1, Zenon DEF FInv, Types
    <3>2. QED
      BY <2>1, <3>1, Zenon DEF Rotates
  <2>2. CASE e # f
    <3>1. /\ pc'[e] = pc[e] /\ attempts'[e] = attempts[e] /\ visited'[e] = visited[e]
          /\ group'[e] = group[e] /\ start'[e] = start[e] /\ Rotates(e)
      BY <1>1, <2>2, Zenon DEF FInv, Types
    <3>2. QED
      BY <1>1, <3>1, Zenon DEF Rotates, Members
  <2>3. QED
    BY <2>1, <2>2, Zenon
<1>7. ASSUME NEW e \in Callers PROVE Carries(e)'
  <2>1. Carries(e) /\ pc'[f] = "idle" /\ \A d \in Callers : d # f => pc'[d] = pc[d]
    BY <1>1, Zenon DEF FInv, Types
  <2>2. CASE e = f
    BY <1>1, <1>2, <1>3, <2>1, <2>2, Zenon DEF Carries
  <2>3. CASE e # f /\ pc[e] # "idle"
    <3>1. packet[e] # p /\ packet[e] \in Packets
      BY <1>1, <1>2, <2>1, <2>3, PacketOf, Zenon DEF Carries
    <3>2. QED
      BY <1>1, <1>3, <2>1, <2>3, <3>1, Zenon DEF Carries
  <2>4. CASE e # f /\ pc[e] = "idle"
    <3>1. packet[e] # 0 => packet[e] \in Packets
      BY <2>1, Bound DEF FInv, Types, Carries, Packets
    <3>2. ret'[e] = "ok" /\ packet[e] # 0 => received'[packet[e]] # {}
      BY <1>3, <2>1, <2>4, <3>1, Zenon DEF Carries
    <3>3. QED
      BY <1>1, <2>1, <2>4, <3>2, Zenon DEF Carries
  <2>5. QED
    BY <2>2, <2>3, <2>4, Zenon
<1>8. ASSUME NEW m \in Packets PROVE Sent(m)'
  <2>1. Sent(m) /\ (m = p => m <= forwards)
    BY <1>2, Zenon DEF FInv, Carries
  <2>2. m > forwards => m # p
    BY <2>1, Bound DEF FInv, Types, Packets
  <2>3. m > forwards => received'[m] = {}
    BY <1>3, <2>1, <2>2, Zenon DEF Sent
  <2>4. m \in lost \/ \A a, b \in received'[m] : a = b
    BY <1>3, <2>1, Zenon DEF Sent
  <2>5. QED
    BY <1>1, <2>3, <2>4, Zenon DEF Sent
<1>9. QED
  BY <1>4, <1>5, <1>6, <1>7, <1>8, Zenon DEF FInv

\* add_node inserts while no forward runs, a client that no group has yet.
LEMMA AddKeeps == FInv /\ AddNodeCommit => FInv'
<1> SUFFICES ASSUME FInv, AddNodeCommit PROVE FInv'
  BY Zenon
<1>1. PICK n, g : /\ n = adding[1] /\ g = adding[2]
                  /\ groups' = [h \in DOMAIN groups \cup {g} |->
                                  IF h # g THEN groups[h]
                                  ELSE IF g \in DOMAIN groups THEN Append(groups[g], n) ELSE <<n>>]
                  /\ next_index' = [h \in DOMAIN groups \cup {g} |->
                                      IF h \in DOMAIN groups THEN next_index[h] ELSE 0]
  BY Zenon DEF AddNodeCommit
<1>2. /\ UNCHANGED <<pc, packet, group, start, attempts, visited, ret, received, lost, forwards>>
      /\ adding' = <<>>
  BY Zenon DEF AddNodeCommit, locals, counters
<1>3. \A f \in Callers : pc[f] = "idle"
  BY Zenon DEF AddNodeCommit, Readers
<1>4. n \in Nodes /\ n \notin Clients
  BY <1>1, Zenon DEF AddNodeCommit, FInv, Grouped
<1>5. Types'
  BY <1>2, Zenon DEF FInv, Types
<1>6. Grouped'
  <2>1. DOMAIN next_index' = DOMAIN groups'
    BY <1>1, Zenon
  <2>2. ASSUME NEW h \in DOMAIN groups' PROVE Group(h)'
    <3>1. h \in DOMAIN groups => Group(h)
      BY Zenon DEF FInv, Grouped
    <3>2. next_index'[h] \in Nat
      BY <1>1, <2>2, <3>1, Zenon DEF Group
    <3>3. groups'[h] \in Seq(Nodes) /\ Len(groups'[h]) > 0 /\ IsInjective(groups'[h])
      <4>1. CASE h # g
        BY <1>1, <2>2, <3>1, <4>1, Zenon DEF Group
      <4>2. CASE h = g /\ g \notin DOMAIN groups
        <5>1. groups'[h] = <<n>>
          BY <1>1, <4>2, Zenon
        <5>2. <<n>> \in Seq(Nodes) /\ Len(<<n>>) = 1 /\ DOMAIN <<n>> = 1..1
          BY <1>4
        <5>3. IsInjective(<<n>>)
          BY <5>2 DEF IsInjective
        <5>4. QED
          BY <5>1, <5>2, <5>3
      <4>3. CASE h = g /\ g \in DOMAIN groups
        <5>1. PICK s \in Seq(Nodes) : s = groups[g] /\ IsInjective(s)
          BY <3>1, <4>3, Zenon DEF Group
        <5>2. groups'[h] = Append(s, n)
          BY <1>1, <4>3, <5>1, Zenon
        <5>3. /\ Append(s, n) \in Seq(Nodes) /\ Len(Append(s, n)) = Len(s) + 1 /\ Len(s) \in Nat
              /\ DOMAIN Append(s, n) = 1..(Len(s) + 1) /\ DOMAIN s = 1..Len(s)
              /\ \A i \in 1..Len(s) : Append(s, n)[i] = s[i]
              /\ Append(s, n)[Len(s) + 1] = n
          BY <1>4
        <5>4. \A i \in 1..Len(s) : s[i] # n
          BY <1>4, <4>3, <5>1, <5>3, SMTT(30) DEF Clients, Range
        <5>5. \A i \in 1..(Len(s) + 1) : i \in 1..Len(s) \/ i = Len(s) + 1
          BY <5>3
        <5>6. IsInjective(Append(s, n))
          BY <5>1, <5>3, <5>4, <5>5 DEF IsInjective
        <5>7. QED
          BY <5>2, <5>3, <5>6
      <4>4. QED
        BY <4>1, <4>2, <4>3, Zenon
    <3>4. QED
      BY <3>2, <3>3, Zenon DEF Group
  <2>3. QED
    BY <1>2, <2>1, <2>2, Zenon DEF Grouped
<1>7. ASSUME NEW f \in Callers PROVE Rotates(f)' /\ Carries(f)'
  <2>1. pc[f] = "idle" /\ Rotates(f) /\ Carries(f)
    BY <1>3, Zenon DEF FInv
  <2>2. Rotates(f)'
    BY <1>2, <2>1, Zenon DEF Rotates
  <2>3. Carries(f)'
    BY <1>2, <2>1, Zenon DEF Carries
  <2>4. QED
    BY <2>2, <2>3, Zenon
<1>8. \A m \in Packets : Sent(m)'
  BY <1>2, Zenon DEF FInv, Sent
<1>9. QED
  BY <1>5, <1>6, <1>7, <1>8, Zenon DEF FInv

\* Initially the groups are configured and nothing runs.
LEMMA InitHolds == Init => FInv
<1> SUFFICES ASSUME Init PROVE FInv
  BY Zenon
<1>1. Types
  <2>1. "idle" \in Places
    BY Zenon DEF Places
  <2>2. pc \in [Callers -> Places] /\ DOMAIN group = Callers /\ DOMAIN ret = Callers
    BY <2>1, Zenon DEF Init
  <2>3. /\ forwards \in Nat /\ forwards <= MaxForwards /\ packet \in [Callers -> Nat]
        /\ start \in [Callers -> Nat] /\ attempts \in [Callers -> Nat]
    BY Bound DEF Init
  <2>4. visited \in [Callers -> Seq(Nodes)] /\ received \in [Packets -> SUBSET Nodes]
    BY DEF Init
  <2>5. QED
    BY <2>2, <2>3, <2>4, Zenon DEF Types
<1>2. Grouped
  <2>1. /\ groups \in Configs /\ next_index = [g \in DOMAIN groups |-> 0] /\ adding = <<>>
    BY Zenon DEF Init
  <2>2. ASSUME NEW g \in DOMAIN groups PROVE Group(g)
    <3>1. groups[g] \in Seq(Nodes) /\ groups[g] # <<>> /\ IsInjective(groups[g])
      BY <2>1, PoolAssumption, Zenon
    <3>2. Len(groups[g]) > 0
      BY <3>1
    <3>3. QED
      BY <2>1, <3>1, <3>2, Zenon DEF Group
  <2>3. QED
    BY <2>1, <2>2, Zenon DEF Grouped
<1>3. ASSUME NEW f \in Callers PROVE Rotates(f) /\ Carries(f)
  <2>1. pc[f] = "idle" /\ attempts[f] = 0 /\ visited[f] = <<>> /\ packet[f] = 0 /\ forwards = 0
    BY Zenon DEF Init
  <2>2. QED
    BY <2>1 DEF Rotates, Carries
<1>4. \A m \in Packets : Sent(m)
  BY Zenon DEF Init, Sent
<1>5. QED
  BY <1>1, <1>2, <1>3, <1>4, Zenon DEF FInv

\* Every step keeps the invariant.
LEMMA StepKeeps == FInv /\ [Next]_vars => FInv'
<1> SUFFICES ASSUME FInv, [Next]_vars PROVE FInv'
  BY Zenon
<1>1. ASSUME NEW f \in Callers, NEW g \in Requested, ForwardBegin(f, g) \/ ForwardNoGroup(f, g)
      PROVE  FInv'
  BY <1>1, BeginKeeps, Zenon
<1>2. ASSUME NEW f \in Callers, ForwardStep(f) \/ AnswerLost(f) \/ RequestRefused(f) PROVE FInv'
  BY <1>2, FailKeeps, SendKeeps, ReturnKeeps, Zenon DEF ForwardStep
<1>3. CASE HealthTick
  BY <1>3, QuietKeeps, Zenon DEF HealthTick
<1>4. ASSUME NEW n \in Nodes,
             \/ HealthCheck(n) \/ StreamConnect(n) \/ StreamEnd(n) \/ StreamFail(n)
             \/ NodeDown(n) \/ NodeUp(n)
      PROVE  FInv'
  BY <1>4, QuietKeeps, Zenon DEF HealthCheck, StreamConnect, StreamEnd, StreamFail, NodeDown, NodeUp, counters
<1>5. CASE AddNodeCommit
  BY <1>5, AddKeeps, Zenon
<1>6. ASSUME NEW n \in Nodes, NEW g \in Requested, AddNodeRequest(n, g) PROVE FInv'
  <2>1. /\ UNCHANGED <<groups, next_index, locals, received, lost, forwards>>
        /\ adding' = <<n, g>> /\ n \notin Clients
    BY <1>6, Zenon DEF AddNodeRequest, counters
  <2>2. adding'[1] \in Nodes \ Clients
    BY <2>1, Zenon
  <2>3. QED
    BY <2>1, <2>2, QuietKeeps, Zenon
<1>7. CASE UNCHANGED vars
  BY <1>7, QuietKeeps, Zenon DEF vars, counters
<1>8. QED
  BY <1>1, <1>2, <1>3, <1>4, <1>5, <1>6, <1>7, Zenon DEF Next, Pool, Environment

\* The invariant holds throughout.
LEMMA Inductive == Spec => []FInv
BY InitHolds, StepKeeps, PTL DEF Spec

-----------------------------------------------------------------------------
(***************************************************************************)
(* The theorems                                                            *)
(***************************************************************************)

\* Whatever the group, the place where the rotation starts, the nodes that
\* fail meanwhile and the other forwards: forward reports that all nodes
\* failed only after visiting each client of its group exactly once, and
\* returns Ok only for a packet some node received.
THEOREM EveryNodeTriedOnce == Spec => []TriesEveryNodeOnce
<1>1. FInv => TriesEveryNodeOnce
  <2> SUFFICES ASSUME FInv, NEW f \in Callers
               PROVE  /\ pc[f] # "idle" => IsInjective(visited[f])
                      /\ pc[f] = "idle" /\ ret[f] = "ok" /\ packet[f] # 0 => received[packet[f]] # {}
                      /\ pc[f] = "visit" /\ ~AttemptsLeft(f) => Range(visited[f]) = Range(Members(f))
    BY Zenon DEF TriesEveryNodeOnce
  <2>1. pc[f] # "idle" => IsInjective(visited[f])
    BY VisitedSoFar, Zenon
  <2>2. pc[f] = "idle" /\ ret[f] = "ok" /\ packet[f] # 0 => received[packet[f]] # {}
    BY Zenon DEF FInv, Carries
  <2>3. ASSUME pc[f] = "visit", ~AttemptsLeft(f) PROVE Range(visited[f]) = Range(Members(f))
    <3>1. /\ attempts[f] \in Nat /\ Len(Members(f)) \in Nat
          /\ attempts[f] <= Len(Members(f)) /\ ~(attempts[f] < Len(Members(f)))
      BY <2>3 DEF FInv, Types, Rotates, AttemptsLeft, Members, Grouped, Group
    <3>2. attempts[f] = Len(Members(f))
      BY <3>1
    <3>3. QED
      BY <2>3, <3>2, VisitedSoFar, Zenon
  <2>4. QED
    BY <2>1, <2>2, <2>3, Zenon
<1>2. QED
  BY <1>1, Inductive, PTL

\* However often forwards fail over: a packet reaches a second exit node only
\* if the answer to a request for it was lost.
THEOREM NeverTwiceUnlessLost == Spec => []TwiceOnlyIfAnswerLost
<1>1. FInv => TwiceOnlyIfAnswerLost
  <2> SUFFICES ASSUME FInv, NEW m \in Packets, m \notin lost
               PROVE  ~(Cardinality(received[m]) > 1)
    BY Zenon DEF TwiceOnlyIfAnswerLost
  <2>1. \A a, b \in received[m] : a = b
    BY Zenon DEF FInv, Sent
  <2>2. CASE received[m] = {}
    BY <2>2, FS_EmptySet
  <2>3. CASE received[m] # {}
    <3>1. PICK a : received[m] = {a}
      BY <2>1, <2>3, Zenon
    <3>2. Cardinality({a}) = 1
      BY FS_Singleton, Zenon
    <3>3. QED
      BY <3>1, <3>2
  <2>4. QED
    BY <2>2, <2>3, Zenon
<1>2. QED
  BY <1>1, Inductive, PTL

=============================================================================
