------------------------ MODULE HandlerSessionProofs ------------------------
(***************************************************************************)
(* Proofs about HandlerSession, for every finite set of sessions, every    *)
(* set of users and any number of frames.                                  *)
(*                                                                         *)
(* None of the properties is inductive.  That a reply is dropped only at   *)
(* the end needs to know that a session in its loop is registered and has  *)
(* a receiver unless its client left, and that no reply exists before the  *)
(* loop; that the channel is drained needs to know that nothing enters it  *)
(* once tx_task is done; that a frame is billed once needs to know that a  *)
(* frame being forwarded was not yet counted.                              *)
(***************************************************************************)
EXTENDS HandlerSession, FiniteSetTheorems, TLAPS

Setup == {"request", "upgrade", "greet", "bind"}
Loop == {"reading", "forwarding"}
Teardown == {"unregister", "await tx", "await dns", "ended"}
Labels == Setup \cup Loop \cup Teardown

Types ==
  /\ pc \in [Sessions -> Labels]
  /\ user \in [Sessions -> Users] /\ client \in [Sessions -> {"connected", "gone"}]
  /\ connections \subseteq Sessions
  /\ tx \in [Sessions -> {"none", "running", "done"}]
  /\ dns \in [Sessions -> {"none", "running", "done"}]
  /\ accepted \in [Sessions -> Nat] /\ sent \in [Sessions -> Nat]
  /\ forwarded \in [Sessions -> Nat] /\ frames \in [Sessions -> Nat]
  /\ replies \in [Sessions -> Nat] /\ dropped \in [Sessions -> Nat]

\* a session in its loop is registered and has a receiver unless its client left
InLoop(s) ==
  /\ pc[s] \in Setup => tx[s] = "none" /\ replies[s] = 0 /\ dropped[s] = 0
  /\ pc[s] \in Loop \cup {"bind"} => s \in connections
  /\ pc[s] \in Loop => tx[s] # "none" /\ (tx[s] = "done" => client[s] = "gone")

\* a frame being forwarded is not yet among those forwarded
Counted(s) ==
  /\ forwarded[s] <= frames[s] /\ frames[s] <= MaxFrames
  /\ pc[s] = "forwarding" => forwarded[s] < frames[s]

\* DroppedOnlyAtEnd and ChannelDrained, of one session
Delivered(s) ==
  /\ dropped[s] > 0 => client[s] = "gone" \/ pc[s] \in Teardown
  /\ tx[s] = "done" /\ client[s] = "connected" => sent[s] = accepted[s]

Good(s) == InLoop(s) /\ Counted(s) /\ Delivered(s)
SInv == Types /\ \A s \in Sessions : Good(s)

\* usage is counted in whole frames
Amounts ==
  /\ usage \in [Users -> Nat] /\ batch \in [Users -> Nat] /\ billed \in [Users -> Nat]
  /\ unbilled \in [Users -> Nat] /\ others \in [Users -> Nat]

BInv == SInv /\ Amounts /\ BilledOnce

-----------------------------------------------------------------------------
(***************************************************************************)
(* The sessions                                                            *)
(***************************************************************************)

\* The bound on the frames is a number.
LEMMA Bounds == MaxFrames \in Nat
BY SessionAssumption, Zenon

\* The labels of a session task, and the phases they belong to.
LEMMA Phases ==
  /\ \A l \in Setup \cup Loop \cup Teardown : l \in Labels
  /\ "request" \in Setup /\ "upgrade" \in Setup /\ "greet" \in Setup /\ "bind" \in Setup
  /\ "reading" \in Loop /\ "forwarding" \in Loop
  /\ "unregister" \in Teardown /\ "await tx" \in Teardown /\ "await dns" \in Teardown
  /\ "ended" \in Teardown
  /\ \A l \in Setup : l \notin Loop /\ l \notin Teardown /\ l # "forwarding"
  /\ \A l \in Loop : l \notin Teardown /\ l # "bind"
  /\ \A l \in Teardown : l # "forwarding" /\ l # "bind"
BY Zenon DEF Labels, Setup, Loop, Teardown

\* Set-up of a session.
LEMMA SetupKeeps ==
  \A t \in Sessions : SInv /\
     ( Reject(t) \/ Admit(t)
       \/ UpgradeFails(t) \/ Upgrade(t) \/ GreetFails(t) \/ Greet(t) \/ BindFails(t) \/ Bind(t) )
     => SInv'
<1> USE DEF tasks, traffic
<1>1. ASSUME NEW t \in Sessions, Types, \A s \in Sessions : Good(s), UpgradeFails(t)
      PROVE  SInv'
  <2>1. Types'
    BY <1>1, Phases, Zenon DEF UpgradeFails, Types
  <2>2. ASSUME NEW s \in Sessions, s # t
        PROVE  Good(s)'
    BY <1>1, <2>2, Zenon DEF UpgradeFails, Types, Good, InLoop, Counted, Delivered
  <2>3. Good(t)'
    BY <1>1, Phases, Zenon DEF UpgradeFails, Types, Good, InLoop, Counted, Delivered
  <2>4. QED
    BY <2>1, <2>2, <2>3, Zenon DEF SInv
<1>2. ASSUME NEW t \in Sessions, Types, \A s \in Sessions : Good(s), Upgrade(t)
      PROVE  SInv'
  <2>1. Types'
    BY <1>2, Phases, Zenon DEF Upgrade, Types
  <2>2. ASSUME NEW s \in Sessions, s # t
        PROVE  Good(s)'
    BY <1>2, <2>2, Zenon DEF Upgrade, Types, Good, InLoop, Counted, Delivered
  <2>3. Good(t)'
    BY <1>2, Phases, Zenon DEF Upgrade, Types, Good, InLoop, Counted, Delivered
  <2>4. QED
    BY <2>1, <2>2, <2>3, Zenon DEF SInv
<1>3. ASSUME NEW t \in Sessions, Types, \A s \in Sessions : Good(s), GreetFails(t)
      PROVE  SInv'
  <2>1. Types'
    BY <1>3, Phases, Zenon DEF GreetFails, Types
  <2>2. ASSUME NEW s \in Sessions, s # t
        PROVE  Good(s)'
    BY <1>3, <2>2, Zenon DEF GreetFails, Types, Good, InLoop, Counted, Delivered
  <2>3. Good(t)'
    BY <1>3, Phases, Zenon DEF GreetFails, Types, Good, InLoop, Counted, Delivered
  <2>4. QED
    BY <2>1, <2>2, <2>3, Zenon DEF SInv
<1>4. ASSUME NEW t \in Sessions, Types, \A s \in Sessions : Good(s), Greet(t)
      PROVE  SInv'
  <2>1. Types'
    BY <1>4, Phases, Zenon DEF Greet, Types
  <2>2. ASSUME NEW s \in Sessions, s # t
        PROVE  Good(s)'
    BY <1>4, <2>2, Zenon DEF Greet, Types, Good, InLoop, Counted, Delivered
  <2>3. Good(t)'
    BY <1>4, Phases, Zenon DEF Greet, Types, Good, InLoop, Counted, Delivered
  <2>4. QED
    BY <2>1, <2>2, <2>3, Zenon DEF SInv
<1>5. ASSUME NEW t \in Sessions, Types, \A s \in Sessions : Good(s), BindFails(t)
      PROVE  SInv'
  <2>1. Types'
    BY <1>5, Phases, Zenon DEF BindFails, Types
  <2>2. ASSUME NEW s \in Sessions, s # t
        PROVE  Good(s)'
    BY <1>5, <2>2, Zenon DEF BindFails, Types, Good, InLoop, Counted, Delivered
  <2>3. Good(t)'
    BY <1>5, Phases, Zenon DEF BindFails, Types, Good, InLoop, Counted, Delivered
  <2>4. QED
    BY <2>1, <2>2, <2>3, Zenon DEF SInv
<1>6. ASSUME NEW t \in Sessions, Types, \A s \in Sessions : Good(s), Bind(t)
      PROVE  SInv'
  <2>1. Types'
    BY <1>6, Phases, Zenon DEF Bind, Types
  <2>2. ASSUME NEW s \in Sessions, s # t
        PROVE  Good(s)'
    BY <1>6, <2>2, Zenon DEF Bind, Types, Good, InLoop, Counted, Delivered
  <2>3. Good(t)'
    BY <1>6, Phases, Zenon DEF Bind, Types, Good, InLoop, Counted, Delivered
  <2>4. QED
    BY <2>1, <2>2, <2>3, Zenon DEF SInv
<1>7. ASSUME NEW t \in Sessions, Types, \A s \in Sessions : Good(s), Reject(t)
      PROVE  SInv'
  <2>1. Types'
    BY <1>7, Phases, Zenon DEF Reject, Types
  <2>2. ASSUME NEW s \in Sessions, s # t
        PROVE  Good(s)'
    BY <1>7, <2>2, Zenon DEF Reject, Types, Good, InLoop, Counted, Delivered
  <2>3. Good(t)'
    BY <1>7, Phases, Zenon DEF Reject, Types, Good, InLoop, Counted, Delivered
  <2>4. QED
    BY <2>1, <2>2, <2>3, Zenon DEF SInv
<1>8. ASSUME NEW t \in Sessions, Types, \A s \in Sessions : Good(s), Admit(t)
      PROVE  SInv'
  <2>1. Types'
    BY <1>8, Phases, Zenon DEF Admit, Types
  <2>2. ASSUME NEW s \in Sessions, s # t
        PROVE  Good(s)'
    BY <1>8, <2>2, Zenon DEF Admit, Types, Good, InLoop, Counted, Delivered
  <2>3. Good(t)'
    BY <1>8, Phases, Zenon DEF Admit, Types, Good, InLoop, Counted, Delivered
  <2>4. QED
    BY <2>1, <2>2, <2>3, Zenon DEF SInv
<1>9. QED
  BY <1>1, <1>2, <1>3, <1>4, <1>5, <1>6, <1>7, <1>8, Zenon DEF SInv

\* The loop over the client's frames.
LEMMA LoopKeeps ==
  \A t \in Sessions : SInv /\
     ( RxData(t) \/ ForwardOk(t) \/ ForwardFails(t) \/ RxQuery(t) \/ RxEnd(t) )
     => SInv'
<1> USE Bounds DEF tasks, traffic
<1>1. ASSUME NEW t \in Sessions, Types, \A s \in Sessions : Good(s), RxData(t)
      PROVE  SInv'
  <2>1. Types'
    <3>1. pc' \in [Sessions -> Labels]
      BY <1>1, Phases, Zenon DEF RxData, Types
    <3>2. frames' \in [Sessions -> Nat] /\ replies' \in [Sessions -> Nat]
      BY <1>1 DEF RxData, Types
    <3>3. QED
      BY <1>1, <3>1, <3>2, Zenon DEF RxData, Types
  <2>2. ASSUME NEW s \in Sessions, s # t
        PROVE  Good(s)'
    BY <1>1, <2>2, Zenon DEF RxData, Types, Good, InLoop, Counted, Delivered
  <2>3. Good(t)'
    <3>1. /\ pc[t] = "reading" /\ pc'[t] = "forwarding"
          /\ frames[t] < MaxFrames /\ frames'[t] = frames[t] + 1 /\ forwarded'[t] = forwarded[t]
          /\ frames[t] \in Nat /\ forwarded[t] \in Nat /\ Counted(t)
      BY <1>1, Zenon DEF RxData, Types, Good
    <3>2. Counted(t)'
      BY <3>1 DEF Counted
    <3>3. InLoop(t)' /\ Delivered(t)'
      BY <1>1, <3>1, Phases, Zenon DEF RxData, Good, InLoop, Delivered
    <3>4. QED
      BY <3>2, <3>3, Zenon DEF Good
  <2>4. QED
    BY <2>1, <2>2, <2>3, Zenon DEF SInv
<1>2. ASSUME NEW t \in Sessions, Types, \A s \in Sessions : Good(s), ForwardOk(t)
      PROVE  SInv'
  <2>1. Types'
    <3>1. pc' \in [Sessions -> Labels]
      BY <1>2, Phases, Zenon DEF ForwardOk, Types
    <3>2. forwarded' \in [Sessions -> Nat]
      BY <1>2 DEF ForwardOk, Types
    <3>3. QED
      BY <1>2, <3>1, <3>2, Zenon DEF ForwardOk, Types
  <2>2. ASSUME NEW s \in Sessions, s # t
        PROVE  Good(s)'
    BY <1>2, <2>2, Zenon DEF ForwardOk, Types, Good, InLoop, Counted, Delivered
  <2>3. Good(t)'
    <3>1. /\ pc[t] = "forwarding" /\ pc'[t] = "reading"
          /\ frames'[t] = frames[t] /\ forwarded'[t] = forwarded[t] + 1
          /\ frames[t] \in Nat /\ forwarded[t] \in Nat /\ Counted(t)
      BY <1>2, Zenon DEF ForwardOk, Types, Good
    <3>2. Counted(t)'
      BY <3>1 DEF Counted
    <3>3. InLoop(t)' /\ Delivered(t)'
      BY <1>2, <3>1, Phases, Zenon DEF ForwardOk, Good, InLoop, Delivered
    <3>4. QED
      BY <3>2, <3>3, Zenon DEF Good
  <2>4. QED
    BY <2>1, <2>2, <2>3, Zenon DEF SInv
<1>3. ASSUME NEW t \in Sessions, Types, \A s \in Sessions : Good(s), ForwardFails(t)
      PROVE  SInv'
  <2>1. Types'
    BY <1>3, Phases, Zenon DEF ForwardFails, Types
  <2>2. ASSUME NEW s \in Sessions, s # t
        PROVE  Good(s)'
    BY <1>3, <2>2, Zenon DEF ForwardFails, Types, Good, InLoop, Counted, Delivered
  <2>3. Good(t)'
    BY <1>3, Phases, Zenon DEF ForwardFails, Types, Good, InLoop, Counted, Delivered
  <2>4. QED
    BY <2>1, <2>2, <2>3, Zenon DEF SInv
<1>4. ASSUME NEW t \in Sessions, Types, \A s \in Sessions : Good(s), RxQuery(t)
      PROVE  SInv'
  <2>1. Types'
    BY <1>4, Zenon DEF RxQuery, Types
  <2>2. ASSUME NEW s \in Sessions, s # t
        PROVE  Good(s)'
    BY <1>4, <2>2, Zenon DEF RxQuery, Types, Good, InLoop, Counted, Delivered
  <2>3. Good(t)'
    BY <1>4, Zenon DEF RxQuery, Types, Good, InLoop, Counted, Delivered
  <2>4. QED
    BY <2>1, <2>2, <2>3, Zenon DEF SInv
<1>5. ASSUME NEW t \in Sessions, Types, \A s \in Sessions : Good(s), RxEnd(t)
      PROVE  SInv'
  <2>1. Types'
    BY <1>5, Phases, Zenon DEF RxEnd, Types
  <2>2. ASSUME NEW s \in Sessions, s # t
        PROVE  Good(s)'
    BY <1>5, <2>2, Zenon DEF RxEnd, Types, Good, InLoop, Counted, Delivered
  <2>3. Good(t)'
    BY <1>5, Phases, Zenon DEF RxEnd, Types, Good, InLoop, Counted, Delivered
  <2>4. QED
    BY <2>1, <2>2, <2>3, Zenon DEF SInv
<1>6. QED
  BY <1>1, <1>2, <1>3, <1>4, <1>5, Zenon DEF SInv

\* Teardown, and the client leaving.
LEMMA TeardownKeeps ==
  \A t \in Sessions : SInv /\
     ( Unregister(t) \/ AwaitTx(t) \/ AwaitDns(t) \/ ClientLeaves(t) )
     => SInv'
<1> USE DEF tasks, traffic
<1>1. ASSUME NEW t \in Sessions, Types, \A s \in Sessions : Good(s), Unregister(t)
      PROVE  SInv'
  <2>1. Types'
    BY <1>1, Phases, Zenon DEF Unregister, Types
  <2>2. ASSUME NEW s \in Sessions, s # t
        PROVE  Good(s)'
    BY <1>1, <2>2, Zenon DEF Unregister, Types, Good, InLoop, Counted, Delivered
  <2>3. Good(t)'
    BY <1>1, Phases, Zenon DEF Unregister, Types, Good, InLoop, Counted, Delivered
  <2>4. QED
    BY <2>1, <2>2, <2>3, Zenon DEF SInv
<1>2. ASSUME NEW t \in Sessions, Types, \A s \in Sessions : Good(s), AwaitTx(t)
      PROVE  SInv'
  <2>1. Types'
    BY <1>2, Phases, Zenon DEF AwaitTx, Types
  <2>2. ASSUME NEW s \in Sessions, s # t
        PROVE  Good(s)'
    BY <1>2, <2>2, Zenon DEF AwaitTx, Types, Good, InLoop, Counted, Delivered
  <2>3. Good(t)'
    BY <1>2, Phases, Zenon DEF AwaitTx, Types, Good, InLoop, Counted, Delivered
  <2>4. QED
    BY <2>1, <2>2, <2>3, Zenon DEF SInv
<1>3. ASSUME NEW t \in Sessions, Types, \A s \in Sessions : Good(s), AwaitDns(t)
      PROVE  SInv'
  <2>1. Types'
    BY <1>3, Phases, Zenon DEF AwaitDns, Types
  <2>2. ASSUME NEW s \in Sessions, s # t
        PROVE  Good(s)'
    BY <1>3, <2>2, Zenon DEF AwaitDns, Types, Good, InLoop, Counted, Delivered
  <2>3. Good(t)'
    BY <1>3, Phases, Zenon DEF AwaitDns, Types, Good, InLoop, Counted, Delivered
  <2>4. QED
    BY <2>1, <2>2, <2>3, Zenon DEF SInv
<1>4. ASSUME NEW t \in Sessions, Types, \A s \in Sessions : Good(s), ClientLeaves(t)
      PROVE  SInv'
  <2>1. Types'
    BY <1>4, Zenon DEF ClientLeaves, Types
  <2>2. ASSUME NEW s \in Sessions, s # t
        PROVE  Good(s)'
    BY <1>4, <2>2, Zenon DEF ClientLeaves, Types, Good, InLoop, Counted, Delivered
  <2>3. Good(t)'
    BY <1>4, Zenon DEF ClientLeaves, Types, Good, InLoop, Counted, Delivered
  <2>4. QED
    BY <2>1, <2>2, <2>3, Zenon DEF SInv
<1>5. QED
  BY <1>1, <1>2, <1>3, <1>4, Zenon DEF SInv

\* Replies, DNS answers and tx_task: what enters and leaves the channel.
LEMMA ChannelKeeps ==
  \A t \in Sessions : SInv /\
     ( Dispatch(t) \/ DnsAnswer(t) \/ DnsRecvFails(t) \/ TxSend(t) \/ TxFails(t) \/ TxEnd(t) )
     => SInv'
<1> USE DEF tasks, traffic
<1>1. ASSUME NEW t \in Sessions, Types, \A s \in Sessions : Good(s), Dispatch(t)
      PROVE  SInv'
  <2>1. Types'
    BY <1>1 DEF Dispatch, Types
  <2>2. ASSUME NEW s \in Sessions, s # t
        PROVE  Good(s)'
    BY <1>1, <2>2, Zenon DEF Dispatch, Types, Good, InLoop, Counted, Delivered
  <2>3. Good(t)'
    <3>1. /\ UNCHANGED <<pc, client, connections, tx, sent, forwarded, frames>>
          /\ replies[t] > 0 /\ replies[t] \in Nat /\ replies'[t] = replies[t] - 1
          /\ dropped[t] \in Nat /\ InLoop(t) /\ Counted(t) /\ Delivered(t)
      BY <1>1, Zenon DEF Dispatch, Types, Good
    <3>2. pc[t] \notin Setup /\ replies[t] # 0
      BY <3>1 DEF InLoop
    <3>3. InLoop(t)' /\ Counted(t)'
      BY <3>1, <3>2, Zenon DEF InLoop, Counted
    <3>4. CASE t \in connections /\ ReceiverAlive(t)
      <4>1. dropped'[t] = dropped[t] /\ tx[t] # "done"
        BY <1>1, <3>2, <3>4, Phases, Zenon DEF Dispatch, ReceiverAlive
      <4>2. QED
        BY <3>1, <3>3, <4>1, Zenon DEF Good, Delivered
    <3>5. CASE ~(t \in connections /\ ReceiverAlive(t))
      <4>1. accepted'[t] = accepted[t]
        BY <1>1, <3>5, Zenon DEF Dispatch
      <4>2. pc[t] \in Loop => client[t] = "gone"
        BY <1>1, <3>1, <3>5, Zenon DEF InLoop, ReceiverAlive, Types
      <4>3. pc[t] \in Loop \/ pc[t] \in Teardown
        BY <1>1, <3>2, Zenon DEF Types, Labels
      <4>4. QED
        BY <3>1, <3>3, <4>1, <4>2, <4>3, Zenon DEF Good, Delivered
    <3>6. QED
      BY <3>4, <3>5, Zenon
  <2>4. QED
    BY <2>1, <2>2, <2>3, Zenon DEF SInv
<1>2. ASSUME NEW t \in Sessions, Types, \A s \in Sessions : Good(s), DnsAnswer(t)
      PROVE  SInv'
  <2>1. Types'
    BY <1>2 DEF DnsAnswer, Types
  <2>2. ASSUME NEW s \in Sessions, s # t
        PROVE  Good(s)'
    BY <1>2, <2>2, Zenon DEF DnsAnswer, Types, Good, InLoop, Counted, Delivered
  <2>3. Good(t)'
    <3>1. /\ UNCHANGED <<pc, client, connections, tx, sent, forwarded, frames, replies, dropped>>
          /\ accepted'[t] = IF ReceiverAlive(t) THEN accepted[t] + 1 ELSE accepted[t]
          /\ InLoop(t) /\ Counted(t) /\ Delivered(t)
      BY <1>2, Zenon DEF DnsAnswer, Types, Good
    <3>2. ReceiverAlive(t) => tx[t] # "done"
      BY <3>1, Phases, Zenon DEF ReceiverAlive, InLoop
    <3>3. QED
      BY <3>1, <3>2, Zenon DEF Good, InLoop, Counted, Delivered
  <2>4. QED
    BY <2>1, <2>2, <2>3, Zenon DEF SInv
<1>3. ASSUME NEW t \in Sessions, Types, \A s \in Sessions : Good(s), DnsRecvFails(t)
      PROVE  SInv'
  <2>1. Types'
    BY <1>3, Zenon DEF DnsRecvFails, Types
  <2>2. ASSUME NEW s \in Sessions, s # t
        PROVE  Good(s)'
    BY <1>3, <2>2, Zenon DEF DnsRecvFails, Types, Good, InLoop, Counted, Delivered
  <2>3. Good(t)'
    BY <1>3, Zenon DEF DnsRecvFails, Types, Good, InLoop, Counted, Delivered
  <2>4. QED
    BY <2>1, <2>2, <2>3, Zenon DEF SInv
<1>4. ASSUME NEW t \in Sessions, Types, \A s \in Sessions : Good(s), TxSend(t)
      PROVE  SInv'
  <2>1. Types'
    BY <1>4 DEF TxSend, Types
  <2>2. ASSUME NEW s \in Sessions, s # t
        PROVE  Good(s)'
    BY <1>4, <2>2, Zenon DEF TxSend, Types, Good, InLoop, Counted, Delivered
  <2>3. Good(t)'
    BY <1>4, Zenon DEF TxSend, Types, Good, InLoop, Counted, Delivered
  <2>4. QED
    BY <2>1, <2>2, <2>3, Zenon DEF SInv
<1>5. ASSUME NEW t \in Sessions, Types, \A s \in Sessions : Good(s), TxFails(t)
      PROVE  SInv'
  <2>1. Types'
    BY <1>5, Zenon DEF TxFails, Types
  <2>2. ASSUME NEW s \in Sessions, s # t
        PROVE  Good(s)'
    BY <1>5, <2>2, Zenon DEF TxFails, Types, Good, InLoop, Counted, Delivered
  <2>3. Good(t)'
    BY <1>5, Zenon DEF TxFails, Types, Good, InLoop, Counted, Delivered
  <2>4. QED
    BY <2>1, <2>2, <2>3, Zenon DEF SInv
<1>6. ASSUME NEW t \in Sessions, Types, \A s \in Sessions : Good(s), TxEnd(t)
      PROVE  SInv'
  <2>1. Types'
    BY <1>6, Zenon DEF TxEnd, Types
  <2>2. ASSUME NEW s \in Sessions, s # t
        PROVE  Good(s)'
    BY <1>6, <2>2, Zenon DEF TxEnd, Types, Good, InLoop, Counted, Delivered
  <2>3. Good(t)'
    BY <1>6, Zenon DEF TxEnd, SendersGone, Types, Good, InLoop, Counted, Delivered
  <2>4. QED
    BY <2>1, <2>2, <2>3, Zenon DEF SInv
<1>7. QED
  BY <1>1, <1>2, <1>3, <1>4, <1>5, <1>6, Zenon DEF SInv

\* Every step keeps what SInv says of the sessions.
LEMMA SessionsStep == SInv /\ [Next]_vars => SInv'
<1> SUFFICES ASSUME SInv, [Next]_vars PROVE SInv'
  BY Zenon
<1>1. CASE UNCHANGED <<tasks, traffic>>
  BY <1>1, Zenon DEF tasks, traffic, SInv, Types, Good, InLoop, Counted, Delivered
<1>2. CASE \E s \in Sessions : SessionStep(s) \/ TxStep(s) \/ PeerStep(s)
  BY <1>2, SetupKeeps, LoopKeeps, TeardownKeeps, ChannelKeeps, Zenon DEF SessionStep, TxStep, PeerStep
<1>3. CASE BillingStep \/ \E u \in Users : OtherForwardOk(u)
  BY <1>1, <1>3, Zenon DEF BillingStep, OtherForwardOk
<1>4. QED
  BY <1>1, <1>2, <1>3, Zenon DEF Next, vars

\* SInv holds at first.
LEMMA SessionsInit == Init => SInv
<1> SUFFICES ASSUME Init PROVE SInv
  BY Zenon
<1>1. Types
  BY Phases, Zenon DEF Init, None, Types
<1>2. ASSUME NEW s \in Sessions PROVE Good(s)
  <2>1. /\ pc[s] = "request" /\ tx[s] = "none" /\ replies[s] = 0 /\ dropped[s] = 0
        /\ frames[s] = 0 /\ forwarded[s] = 0
    BY Zenon DEF Init, None
  <2>2. pc[s] \notin Loop /\ pc[s] # "bind" /\ pc[s] # "forwarding"
    BY <2>1, Zenon DEF Loop
  <2>3. InLoop(s)
    BY <2>1, <2>2, Zenon DEF InLoop
  <2>4. Counted(s)
    BY <2>1, <2>2, Bounds DEF Counted
  <2>5. Delivered(s)
    BY <2>1 DEF Delivered
  <2>6. QED
    BY <2>3, <2>4, <2>5, Zenon DEF Good
<1>3. QED
  BY <1>1, <1>2, Zenon DEF SInv

\* SInv is inductive.
LEMMA SessionsInductive == Spec => []SInv
BY SessionsInit, SessionsStep, PTL DEF Spec

\* A reply is dropped only if its client left or its session is being torn
\* down, for any number of sessions (ConnectionRegistry::dispatch).
THEOREM RepliesDroppedOnlyAtEnd == Spec => []DroppedOnlyAtEnd
<1>1. SInv => DroppedOnlyAtEnd
  BY Zenon DEF SInv, Good, Delivered, DroppedOnlyAtEnd, Teardown
<1>2. QED
  BY <1>1, SessionsInductive, PTL

\* While its client is connected, a session's tx_task ends only when everything
\* that entered the channel was sent (tx_task, handle_ws).
THEOREM ChannelAlwaysDrained == Spec => []ChannelDrained
<1>1. SInv => ChannelDrained
  BY Zenon DEF SInv, Good, Delivered, ChannelDrained
<1>2. QED
  BY <1>1, SessionsInductive, PTL

-----------------------------------------------------------------------------
(***************************************************************************)
(* The billing                                                             *)
(***************************************************************************)

\* The frames forwarded for a user are finitely many.
LEMMA ForwardedFinite ==
  \A u \in Users : IsFiniteSet(ForwardedFor(u)) /\ Cardinality(ForwardedFor(u)) \in Nat
<1> TAKE u \in Users
<1>1. IsFiniteSet(Sessions \X (1 .. MaxFrames))
  <2>1. IsFiniteSet(1 .. MaxFrames)
    BY Bounds, FS_Interval
  <2>2. IsFiniteSet(Sessions)
    BY SessionAssumption, Zenon
  <2>3. QED
    BY <2>1, <2>2, FS_Product, Zenon
<1>2. ForwardedFor(u) \subseteq Sessions \X (1 .. MaxFrames)
  BY Zenon DEF ForwardedFor
<1>3. IsFiniteSet(ForwardedFor(u))
  BY <1>1, <1>2, FS_Subset, Zenon
<1>4. QED
  BY <1>3, FS_CardinalityType, Zenon

\* Nothing is forwarded at first.
LEMMA NoneForwarded == Init => \A u \in Users : Cardinality(ForwardedFor(u)) = 0
<1> SUFFICES ASSUME Init, NEW u \in Users PROVE Cardinality(ForwardedFor(u)) = 0
  BY Zenon
<1>1. \A s \in Sessions : forwarded[s] = 0
  BY Zenon DEF Init, None
<1>2. \A n \in 1 .. MaxFrames : ~(n <= 0)
  BY Bounds
<1>3. ForwardedFor(u) = {}
  BY <1>1, <1>2, Zenon DEF ForwardedFor
<1>4. QED
  BY <1>3, FS_EmptySet, Zenon

\* A forward that returned Ok adds one frame, of the user of its session.
LEMMA OneMoreForwarded ==
  ASSUME SInv, NEW s \in Sessions, ForwardOk(s), NEW u \in Users
  PROVE  Cardinality(ForwardedFor(u))' =
           IF u = user[s] THEN Cardinality(ForwardedFor(u)) + 1
                          ELSE Cardinality(ForwardedFor(u))
<1> DEFINE x == <<s, forwarded[s] + 1>>
<1>1. /\ forwarded \in [Sessions -> Nat] /\ forwarded[s] \in Nat
      /\ forwarded[s] + 1 \in 1 .. MaxFrames
  BY Bounds DEF ForwardOk, SInv, Types, Good, Counted
<1>2. user' = user /\ forwarded' = [forwarded EXCEPT ![s] = @ + 1]
  BY Zenon DEF ForwardOk
<1>3. \A t \in Sessions : t # s => forwarded'[t] = forwarded[t]
  BY <1>1, <1>2, Zenon
<1>4. forwarded'[s] = forwarded[s] + 1
  BY <1>1, <1>2, Zenon
<1>5. CASE u = user[s]
  <2>1. \A y \in Sessions \X (1 .. MaxFrames) :
          y \in ForwardedFor(u)' <=> y \in ForwardedFor(u) \/ y = x
    <3> SUFFICES ASSUME NEW t \in Sessions, NEW n \in 1 .. MaxFrames
                 PROVE  user[t] = u /\ n <= forwarded'[t] <=>
                          (user[t] = u /\ n <= forwarded[t]) \/ <<t, n>> = x
      BY <1>2 DEF ForwardedFor
    <3>1. CASE t = s
      BY <3>1, <1>1, <1>4, <1>5
    <3>2. CASE t # s
      BY <3>2, <1>3, Zenon
    <3>3. QED
      BY <3>1, <3>2, Zenon
  <2>2. x \in Sessions \X (1 .. MaxFrames) /\ x \notin ForwardedFor(u)
    BY <1>1 DEF ForwardedFor
  <2>3. ForwardedFor(u)' = ForwardedFor(u) \cup {x}
    BY <2>1, <2>2, Zenon DEF ForwardedFor
  <2>4. QED
    BY <1>5, <2>2, <2>3, ForwardedFinite, FS_AddElement, Zenon
<1>6. CASE u # user[s]
  <2>1. ForwardedFor(u)' = ForwardedFor(u)
    BY <1>2, <1>3, <1>6, Zenon DEF ForwardedFor
  <2>2. QED
    BY <1>6, <2>1, Zenon
<1>7. QED
  BY <1>5, <1>6, Zenon

\* What the other steps of a session do not touch.
LEMMA NothingForwarded ==
  \A s \in Sessions :
    \/ Reject(s) \/ Admit(s)
    \/ UpgradeFails(s) \/ Upgrade(s) \/ GreetFails(s) \/ Greet(s) \/ BindFails(s) \/ Bind(s)
    \/ ForwardFails(s) \/ RxEnd(s) \/ Unregister(s) \/ AwaitTx(s) \/ AwaitDns(s)
    \/ TxSend(s) \/ TxFails(s) \/ TxEnd(s)
    \/ RxData(s) \/ RxQuery(s) \/ ClientLeaves(s)
    \/ Dispatch(s) \/ DnsAnswer(s) \/ DnsRecvFails(s)
    => UNCHANGED <<user, forwarded, billvars>>
BY ZenonT(40) DEF tasks, traffic, Reject, Admit, UpgradeFails, Upgrade, GreetFails, Greet, BindFails,
       Bind, ForwardFails, RxEnd, Unregister, AwaitTx, AwaitDns, TxSend, TxFails, TxEnd, RxData, RxQuery,
       ClientLeaves, Dispatch, DnsAnswer, DnsRecvFails

\* BInv is inductive.
LEMMA BillingStepKeeps == BInv /\ [Next]_vars => Amounts' /\ BilledOnce'
<1> SUFFICES ASSUME SInv, Amounts, BilledOnce, [Next]_vars PROVE Amounts' /\ BilledOnce'
  BY Zenon DEF BInv
<1>1. CASE UNCHANGED <<user, forwarded, billvars, others>>
  BY <1>1, Zenon DEF billvars, Amounts, BilledOnce, ForwardedFor
<1>2. ASSUME NEW s \in Sessions, ForwardOk(s), UNCHANGED others PROVE Amounts' /\ BilledOnce'
  <2>1. user[s] \in Users
    BY Zenon DEF SInv, Types
  <2>2. Amounts'
    BY <1>2, <2>1 DEF ForwardOk, RecordUsage, Amounts
  <2>3. ASSUME NEW u \in Users
        PROVE  Cardinality(ForwardedFor(u))' + others'[u]
                 = usage'[u] + batch'[u] + billed'[u] + unbilled'[u]
    <3>1. /\ others' = others /\ batch' = batch /\ billed' = billed /\ unbilled' = unbilled
          /\ usage'[u] = IF u = user[s] THEN usage[u] + 1 ELSE usage[u]
      BY <1>2, Zenon DEF ForwardOk, RecordUsage, Amounts
    <3>2. /\ usage[u] \in Nat /\ batch[u] \in Nat /\ billed[u] \in Nat /\ unbilled[u] \in Nat
          /\ others[u] \in Nat /\ Cardinality(ForwardedFor(u)) \in Nat
      BY ForwardedFinite, Zenon DEF Amounts
    <3>3. Cardinality(ForwardedFor(u)) + others[u] = usage[u] + batch[u] + billed[u] + unbilled[u]
      BY Zenon DEF BilledOnce
    <3>4. Cardinality(ForwardedFor(u))' = IF u = user[s] THEN Cardinality(ForwardedFor(u)) + 1
                                                         ELSE Cardinality(ForwardedFor(u))
      BY <1>2, OneMoreForwarded, Zenon
    <3>5. CASE u = user[s]
      BY <3>1, <3>2, <3>3, <3>4, <3>5
    <3>6. CASE u # user[s]
      BY <3>1, <3>3, <3>4, <3>6, Zenon
    <3>7. QED
      BY <3>5, <3>6, Zenon
  <2>4. QED
    BY <2>2, <2>3, Zenon DEF BilledOnce
<1>3. ASSUME NEW v \in Users, OtherForwardOk(v) PROVE Amounts' /\ BilledOnce'
  <2>1. /\ others' = [others EXCEPT ![v] = @ + 1] /\ RecordUsage(v)
        /\ UNCHANGED <<user, forwarded>>
    BY <1>3, Zenon DEF OtherForwardOk, tasks, traffic
  <2>2. Amounts'
    BY <2>1 DEF RecordUsage, Amounts
  <2>3. ASSUME NEW u \in Users
        PROVE  Cardinality(ForwardedFor(u)) + others'[u]
                 = usage'[u] + batch'[u] + billed'[u] + unbilled'[u]
    BY <2>1, ForwardedFinite DEF RecordUsage, Amounts, BilledOnce
  <2>4. QED
    BY <2>1, <2>2, <2>3, Zenon DEF BilledOnce, ForwardedFor
<1>4. ASSUME BillingStep PROVE Amounts' /\ BilledOnce'
  <2>1. UNCHANGED <<user, forwarded, others>>
    BY <1>4, Zenon DEF BillingStep, tasks, traffic
  <2>2. CASE FlushTake
    <3>1. Amounts'
      BY <2>1, <2>2, Zenon DEF FlushTake, Nothing, Amounts
    <3>2. ASSUME NEW u \in Users
          PROVE  usage'[u] + batch'[u] + billed'[u] + unbilled'[u]
                   = usage[u] + batch[u] + billed[u] + unbilled[u]
      BY <2>2 DEF FlushTake, Nothing, Amounts
    <3>3. QED
      BY <2>1, <3>1, <3>2, Zenon DEF BilledOnce, ForwardedFor
  <2>3. ASSUME NEW v \in Users, FlushUser(v) \/ FlushUserFails(v)
        PROVE  Amounts' /\ BilledOnce'
    <3>1. Amounts'
      BY <2>1, <2>3 DEF FlushUser, FlushUserFails, Amounts
    <3>2. ASSUME NEW u \in Users
          PROVE  usage'[u] + batch'[u] + billed'[u] + unbilled'[u]
                   = usage[u] + batch[u] + billed[u] + unbilled[u]
      BY <2>3 DEF FlushUser, FlushUserFails, Amounts
    <3>3. QED
      BY <2>1, <3>1, <3>2, Zenon DEF BilledOnce, ForwardedFor
  <2>4. QED
    BY <1>4, <2>2, <2>3, Zenon DEF BillingStep
<1>5. CASE \E s \in Sessions : SessionStep(s) \/ TxStep(s) \/ PeerStep(s)
  BY <1>1, <1>2, <1>5, NothingForwarded, Zenon DEF SessionStep, TxStep, PeerStep
<1>6. CASE UNCHANGED vars
  BY <1>1, <1>6, Zenon DEF vars, tasks, traffic
<1>7. QED
  BY <1>3, <1>4, <1>5, <1>6, Zenon DEF Next

\* Every frame forwarded for a user is in the usage map, in the batch of the
\* running flush, in the database or in a row whose write failed, exactly once,
\* for any number of sessions and users (RecordUsage, BillingAggregator::flush).
THEOREM EachFrameBilledOnce == Spec => []BilledOnce
<1>1. Init => BInv
  <2> SUFFICES ASSUME Init, SInv PROVE Amounts /\ BilledOnce
    BY SessionsInit, Zenon DEF BInv
  <2>1. Amounts
    BY Zenon DEF Init, BillingInit, Nothing, Amounts
  <2>2. BilledOnce
    BY NoneForwarded DEF Init, BillingInit, Nothing, BilledOnce
  <2>3. QED
    BY <2>1, <2>2, Zenon
<1>2. BInv /\ [Next]_vars => BInv'
  BY SessionsStep, BillingStepKeeps, Zenon DEF BInv
<1>3. BInv => BilledOnce
  BY Zenon DEF BInv
<1>4. QED
  BY <1>1, <1>2, <1>3, PTL DEF Spec

=============================================================================
