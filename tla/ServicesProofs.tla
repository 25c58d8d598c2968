-------------------------- MODULE ServicesProofs --------------------------
(***************************************************************************)
(* Proofs about the connection pool, for any number of slots, users and    *)
(* connections, and about the configuration, for all files.                *)
(*                                                                         *)
(* NothingEarlyLeft speaks of the end of close only.  SweptInv says how    *)
(* far close has come: a connection from before it is in no slot close has *)
(* passed, and the ones calls of connect_all are about to store are all    *)
(* different and not from before.                                          *)
(***************************************************************************)
EXTENDS Services, TLAPS

\* close has not finished with slot i
Ahead(i) ==
    /\ closer = "lock" => closing <= i
    /\ closer = "closing" => closing < i
    /\ closer # "ended"

SweptInv ==
    /\ DOMAIN slots = Slots
    /\ opened \in Nat /\ early \subseteq 1 .. opened
    /\ DOMAIN connector = Connectors /\ DOMAIN dialed = Connectors
    /\ \A k \in Connectors : connector[k] = "store" => dialed[k] \in 1 .. opened /\ dialed[k] \notin early
    /\ \A k, l \in Connectors :
        connector[k] = "store" /\ connector[l] = "store" /\ dialed[k] = dialed[l] => k = l
    /\ closer \in {"idle", "lock", "closing", "ended"}
    /\ closer \in {"lock", "closing"} => closing \in Slots
    /\ closer # "idle" => closed
    /\ \A i \in Slots : slots[i] \in early => Ahead(i)

-----------------------------------------------------------------------------
(* The connection pool                                                     *)

\* The slots are numbered from 0.
LEMMA SlotNumbers == \A i \in Slots : i \in Int /\ 0 <= i /\ i < PoolSize
BY PoolAssumption DEF Slots

\* 0, an empty slot, is no connection.
LEMMA EmptyNotEarly == SweptInv => 0 \notin early
BY DEF SweptInv

\* A slot that is emptied leaves the others as they were.
LEMMA EmptyingKeeps ==
    ASSUME SweptInv, NEW k, slots' = [slots EXCEPT ![k] = 0], early' = early, NEW i \in Slots,
           slots'[i] \in early'
    PROVE  i # k /\ slots[i] \in early
BY EmptyNotEarly, Zenon DEF SweptInv

\* What closing a slot leaves to do.
LEMMA NextSlotKeeps ==
    ASSUME closing \in Slots, NextSlot
    PROVE  /\ closer' \in {"lock", "ended"}
           /\ closer' = "lock" => closing' \in Slots /\ closing' = closing + 1
           /\ closer' = "ended" => \A i \in Slots : i <= closing
<1>1. PoolSize \in Nat \ {0}
  BY PoolAssumption, Zenon
<1>2. closing \in Int /\ 0 <= closing /\ closing < PoolSize
  BY SlotNumbers, Zenon
<1>3. CASE closing + 1 < PoolSize
  <2>1. (closing + 1) % PoolSize = closing + 1
    BY <1>1, <1>2, <1>3
  <2>2. closing + 1 \in Slots
    BY <1>1, <1>2, <1>3 DEF Slots
  <2>3. QED
    BY <1>3, <2>1, <2>2, Zenon DEF NextSlot
<1>4. CASE ~(closing + 1 < PoolSize)
  <2>1. \A i \in Slots : i <= closing
    BY <1>1, <1>2, <1>4, SlotNumbers, SMTT(30)
  <2>2. QED
    BY <1>4, <2>1, Zenon DEF NextSlot
<1>5. QED
  BY <1>3, <1>4, Zenon

\* Every step of the pool keeps SweptInv.
LEMMA SweptStep == SweptInv /\ [PoolNext]_poolVars => SweptInv'
<1> SUFFICES ASSUME SweptInv, [PoolNext]_poolVars PROVE SweptInv'
  BY Zenon
<1>1. ASSUME NEW k \in Connectors, ConnectAll(k) \/ DialFails(k) PROVE SweptInv'
  <2>1. \A l \in Connectors : connector'[l] = "store" => connector[l] = "store"
    BY <1>1, Zenon DEF ConnectAll, DialFails, SweptInv
  <2>2. /\ UNCHANGED <<slots, closed, closer, closing, dialed, opened, early>>
        /\ DOMAIN connector' = DOMAIN connector
    BY <1>1, Zenon DEF ConnectAll, DialFails, closeVars
  <2>3. QED
    BY <2>1, <2>2, Zenon DEF SweptInv, Ahead
<1>2. ASSUME NEW k \in Connectors, Dial(k) PROVE SweptInv'
  <2>1. /\ UNCHANGED <<slots, closed, closer, closing, early>>
        /\ connector' = [connector EXCEPT ![k] = "store"]
        /\ dialed' = [dialed EXCEPT ![k] = opened + 1] /\ opened' = opened + 1
    BY <1>2, Zenon DEF Dial, closeVars
  <2>2. opened' \in Nat /\ early' \subseteq 1 .. opened'
    BY <2>1 DEF SweptInv
  <2>3. \A l \in Connectors : l # k => connector'[l] = connector[l] /\ dialed'[l] = dialed[l]
    BY <2>1, Zenon DEF SweptInv
  <2>4. dialed'[k] = opened + 1
    BY <2>1, Zenon DEF SweptInv
  <2>5. \A l \in Connectors : connector[l] = "store" =>
            dialed[l] \in 1 .. opened' /\ dialed[l] # opened + 1 /\ dialed[l] \notin early'
    BY <2>1 DEF SweptInv
  <2>6. opened + 1 \in 1 .. opened' /\ opened + 1 \notin early'
    BY <2>1 DEF SweptInv
  <2>7. \A l \in Connectors : connector'[l] = "store" =>
            dialed'[l] \in 1 .. opened' /\ dialed'[l] \notin early'
    BY <2>3, <2>4, <2>5, <2>6, Zenon
  <2>8. \A l, m \in Connectors :
            connector'[l] = "store" /\ connector'[m] = "store" /\ dialed'[l] = dialed'[m] => l = m
    BY <2>3, <2>4, <2>5, ZenonT(40) DEF SweptInv
  <2>9. QED
    BY <2>1, <2>2, <2>7, <2>8, Zenon DEF SweptInv, Ahead
<1>4. ASSUME NEW k \in Connectors, StoreSlot(k) PROVE SweptInv'
  <2>1. /\ UNCHANGED <<closed, closer, closing, opened>>
        /\ slots' = [slots EXCEPT ![connecting[k]] = dialed[k]]
        /\ early' = IF closed THEN early ELSE early \cup {dialed[k]}
        /\ dialed' = [dialed EXCEPT ![k] = 0]
        /\ connector' = [connector EXCEPT ![k] = IF connecting[k] + 1 < PoolSize THEN "dial" ELSE "idle"]
        /\ connector[k] = "store"
    BY <1>4, Zenon DEF StoreSlot, closeVars
  <2>2. dialed[k] \in 1 .. opened /\ dialed[k] \notin early
    BY <2>1, Zenon DEF SweptInv
  <2>3. early' \subseteq 1 .. opened'
    BY <2>1, <2>2, Zenon DEF SweptInv
  <2>4. ASSUME NEW l \in Connectors, connector'[l] = "store"
        PROVE  l # k /\ connector[l] = "store" /\ dialed'[l] = dialed[l] /\ dialed[l] # dialed[k]
    <3>1. connector'[k] # "store"
      BY <2>1, Zenon DEF SweptInv
    <3>2. QED
      BY <2>1, <2>4, <3>1, Zenon DEF SweptInv
  <2>5. \A l \in Connectors : connector'[l] = "store" =>
            dialed'[l] \in 1 .. opened' /\ dialed'[l] \notin early'
    BY <2>1, <2>4, Zenon DEF SweptInv
  <2>6. \A l, m \in Connectors :
            connector'[l] = "store" /\ connector'[m] = "store" /\ dialed'[l] = dialed'[m] => l = m
    BY <2>4, Zenon DEF SweptInv
  <2>7. \A i \in Slots : slots'[i] \in early' => Ahead(i)'
    <3>1. CASE closed
      BY <2>1, <2>2, <3>1, Zenon DEF SweptInv, Ahead
    <3>2. CASE ~closed
      BY <2>1, <3>2, Zenon DEF SweptInv, Ahead
    <3>3. QED
      BY <3>1, <3>2, Zenon
  <2>8. QED
    BY <2>1, <2>3, <2>5, <2>6, <2>7, Zenon DEF SweptInv
<1>5. ASSUME NEW u \in PoolUsers, WithConnection(u) \/ LockSlot(u) \/ UseSucceeds(u)
      PROVE  SweptInv'
  <2>1. UNCHANGED <<slots, closed, connector, dialed, closer, closing, opened, early>>
    BY <1>5, Zenon DEF WithConnection, LockSlot, UseSucceeds, Release, connectVars, closeVars
  <2>2. QED
    BY <2>1, Zenon DEF SweptInv, Ahead
<1>6. ASSUME NEW u \in PoolUsers, UseFails(u) PROVE SweptInv'
  <2>1. /\ slots' = [slots EXCEPT ![slot[u]] = 0]
        /\ UNCHANGED <<closed, connector, dialed, closer, closing, opened, early>>
    BY <1>6, Zenon DEF UseFails, Release, connectVars, closeVars
  <2>2. \A i \in Slots : slots'[i] \in early' => Ahead(i)'
    BY <2>1, EmptyingKeeps, Zenon DEF SweptInv, Ahead
  <2>3. QED
    BY <2>1, <2>2, Zenon DEF SweptInv
<1>7. CASE Close
  <2>1. /\ closer' = "lock" /\ closing' = 0 /\ closed'
        /\ UNCHANGED <<slots, connector, dialed, opened, early>>
    BY <1>7, Zenon DEF Close, connectVars
  <2>2. 0 \in Slots /\ \A i \in Slots : 0 <= i
    BY PoolAssumption DEF Slots
  <2>3. QED
    BY <2>1, <2>2, Zenon DEF SweptInv, Ahead
<1>8. CASE CloseSlot
  <2>0. closer = "lock" /\ closing \in Slots /\ UNCHANGED <<closed, connector, dialed, opened, early>>
    BY <1>8, Zenon DEF CloseSlot, SweptInv, connectVars
  <2>1. CASE slots' = [slots EXCEPT ![closing] = 0] /\ closer' = "closing" /\ closing' = closing
    <3>1. ASSUME NEW i \in Slots, slots'[i] \in early' PROVE Ahead(i)'
      <4>1. i # closing /\ closing <= i
        BY <2>0, <2>1, <3>1, EmptyingKeeps, Zenon DEF SweptInv, Ahead
      <4>2. closing < i
        BY <2>0, <4>1, SlotNumbers, SMTT(30)
      <4>3. QED
        BY <2>1, <4>2, Zenon DEF Ahead
    <3>2. QED
      BY <2>0, <2>1, <3>1, Zenon DEF SweptInv
  <2>2. CASE slots[closing] = 0 /\ NextSlot /\ slots' = slots
    <3>1. ASSUME NEW i \in Slots, slots'[i] \in early' PROVE Ahead(i)'
      <4>1. i # closing /\ closing <= i
        BY <2>0, <2>2, <3>1, EmptyNotEarly, Zenon DEF SweptInv, Ahead
      <4>2. closing + 1 <= i /\ ~(i <= closing)
        BY <2>0, <4>1, SlotNumbers
      <4>3. QED
        BY <2>0, <2>2, <4>2, NextSlotKeeps, Zenon DEF Ahead
    <3>2. QED
      BY <2>0, <2>2, <3>1, NextSlotKeeps, Zenon DEF SweptInv
  <2>3. QED
    BY <1>8, <2>1, <2>2, Zenon DEF CloseSlot
<1>9. CASE CloseEnds
  <2>0. /\ closer = "closing" /\ closing \in Slots /\ NextSlot
        /\ UNCHANGED <<slots, closed, connector, dialed, opened, early>>
    BY <1>9, Zenon DEF CloseEnds, SweptInv, connectVars
  <2>1. ASSUME NEW i \in Slots, slots'[i] \in early' PROVE Ahead(i)'
    <3>1. closing < i
      BY <2>0, <2>1, Zenon DEF SweptInv, Ahead
    <3>2. closing + 1 <= i /\ ~(i <= closing)
      BY <2>0, <3>1, SlotNumbers, SMTT(30)
    <3>3. QED
      BY <2>0, <3>2, NextSlotKeeps, Zenon DEF Ahead
  <2>2. QED
    BY <2>0, <2>1, NextSlotKeeps, Zenon DEF SweptInv
<1>10. CASE UNCHANGED poolVars
  BY <1>10, Zenon DEF poolVars, connectVars, closeVars, SweptInv, Ahead
<1>11. QED
  BY <1>1, <1>2, <1>4, <1>5, <1>6, <1>7, <1>8, <1>9, <1>10, ZenonT(40) DEF PoolNext

\* The pool by itself: however users, connect_all and close interleave, nothing
\* stored before close was called is in a slot when it returns (close).
THEOREM CloseLeavesNothingEarly == PoolInit /\ [][PoolNext]_poolVars => []NothingEarlyLeft
<1>1. PoolInit => SweptInv
  BY DEF PoolInit, SweptInv
<1>2. SweptInv => NothingEarlyLeft
  BY Zenon DEF SweptInv, Ahead, NothingEarlyLeft
<1>3. QED
  BY <1>1, <1>2, SweptStep, PTL

-----------------------------------------------------------------------------
(* The configuration                                                       *)

\* the files of rs that give setting f a value, and the last of some files
Giving(rs, f) == {i \in DOMAIN rs : rs[i].settings[f] # Unset}
LastOf(S) == CHOOSE i \in S : \A j \in S : j <= i

\* what a setting is after the files of rs
Setting(rs, f) ==
    IF Giving(rs, f) = {} THEN Unset ELSE rs[LastOf(Giving(rs, f))].settings[f]

\* one of the files that give it a value, if any does, is the last
HasLast(rs, f) ==
    Giving(rs, f) # {} => \E m \in Giving(rs, f) : \A j \in Giving(rs, f) : j <= m

ConfigInv ==
    /\ read \in Seq(Files) /\ MergedFollowFiles
    /\ \A f \in Merged : HasLast(read, f)

\* reading file after those of rs, which makes them as, changes setting f as merge does
FollowsOn(as, rs, file, f) ==
    /\ HasLast(as, f)
    /\ file.settings[f] # Unset => Setting(as, f) = file.settings[f]
    /\ file.settings[f] = Unset => Setting(as, f) = Setting(rs, f)

\* MergedFollowFiles in terms of Setting.
LEMMA FollowsSetting ==
    MergedFollowFiles <=> \A f \in Merged : config.settings[f] = Setting(read, f)
BY Zenon DEF MergedFollowFiles, LastGiven, Setting, Giving, LastOf

\* The last of some files is the one no other is behind.
LEMMA LastIs ==
    ASSUME NEW S \in SUBSET Nat, NEW m \in S, \A j \in S : j <= m
    PROVE  LastOf(S) = m
<1>1. LastOf(S) \in S /\ \A j \in S : j <= LastOf(S)
  BY Zenon DEF LastOf
<1>2. LastOf(S) \in Nat /\ m \in Nat /\ LastOf(S) <= m /\ m <= LastOf(S)
  BY <1>1, Zenon
<1>3. QED
  BY <1>2

\* One more file, which gives the setting a value or does not.
LEMMA OneMoreFile ==
    ASSUME NEW rs \in Seq(Files), NEW file \in Files, NEW f \in Merged,
           HasLast(rs, f)
    PROVE  FollowsOn(Append(rs, file), rs, file, f)
<1> DEFINE as == Append(rs, file)
           n == Len(rs)
<1>1. /\ n \in Nat /\ as[n + 1] = file /\ DOMAIN as = DOMAIN rs \cup {n + 1}
      /\ DOMAIN rs = 1 .. n /\ \A i \in DOMAIN rs : as[i] = rs[i]
  OBVIOUS
<1>2. n + 1 \in DOMAIN as /\ n + 1 \notin DOMAIN rs
  BY <1>1
<1> SUFFICES FollowsOn(as, rs, file, f)
  BY Zenon
<1> HIDE DEF as, n
<1>3. CASE file.settings[f] # Unset
  <2>1. n + 1 \in Giving(as, f)
    BY <1>1, <1>2, <1>3, Zenon DEF Giving
  <2>2. ASSUME NEW j \in Giving(as, f) PROVE j \in Nat /\ j <= n + 1
    <3>1. j \in DOMAIN rs \/ j = n + 1
      BY <1>1, Zenon DEF Giving
    <3>2. QED
      BY <1>1, <3>1
  <2>3. Giving(as, f) \in SUBSET Nat /\ \A j \in Giving(as, f) : j <= n + 1
    BY <2>2, Zenon
  <2>4. LastOf(Giving(as, f)) = n + 1
    BY <2>1, <2>3, LastIs, Zenon
  <2>5. Giving(as, f) # {}
    BY <2>1, Zenon
  <2>6. Setting(as, f) = file.settings[f]
    BY <1>1, <2>4, <2>5, ZenonT(40) DEF Setting
  <2>8. HasLast(as, f)
    BY <2>1, <2>3, Zenon DEF HasLast
  <2>9. QED
    BY <1>3, <2>6, <2>8, Zenon DEF FollowsOn
<1>4. CASE file.settings[f] = Unset
  <2>1. ASSUME NEW i PROVE i \in Giving(as, f) <=> i \in Giving(rs, f)
    <3>1. CASE i = n + 1
      BY <1>1, <1>2, <1>4, <3>1, ZenonT(40) DEF Giving
    <3>2. CASE i # n + 1
      BY <1>1, <3>2, Zenon DEF Giving
    <3>3. QED
      BY <3>1, <3>2, Zenon
  <2>2. Giving(as, f) = Giving(rs, f)
    BY <2>1, Zenon
  <2>3. Setting(as, f) = Setting(rs, f)
    <3>2. CASE Giving(rs, f) = {}
      BY <2>2, <3>2, Zenon DEF Setting
    <3>3. CASE Giving(rs, f) # {}
      <4>1. LastOf(Giving(rs, f)) \in Giving(rs, f)
        BY <3>3, Zenon DEF HasLast, LastOf
      <4>2. as[LastOf(Giving(rs, f))] = rs[LastOf(Giving(rs, f))]
        BY <1>1, <4>1, Zenon DEF Giving
      <4>3. QED
        BY <2>2, <3>3, <4>2, Zenon DEF Setting
    <3>4. QED
      BY <3>2, <3>3, Zenon
  <2>4. HasLast(as, f)
    BY <2>2, Zenon DEF HasLast
  <2>5. QED
    BY <1>4, <2>3, <2>4, Zenon DEF FollowsOn
<1>5. QED
  BY <1>3, <1>4, Zenon

\* One file by itself.
LEMMA FirstFile ==
    ASSUME NEW file \in Files, NEW f \in Merged
    PROVE  HasLast(<<file>>, f) /\ Setting(<<file>>, f) = file.settings[f]
<1> DEFINE as == <<file>>
<1>1. DOMAIN as = {1} /\ as[1] = file
  OBVIOUS
<1> SUFFICES HasLast(as, f) /\ Setting(as, f) = file.settings[f]
  BY Zenon
<1> HIDE DEF as
<1>2. Giving(as, f) \subseteq {1}
  BY <1>1, Zenon DEF Giving
<1>3. CASE Giving(as, f) = {}
  <2>1. file.settings[f] = Unset
    BY <1>1, <1>3, Zenon DEF Giving
  <2>2. QED
    BY <1>1, <1>3, <2>1, Zenon DEF HasLast, Setting
<1>4. CASE Giving(as, f) # {}
  <2>0. Giving(as, f) = {1}
    BY <1>2, <1>4, Zenon
  <2>1. 1 \in Giving(as, f) /\ \A j \in Giving(as, f) : j <= 1
    BY <2>0
  <2>2. Giving(as, f) \in SUBSET Nat
    BY <2>0
  <2>3. LastOf(Giving(as, f)) = 1
    BY <2>1, <2>2, LastIs, Zenon
  <2>4. Setting(as, f) = file.settings[f]
    BY <1>1, <1>4, <2>3, Zenon DEF Setting
  <2>5. QED
    BY <2>1, <2>4, Zenon DEF HasLast
<1>5. QED
  BY <1>3, <1>4, Zenon

\* Loading a file and merging one keep ConfigInv.
LEMMA ConfigStep == ConfigInv /\ [ConfigNext]_configVars => ConfigInv'
<1> SUFFICES ASSUME ConfigInv, [ConfigNext]_configVars PROVE ConfigInv'
  BY Zenon
<1>1. ASSUME NEW file \in Files, Load(file) PROVE ConfigInv'
  <2>1. config' = file /\ read' = <<file>>
    BY <1>1, Zenon DEF Load
  <2>2. read' \in Seq(Files)
    BY <2>1
  <2>3. \A f \in Merged : HasLast(read', f) /\ Setting(read', f) = config'.settings[f]
    BY <2>1, FirstFile, Zenon
  <2>4. MergedFollowFiles'
    <3>1. \A f \in Merged : config'.settings[f] = Setting(read', f)
      BY <2>3, Zenon
    <3>2. QED
      BY <3>1, Zenon DEF MergedFollowFiles, LastGiven, Setting, Giving, LastOf
  <2>5. QED
    BY <2>2, <2>3, <2>4, Zenon DEF ConfigInv
<1>2. ASSUME NEW file \in Files, LoadMerge(file) PROVE ConfigInv'
  <2>1. config' = Merge(config, file) /\ read' = Append(read, file)
    BY <1>2, Zenon DEF LoadMerge
  <2>2. read \in Seq(Files) /\ \A f \in Merged : HasLast(read, f) /\ config.settings[f] = Setting(read, f)
    BY FollowsSetting, Zenon DEF ConfigInv
  <2>3. read' \in Seq(Files)
    BY <2>1, <2>2
  <2>4. config'.settings = MergeSettings(config.settings, file.settings)
    BY <2>1, Zenon DEF Merge
  <2>5. ASSUME NEW f \in Merged PROVE HasLast(read', f) /\ config'.settings[f] = Setting(read', f)
    <3>1. FollowsOn(read', read, file, f)
      BY <2>1, <2>2, OneMoreFile, Zenon
    <3>2. config'.settings[f] =
            IF file.settings[f] # Unset THEN file.settings[f] ELSE config.settings[f]
      <4>1. f \in Fields
        BY Zenon DEF Merged, Fields
      <4>2. QED
        BY <2>4, <4>1, Zenon DEF MergeSettings
    <3>3. CASE file.settings[f] # Unset
      BY <3>1, <3>2, <3>3, Zenon DEF FollowsOn
    <3>4. CASE file.settings[f] = Unset
      BY <2>2, <3>1, <3>2, <3>4, ZenonT(40) DEF FollowsOn
    <3>5. QED
      BY <3>3, <3>4, Zenon
  <2>6. MergedFollowFiles'
    BY <2>5, Zenon DEF MergedFollowFiles, LastGiven, Setting, Giving, LastOf
  <2>7. QED
    BY <2>3, <2>5, <2>6, Zenon DEF ConfigInv
<1>3. CASE UNCHANGED configVars
  <2>1. config' = config /\ read' = read
    BY <1>3, Zenon DEF configVars
  <2>2. MergedFollowFiles'
    BY <2>1, ZenonT(40) DEF ConfigInv, MergedFollowFiles, LastGiven
  <2>3. QED
    BY <2>1, <2>2, Zenon DEF ConfigInv
<1>4. QED
  BY <1>1, <1>2, <1>3, ZenonT(40) DEF ConfigNext

\* The configuration by itself: after any files, a setting that merge looks at is
\* that of the last file to give it a value (merge).
THEOREM SettingsAlwaysFollow ==
    ConfigInit /\ [][ConfigNext]_configVars => []MergedFollowFiles
<1>1. ConfigInit => ConfigInv
  <2> SUFFICES ASSUME ConfigInit PROVE ConfigInv
    BY Zenon
  <2>1. read = <<>> /\ DOMAIN read = {}
    BY DEF ConfigInit
  <2>2. read \in Seq(Files)
    BY <2>1
  <2>3. QED
    <3>1. \A f \in Merged : f \in Fields
      BY Zenon DEF Merged, Fields
    <3>2. \A f \in Merged : config.settings[f] = Unset
      BY <3>1 DEF ConfigInit, Default
    <3>3. \A f : Giving(read, f) = {}
      BY <2>1, Zenon DEF Giving
    <3>4. MergedFollowFiles
      BY <3>2, <3>3, FollowsSetting, Zenon DEF Setting
    <3>5. QED
      BY <2>2, <3>3, <3>4, Zenon DEF ConfigInv, HasLast
<1>2. ConfigInv => MergedFollowFiles
  BY Zenon DEF ConfigInv
<1>3. QED
  BY <1>1, <1>2, ConfigStep, PTL

-----------------------------------------------------------------------------
\* The services share no state, so both hold of the daemon that runs them.
THEOREM ServicesCorrect == Spec => []NothingEarlyLeft /\ []MergedFollowFiles
<1>1. Init => PoolInit /\ ConfigInit
  BY Zenon DEF Init
<1>2. [Next]_vars => [PoolNext]_poolVars /\ [ConfigNext]_configVars
  BY Zenon DEF Next, vars
<1>3. QED
  BY <1>1, <1>2, CloseLeavesNothingEarly, SettingsAlwaysFollow, PTL DEF Spec

=============================================================================
