-------------------------- MODULE Recovery_proofs --------------------------
(***************************************************************************)
(* Proofs about Watchdog for every window, threshold and cooldown, and     *)
(* that the watchdog keeps its promises in the pod it watches, whatever    *)
(* the bond, the OpenVPN clients and the VPN servers do.                   *)
(***************************************************************************)
EXTENDS Recovery, FiniteSetTheorems, TLAPS

\* Indices of the ring wrap around once.
LEMMA WrapOnce ==
    ASSUME NEW a \in 0 .. 2 * WindowSize - 1
    PROVE  a % WindowSize = IF a < WindowSize THEN a ELSE a - WindowSize
  BY WatchdogAssumption

LEMMA SlotsFinite ==
    ASSUME NEW w \in [Slots -> BOOLEAN]
    PROVE  /\ IsFiniteSet({i \in Slots : w[i]})
           /\ Failures(w) \in Nat
<1>1. IsFiniteSet(Slots)
  BY FS_Interval, WatchdogAssumption DEF Slots
<1>2. {i \in Slots : w[i]} \in SUBSET Slots
  OBVIOUS
<1>3. IsFiniteSet({i \in Slots : w[i]})
  BY <1>1, <1>2, FS_Subset
<1> QED
  BY <1>3, FS_CardinalityType DEF Failures

LEMMA EmptyWindowHasNone ==
    /\ EmptyWindow \in [Slots -> BOOLEAN]
    /\ Failures(EmptyWindow) = 0
<1>1. {i \in Slots : EmptyWindow[i]} = {}
  BY DEF EmptyWindow
<1> QED
  BY <1>1, FS_EmptySet DEF Failures, EmptyWindow

\* One record adds at most one failure to the window.
LEMMA RecordAddsOne ==
    ASSUME NEW w \in [Slots -> BOOLEAN], NEW i \in Slots, NEW failure \in BOOLEAN
    PROVE  Failures([w EXCEPT ![i] = failure]) <= Failures(w) + 1
<1> DEFINE S == {j \in Slots : w[j]}
           v == [w EXCEPT ![i] = failure]
           T == {j \in Slots : v[j]}
<1>1. IsFiniteSet(S) /\ Cardinality(S) \in Nat
  BY SlotsFinite DEF Failures
<1>2. T \in SUBSET (S \cup {i})
  OBVIOUS
<1>3. IsFiniteSet(S \cup {i}) /\ Cardinality(S \cup {i}) <= Cardinality(S) + 1
  <2>1. /\ IsFiniteSet(S \cup {i})
        /\ Cardinality(S \cup {i}) =
              IF i \in S THEN Cardinality(S) ELSE Cardinality(S) + 1
    <3> HIDE DEF S
    <3> QED
      BY <1>1, FS_AddElement
  <2> QED
    BY <1>1, <2>1
<1>4. Cardinality(T) <= Cardinality(S \cup {i})
  BY <1>2, <1>3, FS_Subset
<1>5. Cardinality(S \cup {i}) \in Nat /\ Cardinality(T) \in Nat
  BY <1>2, <1>3, FS_Subset, FS_CardinalityType
<1> QED
  BY <1>1, <1>3, <1>4, <1>5 DEF Failures

LEMMA InitInv == Init => CountersInv
<1> SUFFICES ASSUME Init PROVE CountersInv
  OBVIOUS
<1>1. TypeOK
  <2>1. 0 \in Slots /\ 0 \in 0 .. Cooldown /\ 0 \in 0 .. HAVPNClients
        /\ Spacing \in 0 .. Spacing /\ 0 \in Nat
    BY WatchdogAssumption DEF Slots, Spacing
  <2> QED
    BY <2>1, EmptyWindowHasNone DEF Init, TypeOK
<1>2. CooldownTracksFired /\ FailuresAreRecent
  BY EmptyWindowHasNone, WatchdogAssumption
     DEF Init, CooldownTracksFired, FailuresAreRecent, Spacing
<1> QED
  BY <1>1, <1>2 DEF CountersInv

LEMMA NextInv ==
    ASSUME CountersInv, Next
    PROVE  CountersInv'
<1> USE WatchdogAssumption
<1>1. CASE \E failure \in BOOLEAN : RecordInCooldown(failure)
  <2>1. PICK failure \in BOOLEAN : RecordInCooldown(failure)
    BY <1>1
  <2>2. TypeOK'
    <3>1. /\ window' \in [Slots -> BOOLEAN] /\ windowPos' \in Slots
          /\ fired' \in BOOLEAN
      BY <2>1 DEF RecordInCooldown, CountersInv, TypeOK
    <3>2. cooldownCount' \in 0 .. Cooldown /\ signalled' \in 0 .. HAVPNClients
      BY <2>1 DEF RecordInCooldown, CountersInv, TypeOK
    <3>3. sinceFired' \in 0 .. Spacing
      BY <2>1 DEF RecordInCooldown, History, CountersInv, TypeOK, Spacing
    <3>4. failRun' \in Nat
      BY <2>1 DEF RecordInCooldown, History, CountersInv, TypeOK
    <3> QED
      BY <3>1, <3>2, <3>3, <3>4 DEF TypeOK
  <2>3. CooldownTracksFired'
    BY <2>1 DEF RecordInCooldown, History, CountersInv, TypeOK, Spacing,
                CooldownTracksFired
  <2>4. window' = EmptyWindow /\ Failures(window') = 0
    BY <2>1, EmptyWindowHasNone
       DEF RecordInCooldown, CountersInv, CooldownTracksFired
  <2>5. Failures(window)' = 0
    BY <2>4 DEF Failures
  <2>6. FailuresAreRecent'
    BY <2>1, <2>5 DEF RecordInCooldown, History, CountersInv, TypeOK, Spacing,
                      CooldownTracksFired, FailuresAreRecent
  <2> QED
    BY <2>2, <2>3, <2>6 DEF CountersInv
<1>2. CASE \E failure \in BOOLEAN, reached \in 0 .. HAVPNClients :
                 Record(failure, reached)
  <2>1. PICK failure \in BOOLEAN, reached \in 0 .. HAVPNClients :
               Record(failure, reached)
    BY <1>2
  <2> DEFINE w == [window EXCEPT ![windowPos] = failure]
  <2>0. window \in [Slots -> BOOLEAN] /\ windowPos \in Slots /\ cooldownCount = 0
    BY <2>1 DEF Record, CountersInv, TypeOK
  <2>2. w \in [Slots -> BOOLEAN]
    BY <2>0
  <2>3. Failures(w) \in Nat /\ Failures(window) \in Nat
        /\ Failures(w) <= Failures(window) + 1
    BY <2>0, <2>2, SlotsFinite, RecordAddsOne
  <2>4. NextPos \in Slots
    BY <2>0, WrapOnce DEF NextPos, Slots
  <2>5. CASE Breached(w)
    <3>1. /\ window' = EmptyWindow
          /\ windowPos' = 0
          /\ cooldownCount' = Cooldown
          /\ fired' = TRUE
          /\ signalled' = reached
          /\ sinceFired' = 0
          /\ failRun' = 0
      BY <2>1, <2>5 DEF Record, History, reset, StartCooldown
    <3>2. Failures(window)' = 0
      BY <3>1, EmptyWindowHasNone DEF Failures
    <3> QED
      BY <3>1, <3>2, EmptyWindowHasNone
         DEF CountersInv, TypeOK, CooldownTracksFired, FailuresAreRecent,
             Slots, Spacing, EmptyWindow
  <2>6. CASE ~Breached(w)
    <3>1. /\ window' = w
          /\ windowPos' = NextPos
          /\ cooldownCount' = 0
          /\ fired' = FALSE
          /\ signalled' = 0
          /\ sinceFired' = IF sinceFired < Spacing THEN sinceFired + 1 ELSE Spacing
          /\ failRun' = IF failure THEN failRun + 1 ELSE 0
      BY <2>0, <2>1, <2>6 DEF Record, History
    <3>2. Failures(window)' = Failures(w)
      BY <3>1 DEF Failures
    <3>3. TypeOK'
      <4>1. sinceFired' \in 0 .. Spacing
        BY <3>1 DEF CountersInv, TypeOK, Spacing
      <4>2. failRun' \in Nat
        BY <3>1 DEF CountersInv, TypeOK
      <4>3. 0 \in 0 .. Cooldown /\ 0 \in 0 .. HAVPNClients
        OBVIOUS
      <4> QED
        BY <2>2, <2>4, <3>1, <4>1, <4>2, <4>3 DEF TypeOK
    <3>4. CooldownTracksFired'
      BY <3>1 DEF CooldownTracksFired
    <3>5. Failures(w) < Threshold
      BY <2>3, <2>6 DEF Breached
    <3>6. FailuresAreRecent'
      BY <2>0, <2>3, <3>1, <3>2, <3>5
         DEF CountersInv, TypeOK, FailuresAreRecent, Spacing
    <3> QED
      BY <3>3, <3>4, <3>6 DEF CountersInv
  <2> QED
    BY <2>5, <2>6
<1> QED
  BY <1>1, <1>2 DEF Next

LEMMA CountersInvariant == Spec => []CountersInv
<1>1. CountersInv /\ UNCHANGED vars => CountersInv'
  BY DEF vars, CountersInv, TypeOK, CooldownTracksFired, FailuresAreRecent,
         Failures
<1> QED
  BY InitInv, NextInv, <1>1, PTL DEF Spec

\* Two calls of the action are at least Cooldown + Threshold events apart
\* (watchdog.go record).
THEOREM FiresApartTheorem == Spec => FiresApart
<1>1. ASSUME CountersInv, Next, fired' 
      PROVE  sinceFired + 1 >= Spacing
  <2> USE WatchdogAssumption
  <2>1. PICK failure \in BOOLEAN, reached \in 0 .. HAVPNClients :
               Record(failure, reached)
    BY <1>1 DEF Next, RecordInCooldown
  <2> DEFINE w == [window EXCEPT ![windowPos] = failure]
  <2>2. Breached(w) /\ cooldownCount = 0
    BY <1>1, <2>1 DEF Record
  <2>3. window \in [Slots -> BOOLEAN] /\ windowPos \in Slots
    BY <1>1 DEF CountersInv, TypeOK
  <2>4. Failures(w) \in Nat /\ Failures(window) \in Nat
        /\ Failures(w) <= Failures(window) + 1
    BY <2>3, SlotsFinite, RecordAddsOne
  <2> QED
    BY <1>1, <2>2, <2>4
       DEF Breached, CountersInv, FailuresAreRecent, TypeOK, Spacing
<1>2. CountersInv /\ [Next]_vars => [fired' => sinceFired + 1 >= Spacing]_vars
  BY <1>1
<1> QED
  BY <1>2, CountersInvariant, PTL DEF Spec, FiresApart

-----------------------------------------------------------------------------
\* The slot of the i-th oldest event when pos is overwritten next.
SlotOf(pos, i) == (pos + i - 1) % WindowSize

Ring(w, pos) == [i \in 1 .. WindowSize |-> w[SlotOf(pos, i)]]

LEMMA SlotOfValue ==
    ASSUME NEW pos \in Slots, NEW i \in 1 .. WindowSize
    PROVE  /\ SlotOf(pos, i) \in Slots
           /\ SlotOf(pos, i) = IF pos + i - 1 < WindowSize THEN pos + i - 1
                              ELSE pos + i - 1 - WindowSize
<1> DEFINE a == pos + i - 1
<1>1. a \in 0 .. 2 * WindowSize - 1 /\ SlotOf(pos, i) = a % WindowSize
  BY WatchdogAssumption DEF Slots, SlotOf
<1>2. a % WindowSize = IF a < WindowSize THEN a ELSE a - WindowSize
  <2> HIDE DEF a
  <2> QED
    BY <1>1, WrapOnce
<1>3. (IF a < WindowSize THEN a ELSE a - WindowSize) \in Slots
  BY WatchdogAssumption DEF Slots
<1>4. SlotOf(pos, i) = IF a < WindowSize THEN a ELSE a - WindowSize
  BY <1>1, <1>2, Zenon
<1>5. SlotOf(pos, i) \in Slots
  BY <1>3, <1>4, Zenon
<1> QED
  BY <1>4, <1>5, WatchdogAssumption DEF Slots

\* Reading the ring from any position visits every slot once.
LEMMA RingCountsAlike ==
    ASSUME NEW w \in [Slots -> BOOLEAN], NEW pos \in Slots
    PROVE  Cardinality({i \in 1 .. WindowSize : Ring(w, pos)[i]}) = Failures(w)
<1> DEFINE S == {i \in 1 .. WindowSize : Ring(w, pos)[i]}
           T == {j \in Slots : w[j]}
           f == [i \in S |-> SlotOf(pos, i)]
<1>0. WindowSize \in Nat /\ WindowSize >= 1
  BY WatchdogAssumption
<1>1. IsFiniteSet(S)
  <2>1. IsFiniteSet(1 .. WindowSize) /\ S \in SUBSET (1 .. WindowSize)
    BY <1>0, FS_Interval
  <2> QED
    BY <2>1, FS_Subset
<1>2. f \in [S -> T]
  <2> SUFFICES ASSUME NEW i \in S PROVE SlotOf(pos, i) \in T
    OBVIOUS
  <2> QED
    BY SlotOfValue DEF Ring
<1>3. ASSUME NEW a \in S, NEW b \in S, f[a] = f[b]
      PROVE  a = b
  <2>1. /\ a \in 1 .. WindowSize /\ b \in 1 .. WindowSize
        /\ SlotOf(pos, a) = SlotOf(pos, b)
    BY <1>3
  <2>2. SlotOf(pos, a) = IF pos + a - 1 < WindowSize THEN pos + a - 1
                         ELSE pos + a - 1 - WindowSize
    BY <2>1, SlotOfValue
  <2>3. SlotOf(pos, b) = IF pos + b - 1 < WindowSize THEN pos + b - 1
                         ELSE pos + b - 1 - WindowSize
    BY <2>1, SlotOfValue
  <2>4. pos \in Int /\ a \in Int /\ b \in Int
    BY <1>0, <2>1 DEF Slots
  <2>5. (IF pos + a - 1 < WindowSize THEN pos + a - 1
         ELSE pos + a - 1 - WindowSize) =
        (IF pos + b - 1 < WindowSize THEN pos + b - 1
         ELSE pos + b - 1 - WindowSize)
    BY <2>1, <2>2, <2>3, Zenon
  <2> HIDE DEF S, T, f
  <2> QED
    BY <1>0, <2>1, <2>4, <2>5
<1>4. ASSUME NEW j \in T
      PROVE  \E i \in S : f[i] = j
  <2> DEFINE i == IF j >= pos THEN j - pos + 1 ELSE j - pos + 1 + WindowSize
  <2>1. i \in 1 .. WindowSize
    BY <1>0 DEF Slots
  <2>2. SlotOf(pos, i) = j
    BY <1>0, <2>1, SlotOfValue DEF Slots
  <2>3. i \in S
    BY <2>1, <2>2 DEF Ring
  <2>4. f[i] = j
    BY <2>2, <2>3
  <2> QED
    BY <2>3, <2>4
<1>5. f \in Bijection(S, T)
  <2>1. f \in Injection(S, T)
    BY <1>2, <1>3 DEF Injection, IsInjective
  <2>2. f \in Surjection(S, T)
    BY <1>2, <1>4 DEF Surjection
  <2> QED
    BY <2>1, <2>2 DEF Bijection
<1>6. ExistsBijection(S, T)
  BY <1>5 DEF ExistsBijection
<1>7. Cardinality(T) = Cardinality(S)
  <2> HIDE DEF S, T
  <2> QED
    BY <1>1, <1>6, FS_Bijection
<1> QED
  BY <1>7 DEF Failures

\* Overwriting the oldest slot and advancing is appending to the window.
LEMMA RecordShifts ==
    ASSUME NEW w \in [Slots -> BOOLEAN], NEW failure \in BOOLEAN,
           windowPos \in Slots
    PROVE  Ring([w EXCEPT ![windowPos] = failure], NextPos) =
             [i \in 1 .. WindowSize |->
                 IF i < WindowSize THEN Ring(w, windowPos)[i + 1] ELSE failure]
<1> DEFINE v == [w EXCEPT ![windowPos] = failure]
<1> USE WatchdogAssumption
<1>0. /\ NextPos \in Slots
      /\ NextPos = IF windowPos + 1 < WindowSize THEN windowPos + 1 ELSE 0
  <2>1. windowPos + 1 \in 0 .. 2 * WindowSize - 1 /\ windowPos + 1 <= WindowSize
    BY DEF Slots
  <2>2. NextPos = IF windowPos + 1 < WindowSize THEN windowPos + 1
                  ELSE windowPos + 1 - WindowSize
    <3> DEFINE b == windowPos + 1
    <3>1. NextPos = b % WindowSize
      BY Zenon DEF NextPos
    <3>2. b \in 0 .. 2 * WindowSize - 1
      BY <2>1
    <3> HIDE DEF b
    <3>3. NextPos = IF b < WindowSize THEN b ELSE b - WindowSize
      BY <3>1, <3>2, WrapOnce
    <3> QED
      BY <3>3 DEF b, Slots
  <2> QED
    BY <2>1, <2>2 DEF Slots
<1>1. ASSUME NEW i \in 1 .. WindowSize, i < WindowSize
      PROVE  v[SlotOf(NextPos, i)] = Ring(w, windowPos)[i + 1]
  <2>1. i + 1 \in 1 .. WindowSize
    BY <1>1
  <2>a. SlotOf(NextPos, i) =
          IF NextPos + i - 1 < WindowSize THEN NextPos + i - 1
          ELSE NextPos + i - 1 - WindowSize
    BY <1>0, SlotOfValue
  <2>b. SlotOf(windowPos, i + 1) =
          IF windowPos + (i + 1) - 1 < WindowSize THEN windowPos + (i + 1) - 1
          ELSE windowPos + (i + 1) - 1 - WindowSize
    BY <2>1, SlotOfValue
  <2>2. SlotOf(NextPos, i) = SlotOf(windowPos, i + 1)
    BY <1>0, <1>1, <2>a, <2>b DEF Slots
  <2>3. SlotOf(windowPos, i + 1) # windowPos
    BY <1>1, <2>b DEF Slots
  <2>4. SlotOf(windowPos, i + 1) \in Slots
    BY <2>1, SlotOfValue
  <2> QED
    BY <2>1, <2>2, <2>3, <2>4 DEF Ring
<1>2. SlotOf(NextPos, WindowSize) = windowPos
  BY <1>0, SlotOfValue DEF Slots
<1>3. v[SlotOf(NextPos, WindowSize)] = failure
  BY <1>2
<1>4. ASSUME NEW i \in 1 .. WindowSize
      PROVE  v[SlotOf(NextPos, i)] =
               IF i < WindowSize THEN Ring(w, windowPos)[i + 1] ELSE failure
  <2>1. CASE i < WindowSize
    BY <1>1, <2>1
  <2>2. CASE i = WindowSize
    BY <1>3, <2>2
  <2> QED
    BY <2>1, <2>2
<1> HIDE DEF v
<1>5. Ring(v, NextPos) = [i \in 1 .. WindowSize |->
          IF i < WindowSize THEN Ring(w, windowPos)[i + 1] ELSE failure]
  BY <1>4 DEF Ring
<1> QED
  BY <1>5 DEF v

-----------------------------------------------------------------------------
LEMMA RunIsNewestInit == Init => RunIsNewest
  BY WatchdogAssumption DEF Init, RunIsNewest

\* A run that began and ends in the cooldown has left nothing in the window.
LEMMA RunIgnored ==
    ASSUME NEW run \in Nat, NEW left \in Nat, run + left <= Cooldown,
           NEW i \in 1 .. WindowSize
    PROVE  ~(i + run > WindowSize + Cooldown)
<1>1. WindowSize \in Int /\ Cooldown \in Int
  BY WatchdogAssumption
<1>2. i \in Int /\ i <= WindowSize
  BY <1>1
<1> QED
  BY <1>1, <1>2

LEMMA RunIsNewestStep ==
    ASSUME CountersInv, RunIsNewest, Next
    PROVE  RunIsNewest'
<1> USE WatchdogAssumption
<1>1. /\ failRun \in Nat /\ cooldownCount \in 0 .. Cooldown
      /\ window \in [Slots -> BOOLEAN] /\ windowPos \in Slots
  BY DEF CountersInv, TypeOK
<1>2. ASSUME NEW failure \in BOOLEAN, RecordInCooldown(failure)
      PROVE  RunIsNewest'
  <2>1. /\ cooldownCount > 0 /\ cooldownCount' = cooldownCount - 1
        /\ failRun' \in {0, failRun + 1}
    BY <1>2 DEF RecordInCooldown, History
  <2>2. failRun + cooldownCount <= Cooldown
    BY <2>1 DEF RunIsNewest
  <2>3. failRun' \in Nat /\ cooldownCount' \in Nat
    BY <1>1, <2>1
  <2>4. failRun' + cooldownCount' <= Cooldown
    <3>1. CASE failRun' = 0
      BY <1>1, <2>1, <3>1
    <3>2. CASE failRun' = failRun + 1
      BY <1>1, <2>1, <2>2, <3>2
    <3> QED
      BY <2>1, <3>1, <3>2
  <2>5. \A i \in 1 .. WindowSize : ~(i + failRun' > WindowSize + Cooldown)
    BY <2>3, <2>4, RunIgnored
  <2> QED
    BY <2>4, <2>5 DEF RunIsNewest
<1>3. ASSUME NEW failure \in BOOLEAN, NEW reached \in 0 .. HAVPNClients,
             Record(failure, reached)
      PROVE  RunIsNewest'
  <2> DEFINE w == [window EXCEPT ![windowPos] = failure]
  <2>1. CASE Breached(w)
    <3>1. cooldownCount' = Cooldown /\ failRun' = 0
      BY <1>3, <2>1 DEF Record, History, StartCooldown
    <3> QED
      BY <3>1 DEF RunIsNewest
  <2>2. CASE ~Breached(w)
    <3>1. /\ window' = w /\ windowPos' = NextPos
          /\ cooldownCount = 0 /\ cooldownCount' = 0
          /\ failRun' = IF failure THEN failRun + 1 ELSE 0
      BY <1>3, <2>2 DEF Record, History
    <3>2. Ring(window', windowPos') =
             [i \in 1 .. WindowSize |->
                 IF i < WindowSize THEN Ring(window, windowPos)[i + 1]
                 ELSE failure]
      BY <1>1, <3>1, RecordShifts
    <3>3. ASSUME NEW i \in 1 .. WindowSize, i + failRun' > WindowSize + Cooldown
          PROVE  Ring(window', windowPos')[i]
      <4>1. failure /\ i + failRun + 1 > WindowSize + Cooldown
        BY <1>1, <3>1, <3>3
      <4>2. CASE i < WindowSize
        <5>1. i + 1 \in 1 .. WindowSize /\ (i + 1) + failRun > WindowSize + Cooldown
          BY <1>1, <4>1, <4>2
        <5>2. Ring(window, windowPos)[i + 1]
          BY <3>1, <5>1 DEF RunIsNewest, Ring, SlotOf
        <5> QED
          BY <3>2, <4>2, <5>2
      <4>3. CASE i = WindowSize
        BY <3>2, <4>1, <4>3
      <4> QED
        BY <4>2, <4>3
    <3> QED
      BY <3>1, <3>3 DEF RunIsNewest, Ring, SlotOf
  <2> QED
    BY <2>1, <2>2
<1> QED
  BY <1>2, <1>3 DEF Next

\* The counters, the ring and the history fit together in every reachable
\* state, for all parameters NewWatchdog accepts (watchdog.go record).
THEOREM WatchdogInvariant == Spec => []WatchdogInv
<1>1. CountersInv /\ RunIsNewest /\ [Next]_vars => RunIsNewest'
  BY RunIsNewestStep DEF vars, RunIsNewest
<1> QED
  BY CountersInvariant, RunIsNewestInit, <1>1, PTL DEF Spec, WatchdogInv

\* A run of failures that is too long would fill the newest part of the window
\* and breach the threshold.
LEMMA RunIsShort ==
    ASSUME WatchdogInv
    PROVE  SilenceNoticed
<1> USE WatchdogAssumption
<1>1. /\ failRun \in Nat /\ cooldownCount \in 0 .. Cooldown
      /\ window \in [Slots -> BOOLEAN] /\ windowPos \in Slots
      /\ Failures(window) < Threshold
  BY DEF WatchdogInv, CountersInv, TypeOK, FailuresAreRecent
<1>2. CASE cooldownCount > 0
  BY <1>1, <1>2 DEF WatchdogInv, RunIsNewest, SilenceNoticed, Spacing
<1>3. ASSUME cooldownCount = 0, failRun >= Spacing PROVE FALSE
  <2> DEFINE newest == WindowSize - Threshold + 1 .. WindowSize
             failures == {i \in 1 .. WindowSize : Ring(window, windowPos)[i]}
  <2>1. newest \in SUBSET failures
    <3> SUFFICES ASSUME NEW i \in newest PROVE i \in failures
      OBVIOUS
    <3>1. i \in 1 .. WindowSize /\ i + failRun > WindowSize + Cooldown
      BY <1>1, <1>3 DEF Spacing
    <3> QED
      BY <1>3, <3>1 DEF WatchdogInv, RunIsNewest, Ring, SlotOf
  <2>2. Cardinality(newest) = Threshold
    <3>1. WindowSize - Threshold + 1 \in Int /\ WindowSize \in Int
      OBVIOUS
    <3>2. Cardinality(newest) =
             IF WindowSize - Threshold + 1 > WindowSize THEN 0
             ELSE WindowSize - (WindowSize - Threshold + 1) + 1
      BY <3>1, FS_Interval
    <3> QED
      BY <3>2
  <2>3. IsFiniteSet(failures)
    <3>1. IsFiniteSet(1 .. WindowSize) /\ failures \in SUBSET (1 .. WindowSize)
      BY FS_Interval
    <3> QED
      BY <3>1, FS_Subset
  <2>4. Cardinality(newest) <= Cardinality(failures)
    <3> HIDE DEF newest, failures
    <3> QED
      BY <2>1, <2>3, FS_Subset
  <2>5. Cardinality(failures) = Failures(window)
    BY <1>1, RingCountsAlike
  <2>6. Failures(window) \in Nat
    BY <1>1, SlotsFinite
  <2> HIDE DEF newest, failures
  <2> QED
    BY <1>1, <2>2, <2>4, <2>5, <2>6
<1> QED
  BY <1>1, <1>2, <1>3 DEF SilenceNoticed, Spacing

\* No run of Cooldown + Threshold read timeouts goes by without a call of the
\* action, for all parameters NewWatchdog accepts (watchdog.go record).
THEOREM SilenceNoticedTheorem == Spec => []SilenceNoticed
  BY RunIsShort, WatchdogInvariant, PTL

-----------------------------------------------------------------------------
LEMMA EmptyRing == Ring(EmptyWindow, 0) = Window!NoFailures
<1>1. 0 \in Slots
  BY WatchdogAssumption DEF Slots
<1>2. \A i \in 1 .. WindowSize : SlotOf(0, i) \in Slots
  BY <1>1, SlotOfValue
<1> QED
  BY <1>2 DEF Ring, EmptyWindow, Window!NoFailures

LEMMA SameCardinality ==
    ASSUME NEW S
    PROVE  Window!Cardinality(S) = Cardinality(S)
  BY DEF Window!Cardinality, Cardinality, Window!IsFiniteSet, IsFiniteSet

\* The ring buffer with its cooldown implements the sliding window: no event
\* is lost, kept too long or counted twice (watchdog.go record, reset).
THEOREM ImplementsSlidingWindow == Spec => WindowSpec
<1> USE WatchdogAssumption
<1> DEFINE Events == [i \in 1 .. WindowSize |->
                        window[(windowPos + i - 1) % WindowSize]]
<1>0. Events = Ring(window, windowPos) /\ Events' = Ring(window', windowPos')
  BY DEF Ring, SlotOf
<1>1. Init => Window!SInit
  BY <1>0, EmptyRing DEF Init, Window!SInit
<1>2. ASSUME CountersInv, Next
      PROVE  Window!SNext
  <2>1. CASE \E failure \in BOOLEAN : RecordInCooldown(failure)
    BY <1>2, <2>1 DEF RecordInCooldown, Window!SNext, Window!Ignore
  <2>2. ASSUME NEW failure \in BOOLEAN, NEW reached \in 0 .. HAVPNClients,
               Record(failure, reached)
        PROVE  Window!Remember(failure)
    <3> DEFINE w == [window EXCEPT ![windowPos] = failure]
               seen == Window!Seen(failure)
    <3>1. /\ window \in [Slots -> BOOLEAN] /\ windowPos \in Slots
          /\ w \in [Slots -> BOOLEAN]
      BY <1>2 DEF CountersInv, TypeOK
    <3>2. NextPos \in Slots
      BY <3>1, WrapOnce DEF NextPos, Slots
    <3>3. seen = Ring(w, NextPos)
      BY <1>0, <3>1, RecordShifts, ZenonT(60) DEF Window!Seen
    <3>4. Cardinality({i \in 1 .. WindowSize : seen[i]}) = Failures(w)
      <4> HIDE DEF seen, w
      <4> QED
        BY <3>1, <3>2, <3>3, RingCountsAlike
    <3>5. Window!Breach(seen) <=> Breached(w)
      BY <3>4, SameCardinality DEF Breached, Window!Breach
    <3>6. Window!Breach(seen) \in BOOLEAN
      BY DEF Window!Breach
    <3> HIDE DEF seen
    <3>7. CASE Breached(w)
      <4>1. /\ window' = EmptyWindow /\ windowPos' = 0
            /\ cooldownCount = 0 /\ cooldownCount' = Cooldown
            /\ fired' = TRUE
        BY <2>2, <3>7 DEF Record, reset, StartCooldown
      <4>2. Events' = Window!NoFailures
        BY <1>0, <4>1, EmptyRing
      <4> QED
        BY <3>5, <3>6, <3>7, <4>1, <4>2 DEF Window!Remember, seen
    <3>8. CASE ~Breached(w)
      <4>1. /\ window' = w /\ windowPos' = NextPos
            /\ cooldownCount = 0 /\ cooldownCount' = 0
            /\ fired' = FALSE
        BY <2>2, <3>8 DEF Record
      <4>2. Events' = seen
        BY <1>0, <3>3, <4>1
      <4> QED
        BY <3>5, <3>6, <3>8, <4>1, <4>2 DEF Window!Remember, seen
    <3> QED
      BY <3>7, <3>8
  <2> QED
    BY <1>2, <2>1, <2>2 DEF Next, Window!SNext
<1>3. UNCHANGED vars => UNCHANGED Window!svars
  BY DEF vars, Window!svars
<1>4. CountersInv /\ [Next]_vars => [Window!SNext]_(Window!svars)
  BY <1>2, <1>3
<1> QED
  BY <1>1, <1>4, CountersInvariant, PTL DEF Spec, WindowSpec, Window!SSpec

-----------------------------------------------------------------------------
\* The pod around the watchdog.

\* Every step of the pod is one record of the watchdog or leaves it alone.
LEMMA RecoveryStep ==
    ASSUME [RecoveryNext]_recoveryVars
    PROVE  [Next]_vars
<1>1. ASSUME NEW failure \in BOOLEAN, Read(failure) PROVE Next
  BY <1>1 DEF Read, Next
<1>2. ASSUME NEW n \in Servers,
             Connect(n) \/ GetStuck(n) \/ Crash(n) \/ ServerReturns(n)
      PROVE  UNCHANGED vars
  BY <1>2 DEF Connect, GetStuck, Crash, ServerReturns
<1>3. CASE FallSilent \/ SendAgain
  BY <1>3 DEF FallSilent, SendAgain
<1>4. CASE UNCHANGED recoveryVars
  BY <1>4 DEF recoveryVars
<1> QED
  BY <1>1, <1>2, <1>3, <1>4 DEF RecoveryNext

\* The pod with its clients, its bond and its servers implements the watchdog:
\* the events it is fed are reads of Controller.Run (tunnel.go Run).
THEOREM RecoveryImplementsWatchdog == RecoverySpec => Spec
<1>1. RecoveryInit => Init
  BY DEF RecoveryInit
<1> QED
  BY <1>1, RecoveryStep, PTL DEF RecoverySpec, Spec

\* In the pod, too, no run of Cooldown + Threshold timeouts goes by without a
\* restart of the OpenVPN clients, and two restarts are as far apart
\* (tunnel.go Run, watchdog.go record).
THEOREM RecoveryWatched == RecoverySpec => []SilenceNoticed /\ FiresApart
  BY RecoveryImplementsWatchdog, SilenceNoticedTheorem, FiresApartTheorem, PTL
=============================================================================
