----------------------- MODULE PathController_proofs -----------------------
(***************************************************************************)
(* Proofs about PathController for every number of clients, networks,      *)
(* retries and faults: the primary and the routes in the kernel agree.     *)
(***************************************************************************)
EXTENDS PathController, TLAPS

LEMMA InitPathInv == Init => PathInv
<1> SUFFICES ASSUME Init PROVE PathInv
  OBVIOUS
<1>1. TypeOK
  <2>1. Done \in 0 .. Done /\ 1 \in 1 .. Nets /\ MaxFaults \in 0 .. MaxFaults
    BY PathAssumption DEF Done
  <2>2. tried \in [Clients -> 0 .. Done]
    BY <2>1 DEF Init
  <2>3. route \in [1 .. Nets -> Clients \cup {NoClient}]
    BY DEF Init
  <2> QED
    BY <2>1, <2>2, <2>3 DEF Init, TypeOK
<1> QED
  BY <1>1 DEF Init, PathInv, RoutesFollowPrimary, SwitchToGood

LEMMA FaultType ==
    ASSUME TypeOK, Fault \/ UNCHANGED faults
    PROVE  faults' \in 0 .. MaxFaults
  BY PathAssumption DEF TypeOK, Fault

LEMMA TypeStep ==
    ASSUME TypeOK, Next
    PROVE  TypeOK'
<1> USE PathAssumption
<1>0. /\ \A x \in {0, Done} : x \in 0 .. Done
      /\ \A x \in 0 .. Done : x < Tries => x + 1 \in 0 .. Done
      /\ 1 \in 1 .. Nets
  BY DEF Done
<1>1. CASE StartRound
  BY <1>0, <1>1 DEF StartRound, TypeOK
<1>2. ASSUME NEW c \in Clients, PingAnswered(c) PROVE TypeOK'
  BY <1>0, <1>2 DEF PingAnswered, TypeOK
<1>3. ASSUME NEW c \in Clients, PingFailed(c) PROVE TypeOK'
  <2>1. faults' \in 0 .. MaxFaults
    BY <1>3, FaultType DEF PingFailed
  <2>2. tried' \in [Clients -> 0 .. Done]
    BY <1>0, <1>3 DEF PingFailed, TypeOK
  <2> QED
    BY <1>3, <2>1, <2>2 DEF PingFailed, RemoveBad, TypeOK
<1>4. CASE EndPings \/ KeepPrimary
  BY <1>4 DEF EndPings, KeepPrimary, TypeOK
<1>5. ASSUME NEW c \in Clients, SelectNew(c) PROVE TypeOK'
  <2>1. faults' \in 0 .. MaxFaults
    BY <1>5, FaultType DEF SelectNew
  <2> QED
    BY <1>0, <1>5, <2>1 DEF SelectNew, TypeOK
<1>6. CASE ReplaceRoute
  <2>1. next' \in 1 .. Nets
    BY <1>6 DEF ReplaceRoute, TypeOK
  <2>2. route' \in [1 .. Nets -> Clients \cup {NoClient}]
    BY <1>6 DEF ReplaceRoute, TypeOK
  <2>3. partial' \in BOOLEAN
    BY <1>6 DEF ReplaceRoute
  <2> QED
    BY <1>6, <2>1, <2>2, <2>3 DEF ReplaceRoute, TypeOK
<1>7. CASE ReplaceFails
  <2>1. faults' \in 0 .. MaxFaults
    BY <1>7, FaultType DEF ReplaceFails
  <2> QED
    BY <1>0, <1>7, <2>1 DEF ReplaceFails, PrimaryAfterError, TypeOK
<1>8. CASE Restart
  <2>1. faults' \in 0 .. MaxFaults
    BY <1>8, FaultType DEF Restart
  <2> QED
    BY <1>0, <1>8, <2>1 DEF Restart, TypeOK
<1>9. ASSUME NEW c \in Clients, ClientChanges(c) PROVE TypeOK'
  BY <1>9 DEF ClientChanges, TypeOK
<1> QED
  BY <1>1, <1>2, <1>3, <1>4, <1>5, <1>6, <1>7, <1>8, <1>9
     DEF Next, PingStep, Determine, RoutingStep

\* What the routes have to do with the primary survives every step.
LEMMA RoutesStep ==
    ASSUME PathInv, Next
    PROVE  RoutesFollowPrimary' /\ SwitchToGood'
<1> USE PathAssumption DEF PathInv, RoutesFollowPrimary, SwitchToGood
<1>1. CASE StartRound \/ EndPings \/ KeepPrimary
  BY <1>1 DEF StartRound, EndPings, KeepPrimary
<1>2. ASSUME NEW c \in Clients, PingStep(c)
      PROVE  RoutesFollowPrimary' /\ SwitchToGood'
  BY <1>2 DEF PingStep, PingAnswered, PingFailed
<1>3. ASSUME NEW c \in Clients, SelectNew(c)
      PROVE  RoutesFollowPrimary' /\ SwitchToGood'
  BY <1>3 DEF SelectNew, PrimaryIsGood
<1>4. CASE ReplaceRoute
  <2>1. CASE next < Nets
    BY <1>4, <2>1 DEF ReplaceRoute, TypeOK
  <2>2. CASE ~(next < Nets)
    <3>1. next = Nets
      BY <2>2 DEF TypeOK
    <3>2. /\ route' = [route EXCEPT ![Nets] = target]
          /\ primary' = target /\ pc' = "idle"
      BY <1>4, <2>2, <3>1 DEF ReplaceRoute
    <3>3. \A n \in 1 .. Nets - 1 : route[n] = target
      BY <1>4, <3>1 DEF ReplaceRoute
    <3>4. \A n \in 1 .. Nets : route'[n] = primary'
      BY <3>2, <3>3 DEF TypeOK
    <3> QED
      BY <3>2, <3>4
  <2> QED
    BY <2>1, <2>2
<1>5. CASE ReplaceFails
  BY <1>5 DEF ReplaceFails, PrimaryAfterError
<1>6. CASE Restart
  BY <1>6 DEF Restart
<1>7. ASSUME NEW c \in Clients, ClientChanges(c)
      PROVE  RoutesFollowPrimary' /\ SwitchToGood'
  BY <1>7 DEF ClientChanges
<1> QED
  BY <1>1, <1>2, <1>3, <1>4, <1>5, <1>6, <1>7
     DEF Next, Determine, RoutingStep

\* The inductive invariant of the path controller holds in every reachable
\* state (client_router.go Run).
THEOREM PathInvariant == Spec => []PathInv
<1>1. PathInv /\ Next => PathInv'
  BY TypeStep, RoutesStep DEF PathInv
<1>2. PathInv /\ UNCHANGED vars => PathInv'
  BY DEF vars, PathInv, TypeOK, RoutesFollowPrimary, SwitchToGood
<1> QED
  BY InitPathInv, <1>1, <1>2, PTL DEF Spec

\* All networks are routed through the primary unless the last updateRouting
\* stopped half way (client_router.go determinePrimaryShootClient,
\* updateRouting).
THEOREM RoutesFollowPrimaryTheorem == Spec => []RoutesFollowPrimary
<1>1. PathInv => RoutesFollowPrimary
  BY DEF PathInv
<1> QED
  BY <1>1, PathInvariant, PTL
=============================================================================
