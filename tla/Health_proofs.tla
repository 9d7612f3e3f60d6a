---------------------------- MODULE Health_proofs ----------------------------
(***************************************************************************)
(* Proofs about Health, for every interval, slack, delay and keepalive.    *)
(***************************************************************************)
EXTENDS Health, TLAPS

USE HealthAssumption DEF HealthAssumption, Kinds, Undef, MaxAge, NoTime, MaxLag

\* Every form of a client's address is parsed.
LEMMA AddressesParse ==
    \A k \in Kinds \cup {Undef} : parseRealClientAddress(AddressForm(k))
  BY DEF parseRealClientAddress, AddressForm

\* A working server with a complete file passes the liveness probe.
LEMMA InvImpliesSteady == HealthInv => SteadyIsAlive
  <1>1. HealthInv /\ Healthy /\ ~rewriting => ~torn /\ isUp
    BY DEF HealthInv, TypeOK, FileOfLastRewrite, Healthy, isUp
  <1>2. HealthInv /\ ~torn => ~ParseFails
    BY AddressesParse DEF HealthInv, TypeOK, ParseFails, Clients
  <1> QED BY <1>1, <1>2 DEF SteadyIsAlive, IsAlive

\* What both probes accept is current.
LEMMA InvImpliesCurrent == HealthInv => ReadyIsCurrent
  BY DEF HealthInv, TypeOK, LinesByAge, ReadyIsCurrent, IsAlive, IsReady,
         isReady, isUp, Clients

LEMMA InitInv == Init => HealthInv
  <1> SUFFICES ASSUME Init PROVE HealthInv
    OBVIOUS
  <1> USE DEF Init
  <1>1. TypeOK
    <2>1. isHA \in BOOLEAN /\ rewriting \in BOOLEAN /\ written \in BOOLEAN
          /\ torn \in BOOLEAN
      BY Zenon
    <2> QED BY <2>1 DEF TypeOK
  <1>2. OpenVPNInTime /\ FileOfLastRewrite
    BY DEF OpenVPNInTime, FileOfLastRewrite
  <1>3. LinesByAge /\ FailuresFollowRewrites
    BY DEF LinesByAge, FailuresFollowRewrites
  <1> QED BY <1>1, <1>2, <1>3 DEF HealthInv

\* Every step preserves the invariant.
LEMMA StepInv == HealthInv /\ [Next]_vars => HealthInv'
  <1> SUFFICES ASSUME HealthInv, [Next]_vars PROVE HealthInv'
    OBVIOUS
  <1> USE DEF HealthInv, TypeOK, Fault
  <1>1. CASE Start
    <2> USE <1>1 DEF Start, clients
    <2>1. isHA' \in BOOLEAN /\ rewriting' \in BOOLEAN /\ written' \in BOOLEAN
          /\ torn' \in BOOLEAN
      BY Zenon
    <2>2. proc = "starting" /\ proc' = "running" /\ ~torn'
      BY Zenon
    <2>3. TypeOK'
      BY <2>1
    <2>4. OpenVPNInTime'
      BY <2>2 DEF OpenVPNInTime
    <2>5. FileOfLastRewrite'
      BY <2>2 DEF FileOfLastRewrite, OpenVPNInTime
    <2>6. LinesByAge'
      BY DEF LinesByAge, OpenVPNInTime
    <2>7. FailuresFollowRewrites'
      BY <2>2 DEF FailuresFollowRewrites, OpenVPNInTime
    <2> QED BY <2>3, <2>4, <2>5, <2>6, <2>7
  <1>2. CASE BeginRewrite
    <2> USE <1>2 DEF BeginRewrite, Overwrite, clients
    <2>1. isHA' \in BOOLEAN /\ rewriting' \in BOOLEAN /\ written' \in BOOLEAN
          /\ torn' \in BOOLEAN
      BY Zenon
    <2>2. rewriting'
      BY Zenon
    <2>3. TypeOK'
      <3>1. todo' \cup listed' \cup left' \subseteq Kinds \cup {Undef}
        OBVIOUS
      <3>2. timer' \in 0 .. Interval + Delay /\ time' \in 0 .. NoTime
        OBVIOUS
      <3> QED BY <2>1, <3>1, <3>2
    <2>4. OpenVPNInTime'
      BY <2>2 DEF OpenVPNInTime
    <2>5. FileOfLastRewrite'
      BY <2>2 DEF FileOfLastRewrite, OpenVPNInTime
    <2>6. LinesByAge'
      BY DEF LinesByAge, OpenVPNInTime
    <2>7. FailuresFollowRewrites'
      BY <2>2 DEF FailuresFollowRewrites, OpenVPNInTime
    <2> QED BY <2>3, <2>4, <2>5, <2>6, <2>7
  <1>3. CASE EndRewrite
    <2> USE <1>3 DEF EndRewrite, clients
    <2>1. isHA' \in BOOLEAN /\ rewriting' \in BOOLEAN /\ written' \in BOOLEAN
          /\ torn' \in BOOLEAN
      BY Zenon
    <2>2. ~rewriting' /\ ~torn'
      BY Zenon
    <2>3. TypeOK'
      BY <2>1
    <2>4. OpenVPNInTime'
      BY <2>2 DEF OpenVPNInTime
    <2>5. FileOfLastRewrite'
      BY <2>2 DEF FileOfLastRewrite, OpenVPNInTime
    <2>6. LinesByAge'
      BY DEF LinesByAge, OpenVPNInTime
    <2>7. FailuresFollowRewrites'
      BY <2>2 DEF FailuresFollowRewrites, OpenVPNInTime
    <2> QED BY <2>3, <2>4, <2>5, <2>6, <2>7
  <1>4. ASSUME NEW k \in Kinds \cup {Undef}, WriteClient(k) PROVE HealthInv'
    BY <1>4 DEF WriteClient, Overwrite, clients, OpenVPNInTime,
                FileOfLastRewrite, LinesByAge, FailuresFollowRewrites
  <1>5. CASE Hang
    BY <1>5 DEF Hang, clients, file, OpenVPNInTime, FileOfLastRewrite,
                LinesByAge, FailuresFollowRewrites
  <1>6. CASE Restart
    <2> USE <1>6 DEF Restart, clients, file
    <2>1. isHA' \in BOOLEAN /\ rewriting' \in BOOLEAN /\ written' \in BOOLEAN
          /\ torn' \in BOOLEAN
      BY Zenon
    <2>2. ~rewriting' /\ ~written'
      BY Zenon
    <2>3. TypeOK'
      <3>1. /\ time' \in 0 .. NoTime
            /\ todo' \cup listed' \cup left' \subseteq Kinds \cup {Undef}
        OBVIOUS
      <3> QED BY <2>1, <3>1
    <2>4. OpenVPNInTime'
      BY <2>2 DEF OpenVPNInTime
    <2>5. FileOfLastRewrite'
      BY <2>2 DEF FileOfLastRewrite, OpenVPNInTime
    <2>6. LinesByAge'
      BY DEF LinesByAge, OpenVPNInTime
    <2>7. FailuresFollowRewrites'
      BY <2>2 DEF FailuresFollowRewrites, OpenVPNInTime
    <2> QED BY <2>3, <2>4, <2>5, <2>6, <2>7
  <1>7. ASSUME NEW k \in Kinds, Connect(k) PROVE HealthInv'
    BY <1>7 DEF Connect, file, OpenVPNInTime, FileOfLastRewrite, LinesByAge,
                FailuresFollowRewrites
  <1>8. ASSUME NEW k \in Kinds, Reconnect(k) PROVE HealthInv'
    BY <1>8 DEF Reconnect, clients, file, OpenVPNInTime, FileOfLastRewrite,
                LinesByAge, FailuresFollowRewrites
  <1>9. ASSUME NEW k \in Kinds, Leave(k) PROVE HealthInv'
    BY <1>9 DEF Leave, file, OpenVPNInTime, FileOfLastRewrite, LinesByAge,
                FailuresFollowRewrites
  <1>10. ASSUME NEW k \in Kinds, Drop(k) PROVE HealthInv'
    BY <1>10 DEF Drop, clients, file, OpenVPNInTime, FileOfLastRewrite,
                 LinesByAge, FailuresFollowRewrites
  <1>11. CASE Tick
    BY <1>11 DEF Tick, InTime, Overdue, CappedInc, OpenVPNInTime,
                 FileOfLastRewrite, LinesByAge, FailuresFollowRewrites
  <1>12. CASE ProbeFails
    <2>1. rewriting
      BY <1>12, InvImpliesSteady DEF ProbeFails, SteadyIsAlive
    <2> QED
      BY <1>12, <2>1 DEF ProbeFails, Healthy, openvpn, clients, file,
                         OpenVPNInTime, FileOfLastRewrite, LinesByAge,
                         FailuresFollowRewrites
  <1>13. CASE UNCHANGED vars
    BY <1>13 DEF vars, openvpn, clients, file, OpenVPNInTime,
                 FileOfLastRewrite, LinesByAge, FailuresFollowRewrites
  <1> QED
    BY <1>1, <1>2, <1>3, <1>4, <1>5, <1>6, <1>7, <1>8, <1>9, <1>10, <1>11,
       <1>12, <1>13 DEF Next, OpenVPNStep

\* The parts of HealthInv hold in every reachable state: OpenVPN keeps its
\* deadlines, and the lines of the file are as old as they may be.
THEOREM HealthInvariant == Spec => []HealthInv
  BY InitInv, StepInv, PTL DEF Spec

\* Both probes together never accept a client that has been gone for longer
\* than MaxLag (status.go isUp, isReady).
THEOREM ReadyIsCurrentTheorem == Spec => []ReadyIsCurrent
  BY HealthInvariant, InvImpliesCurrent, PTL

\* A working server with a complete file is alive (status.go isUp,
\* parseRealClientAddress).
THEOREM SteadyIsAliveTheorem == Spec => []SteadyIsAlive
  BY HealthInvariant, InvImpliesSteady, PTL

\* A file that is being rewritten costs a working server one liveness probe
\* per interval (readiness.go IsAlive).
THEOREM FailuresApartTheorem == Spec => FailuresApart
  <1>1. HealthInv /\ ProbeFails => lastFail = 0 \/ lastFail >= Interval
    BY InvImpliesSteady
       DEF ProbeFails, SteadyIsAlive, HealthInv, FailuresFollowRewrites,
           Healthy
  <1> QED BY <1>1, HealthInvariant, PTL DEF FailuresApart
=============================================================================
