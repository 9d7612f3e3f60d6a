--------------------------- MODULE PathController ---------------------------
(***************************************************************************)
(* cmd/vpn_client/app/pathcontroller: beside every kube-apiserver, the     *)
(* path controller pings all VPN shoot clients on every tick, keeps the    *)
(* set of those that answered and routes the shoot networks through one    *)
(* of them, its primary.  The pings of a round run concurrently, each with *)
(* retries; the routes are replaced one after the other and may fail in    *)
(* between; the container may restart while the routes stay in the kernel. *)
(* The datagrams with the pod IP that a round also sends are the input of  *)
(* TunnelController and change nothing here.                               *)
(***************************************************************************)
EXTENDS Naturals, FiniteSets

CONSTANTS
    Clients,      \* bond addresses of the VPN shoot clients
    NoClient,     \* primary == nil, or a network without a route
    Nets,         \* number of networks that updateRouting replaces
    Tries,        \* pings until a client counts as bad (retries + 1)
    MaxFaults     \* bound: lost pings, failed kernel calls and restarts

ASSUME PathAssumption ==
    /\ NoClient \notin Clients
    /\ Nets \in Nat \ {0} /\ Tries \in Nat \ {0} /\ MaxFaults \in Nat

VARIABLES
    up,         \* environment: the clients that answer
    goodIPs,    \* clientRouter.goodIPs
    primary,    \* clientRouter.primary
    pc,         \* "idle", "ping", "determine" or "routing"
    tried,      \* tried[c]: failed pings of c in this round; Done: c is done
    target,     \* newIP while updateRouting runs
    next,       \* the network updateRouting replaces next
    route,      \* kernel: the client each network is routed through
    faults,     \* faults still to come
    partial     \* history: the last updateRouting did not finish

vars == <<up, goodIPs, primary, pc, tried, target, next, route, faults,
          partial>>

\* The ping goroutine of a client has ended.
Done == Tries + 1

Init ==
    /\ up \in SUBSET Clients
    /\ goodIPs = {} /\ primary = NoClient
    /\ pc = "idle"
    /\ tried = [c \in Clients |-> Done]
    /\ target = NoClient /\ next = 1
    /\ route = [n \in 1 .. Nets |-> NoClient]
    /\ faults = MaxFaults
    /\ partial = FALSE

Fault == faults > 0 /\ faults' = faults - 1

-----------------------------------------------------------------------------
\* The ticker fires: pingAllShootClients starts a goroutine per client.
StartRound ==
    /\ pc = "idle"
    /\ pc' = "ping"
    /\ tried' = [c \in Clients |-> 0]
    /\ UNCHANGED <<up, goodIPs, primary, target, next, route, faults, partial>>

\* An echo request is answered: the client is good.
PingAnswered(c) ==
    /\ pc = "ping" /\ tried[c] < Tries
    /\ c \in up
    /\ goodIPs' = goodIPs \cup {c}
    /\ tried' = [tried EXCEPT ![c] = Done]
    /\ UNCHANGED <<up, primary, pc, target, next, route, faults, partial>>

\* (Mutant: a client that does not answer stays in the pool.)
KeepBad(c) == goodIPs
RemoveBad(c) == goodIPs \ {c}

\* An echo request is not answered: after the last one the client is bad.
PingFailed(c) ==
    /\ pc = "ping" /\ tried[c] < Tries
    /\ \/ c \notin up /\ UNCHANGED faults
       \/ c \in up /\ Fault
    /\ IF tried[c] + 1 < Tries
       THEN /\ tried' = [tried EXCEPT ![c] = @ + 1]
            /\ UNCHANGED goodIPs
       ELSE /\ tried' = [tried EXCEPT ![c] = Done]
            /\ goodIPs' = RemoveBad(c)
    /\ UNCHANGED <<up, primary, pc, target, next, route, partial>>

\* wg.Wait() returns.
EndPings ==
    /\ pc = "ping" /\ \A c \in Clients : tried[c] = Done
    /\ pc' = "determine"
    /\ UNCHANGED <<up, goodIPs, primary, tried, target, next, route, faults,
                   partial>>

-----------------------------------------------------------------------------
\* determinePrimaryShootClient: a primary in the pool stays.
\* (Mutant: once chosen it stays.)
HasPrimary == primary # NoClient
PrimaryIsGood == primary \in goodIPs

KeepPrimary ==
    /\ pc = "determine"
    /\ PrimaryIsGood \/ goodIPs = {}
    /\ pc' = "idle"
    /\ UNCHANGED <<up, goodIPs, primary, tried, target, next, route, faults,
                   partial>>

\* Else any member of the pool is chosen and its device looked up.
SelectNew(c) ==
    /\ pc = "determine" /\ ~PrimaryIsGood
    /\ c \in goodIPs
    /\ \/ /\ pc' = "routing" /\ target' = c /\ next' = 1
          /\ UNCHANGED faults
       \/ Fault /\ pc' = "idle" /\ UNCHANGED <<target, next>>
    /\ UNCHANGED <<up, goodIPs, primary, tried, route, partial>>

\* One RouteReplace of updateRouting; the primary changes after the last.
ReplaceRoute ==
    /\ pc = "routing"
    /\ route' = [route EXCEPT ![next] = target]
    /\ IF next < Nets
       THEN /\ next' = next + 1 /\ partial' = TRUE
            /\ UNCHANGED <<primary, pc, target>>
       ELSE /\ primary' = target
            /\ pc' = "idle" /\ target' = NoClient /\ next' = 1
            /\ partial' = FALSE
    /\ UNCHANGED <<up, goodIPs, tried, faults>>

\* (Mutant: the primary is switched although the routes are not.)
SwitchAnyway == target
PrimaryAfterError == primary

\* A RouteReplace fails: updateRouting returns, the routes replaced so far
\* stay and the primary does not change.
ReplaceFails ==
    /\ pc = "routing"
    /\ Fault
    /\ primary' = PrimaryAfterError
    /\ pc' = "idle" /\ target' = NoClient /\ next' = 1
    /\ UNCHANGED <<up, goodIPs, tried, route, partial>>

-----------------------------------------------------------------------------
\* The container restarts, the network namespace of the pod survives.
Restart ==
    /\ Fault
    /\ goodIPs' = {} /\ primary' = NoClient
    /\ pc' = "idle" /\ target' = NoClient /\ next' = 1
    /\ tried' = [c \in Clients |-> Done]
    /\ UNCHANGED <<up, route, partial>>

\* A client, or its VPN connection, comes or goes.
ClientChanges(c) ==
    /\ up' = IF c \in up THEN up \ {c} ELSE up \cup {c}
    /\ UNCHANGED <<goodIPs, primary, pc, tried, target, next, route, faults,
                   partial>>

PingStep(c) == PingAnswered(c) \/ PingFailed(c)

Determine == KeepPrimary \/ \E c \in Clients : SelectNew(c)

RoutingStep == ReplaceRoute \/ ReplaceFails

Next ==
    \/ StartRound
    \/ \E c \in Clients : PingStep(c)
    \/ EndPings
    \/ Determine
    \/ RoutingStep
    \/ Restart
    \/ \E c \in Clients : ClientChanges(c)

Spec == Init /\ [][Next]_vars

\* The ticker fires, goroutines run, a ping ends by its deadline.
FairSpec ==
    /\ Spec
    /\ WF_vars(StartRound)
    /\ \A c \in Clients : WF_vars(PingStep(c))
    /\ WF_vars(EndPings)
    /\ WF_vars(Determine)
    /\ WF_vars(RoutingStep)

-----------------------------------------------------------------------------
TypeOK ==
    /\ up \subseteq Clients /\ goodIPs \subseteq Clients
    /\ primary \in Clients \cup {NoClient}
    /\ pc \in {"idle", "ping", "determine", "routing"}
    /\ tried \in [Clients -> 0 .. Done]
    /\ target \in Clients \cup {NoClient}
    /\ next \in 1 .. Nets
    /\ route \in [1 .. Nets -> Clients \cup {NoClient}]
    /\ faults \in 0 .. MaxFaults
    /\ partial \in BOOLEAN

\* Unless the last updateRouting stopped half way, all networks are routed
\* through the primary; while it runs, the networks before next are routed
\* through the new client and the others as before, so that the primary and
\* the kernel never disagree silently (client_router.go
\* determinePrimaryShootClient, updateRouting).
RoutesFollowPrimary ==
    /\ primary # NoClient /\ ~partial =>
          \A n \in 1 .. Nets : route[n] = primary
    /\ pc = "routing" =>
          /\ \A n \in 1 .. next - 1 : route[n] = target
          /\ next > 1 => partial

\* When the clients that answer no longer change, the primary becomes and
\* stays one of them, in spite of lost pings, kernel failures and restarts
\* (client_router.go Run).
PrimarySettles ==
    \A good \in SUBSET Clients \ {{}} :
        <>[](up = good) => <>[](primary \in good)

\* "allowing contacting any IP address within its network" (README.md, VPN
\* Client): when the clients that answer no longer change, all networks end
\* up routed through clients that answer, unless an updateRouting stopped half
\* way and its old primary came back, so that none follows (client_router.go
\* determinePrimaryShootClient, updateRouting).
TrafficSettles ==
    \A good \in SUBSET Clients \ {{}} :
        <>[](up = good) =>
            \/ <>[](\A n \in 1 .. Nets : route[n] \in good)
            \/ <>[](partial /\ primary \in good)

-----------------------------------------------------------------------------
\* The inductive invariant of PathController_proofs.

\* The pool does not change while the routes are replaced: the pings of a
\* round end before updateRouting and the next round starts after it.
SwitchToGood ==
    pc = "routing" => target \in goodIPs /\ primary \notin goodIPs

PathInv == TypeOK /\ RoutesFollowPrimary /\ SwitchToGood
=============================================================================
