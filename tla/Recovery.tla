------------------------------ MODULE Recovery ------------------------------
(***************************************************************************)
(* The watchdog of a shoot client together with what it watches and        *)
(* restarts: the pod has an OpenVPN client per VPN server, each with a tap *)
(* device of the bond.  Datagrams of the path controllers come through the *)
(* active devices of the bond, which the kernel chooses by their carrier:  *)
(* a client that is stuck still has its device open.  The watchdog sends   *)
(* SIGHUP to management ports, numbered by clients, while the clients of   *)
(* the pod listen on ports numbered by servers (vpn_client app.go          *)
(* vpnConfig).                                                             *)
(***************************************************************************)
EXTENDS Watchdog

CONSTANTS
    HAVPNServers,   \* OpenVPN clients of the pod
    Reconnect,      \* read timeouts that a client needs to connect, at most
    MaxFaults       \* bound: clients that get stuck or crash, servers that
                    \* are lost, writes that fail, senders that fall silent

\* There is a port for every OpenVPN client, and a client that was restarted
\* is connected again before the next restart can come.
ASSUME RecoveryAssumption ==
    /\ HAVPNServers \in 1 .. HAVPNClients
    /\ Reconnect \in 1 .. Spacing - 1
    /\ MaxFaults \in Nat

VARIABLES
    activeBackup,   \* the bonding mode, else balance-rr
    client,         \* client[n]: "ok", "stuck" or "down", that is connecting
    wait,           \* wait[n]: read timeouts until client n is connected
    servers,        \* VPN servers that clients can connect to
    sending,        \* there are path controllers that send
    faults          \* faults still to come

recoveryVars == <<vars, activeBackup, client, wait, servers, sending, faults>>

Servers == 0 .. HAVPNServers - 1

RecoveryInit ==
    /\ Init
    /\ activeBackup \in BOOLEAN
    /\ client = [n \in Servers |-> "ok"]
    /\ wait = [n \in Servers |-> 0]
    /\ servers = Servers
    /\ sending = TRUE
    /\ faults = MaxFaults

Fault == faults > 0 /\ faults' = faults - 1

-----------------------------------------------------------------------------
\* The bond: in active-backup mode tap0 is the primary and used whenever it
\* has a carrier.
WithCarrier == {n \in Servers : client[n] # "down"}

Active ==
    IF activeBackup /\ 0 \in WithCarrier THEN {0} ELSE WithCarrier

\* A read may return a datagram, or time out.
CanReceive == sending /\ \E n \in Active : client[n] = "ok"
CanTimeOut == ~sending \/ Active = {} \/ \E n \in Active : client[n] # "ok"

\* The loop of the action ends after the last port, or at the first that
\* nobody listens on: a client that is connecting may have closed its port.
EndsAt(n) ==
    /\ 0 .. n - 1 \subseteq Servers
    /\ n \in {HAVPNClients, HAVPNServers} \cup (Servers \ WithCarrier)

\* SIGHUP makes a client close its device and connect anew.
Signal(reached) ==
    [n \in Servers |-> IF n < reached THEN "down" ELSE client[n]]

\* What is left of the wait after a read: those that were restarted begin
\* anew with d timeouts, the others have waited during t timeouts.
Waiting(d, t) ==
    [n \in Servers |->
        IF n < signalled' THEN d ELSE IF wait[n] > t THEN wait[n] - t ELSE 0]

\* A client whose wait is over connects if its server is there.
Connecting(n) == client[n] = "down" /\ n \in servers /\ wait[n] = 0

\* A read of Controller.Run, what the watchdog makes of it and what becomes of
\* the clients.
Read(failure) ==
    /\ \A n \in Servers : ~Connecting(n)
    /\ IF failure THEN CanTimeOut ELSE CanReceive
    /\ \/ RecordInCooldown(failure) /\ UNCHANGED faults
       \/ \E reached \in 0 .. HAVPNClients :
             /\ Record(failure, reached)
             /\ IF fired' THEN \/ EndsAt(reached) /\ UNCHANGED faults
                               \/ \E n \in Servers : /\ EndsAt(n + 1)
                                                     /\ reached <= n
                                                     /\ Fault
                ELSE reached = 0 /\ UNCHANGED faults
    /\ client' = Signal(signalled')
    /\ \E d \in IF fired' THEN 0 .. Reconnect ELSE {0},
          t \in IF failure THEN {1} ELSE {0, 1} :
          wait' = Waiting(d, t)
    /\ UNCHANGED <<activeBackup, servers, sending>>

Connect(n) ==
    /\ Connecting(n)
    /\ client' = [client EXCEPT ![n] = "ok"]
    /\ UNCHANGED <<vars, activeBackup, wait, servers, sending, faults>>

-----------------------------------------------------------------------------
\* Faults.

\* A connection hangs although both of its ends are there.
GetStuck(n) ==
    /\ client[n] = "ok" /\ Fault
    /\ client' = [client EXCEPT ![n] = "stuck"]
    /\ UNCHANGED <<vars, activeBackup, wait, servers, sending>>

\* A client crashes and its container starts again, or its server is lost.
Crash(n) ==
    /\ client[n] # "down" /\ Fault
    /\ client' = [client EXCEPT ![n] = "down"]
    /\ \E d \in 0 .. Reconnect : wait' = [wait EXCEPT ![n] = d]
    /\ servers' \in {servers, servers \ {n}}
    /\ UNCHANGED <<vars, activeBackup, sending>>

ServerReturns(n) ==
    /\ n \notin servers
    /\ servers' = servers \cup {n}
    /\ \E d \in 0 .. Reconnect : wait' = [wait EXCEPT ![n] = d]
    /\ UNCHANGED <<vars, activeBackup, client, sending, faults>>

\* All kube-apiservers are gone.
FallSilent ==
    /\ sending /\ Fault
    /\ sending' = FALSE
    /\ UNCHANGED <<vars, activeBackup, client, wait, servers>>

SendAgain ==
    /\ ~sending
    /\ sending' = TRUE
    /\ UNCHANGED <<vars, activeBackup, client, wait, servers, faults>>

RecoveryNext ==
    \/ \E failure \in BOOLEAN : Read(failure)
    \/ \E n \in Servers : 
            Connect(n) \/ GetStuck(n) \/ Crash(n) \/ ServerReturns(n)
    \/ FallSilent \/ SendAgain

RecoverySpec == RecoveryInit /\ [][RecoveryNext]_recoveryVars

\* The action reaches all clients.
AllReached ==
    \E failure \in BOOLEAN :
        Read(failure) /\ fired' /\ signalled' = HAVPNServers

\* Reads end, clients connect, there will be kube-apiservers again, and a
\* client that tries to connect has its port open most of the time.
RecoveryFairSpec ==
    /\ RecoverySpec
    /\ WF_recoveryVars(\E failure \in BOOLEAN : Read(failure))
    /\ SF_recoveryVars(AllReached)
    /\ \A n \in Servers : WF_recoveryVars(Connect(n))
    /\ WF_recoveryVars(SendAgain)

-----------------------------------------------------------------------------
\* The pod recovers: whichever connections hung, in whichever order clients
\* crashed and servers were lost, and wherever the action ended with an error,
\* in the end the bond uses a device with a working connection, unless all
\* servers are gone.  In particular the watchdog does not restart the clients
\* so often that they never get connected (tunnel.go Run, watchdog.go record).
Recovers == <>[](servers # {} => \E n \in Active : client[n] = "ok")
=============================================================================
