----------------------------- MODULE ClientPod -----------------------------
(***************************************************************************)
(* A pod of a highly available VPN: the setup container (ClientSetup) and  *)
(* then one container per VPN server, which cleans its tap device up       *)
(* (pkg/vpn_client/cleanup.go) and starts OpenVPN.  OpenVPN adds the       *)
(* address that its server assigns.  When it is killed, the address stays  *)
(* on the device, which is not its own; an address that is already there   *)
(* cannot be added.  The kernel removes IPv6 addresses from a device that  *)
(* is set down, unless keep_addr_on_down tells it not to.                  *)
(***************************************************************************)
EXTENDS ClientSetup

CONSTANT Hosts    \* last bytes of the addresses that a VPN server assigns

ASSUME PodAssumption == Hosts # {} /\ Hosts \subseteq 0 .. Byte - 1

VARIABLES
    client,     \* client[n]: position of the container for VPN server n
    listed,     \* listed[n]: the addresses that Cleanup still has to delete
    addrs,      \* kernel: addrs[n] are the addresses of tap<n>
    keepAddrs   \* kernel: keep_addr_on_down

podVars == <<vars, client, listed, addrs, keepAddrs>>

PodInit ==
    /\ Init
    /\ client = [n \in Taps |-> "cleanup"]
    /\ listed = [n \in Taps |-> {}]
    /\ addrs = [n \in Taps |-> {}]
    /\ keepAddrs \in BOOLEAN

Step(n, from, to) == client[n] = from /\ client' = [client EXCEPT ![n] = to]

-----------------------------------------------------------------------------
\* The containers.  They run when the setup is done.

\* Cleanup: the addresses are listed; when there are any, the device is set
\* down and each of them deleted.
ListAddresses(n) ==
    /\ pc = "done"
    /\ Step(n, "cleanup", IF addrs[n] = {} THEN "openvpn" ELSE "setDown")
    /\ listed' = [listed EXCEPT ![n] = addrs[n]]
    /\ UNCHANGED <<vars, addrs, keepAddrs>>

SetDown(n) ==
    /\ Step(n, "setDown", "delete")
    /\ addrs' = [addrs EXCEPT ![n] = IF keepAddrs THEN @ ELSE {}]
    /\ UNCHANGED <<vars, listed, keepAddrs>>

\* (Mutant: AddrDel does nothing.)
AddrDelNone(n, ip) == UNCHANGED addrs
AddrDel(n, ip) == addrs' = [addrs EXCEPT ![n] = @ \ {ip}]

\* Deleting an address that is gone is an error; the container ends and is
\* started again.
DeleteAddress(n, ip) ==
    /\ client[n] = "delete" /\ ip \in listed[n]
    /\ IF ip \in addrs[n]
       THEN /\ AddrDel(n, ip)
            /\ listed' = [listed EXCEPT ![n] = @ \ {ip}]
            /\ Step(n, "delete", IF listed[n] = {ip} THEN "openvpn" ELSE "delete")
       ELSE /\ Step(n, "delete", "cleanup")
            /\ UNCHANGED <<listed, addrs>>
    /\ UNCHANGED <<vars, keepAddrs>>

\* The addresses that VPN server n assigns.  Its configuration has the network
\* HAVPNTunnelNetwork(n).
Assigned(n) ==
    {ip \in {0, 1} \X Taps \X {0} \X Hosts : InHAVPNTunnelNetwork(n, ip)}

\* OpenVPN connects and adds its address, or fails and ends.
Connect(n, ip) ==
    /\ IF ip \in addrs[n]
       THEN Step(n, "openvpn", "cleanup") /\ UNCHANGED addrs
       ELSE /\ Step(n, "openvpn", "connected")
            /\ addrs' = [addrs EXCEPT ![n] = @ \cup {ip}]
    /\ UNCHANGED <<vars, listed, keepAddrs>>

ClientStep(n) ==
    \/ ListAddresses(n) \/ SetDown(n)
    \/ \E ip \in listed[n] : DeleteAddress(n, ip)
    \/ \E ip \in Assigned(n) : Connect(n, ip)

\* A container fails or is killed; OpenVPN may have removed its address.
ClientRestart(n) ==
    /\ faults > 0 /\ faults' = faults - 1
    /\ pc = "done"
    /\ client' = [client EXCEPT ![n] = "cleanup"]
    /\ addrs' \in IF client[n] = "connected"
                  THEN {addrs, [addrs EXCEPT ![n] = {}]} ELSE {addrs}
    /\ UNCHANGED <<cfg, pc, i, sysctl, devices, listed, keepAddrs>>

-----------------------------------------------------------------------------
\* A tap device takes its addresses along when it is deleted.
PodCall ==
    /\ Call
    /\ addrs' = [n \in Taps |-> IF tap'[n].index = 0 THEN {} ELSE addrs[n]]
    /\ UNCHANGED <<client, listed, keepAddrs>>

\* When the setup runs once more, the other containers wait for it.
PodRestart ==
    /\ Restart
    /\ client' = [n \in Taps |-> "cleanup"]
    /\ UNCHANGED <<listed, addrs, keepAddrs>>

PodNext ==
    \/ PodCall \/ PodRestart
    \/ \E n \in Taps : ClientStep(n) \/ ClientRestart(n)

PodSpec == PodInit /\ [][PodNext]_podVars

\* The kernel answers, and the kubelet starts containers that failed.
PodFairSpec ==
    /\ PodSpec
    /\ WF_podVars(PodCall)
    /\ \A n \in Taps : WF_podVars(ClientStep(n))

-----------------------------------------------------------------------------
\* A device of OpenVPN has no address of an earlier connection beside the one
\* of the current connection (cleanup.go Cleanup).
OneAddress == \A n \in Taps : \A ip1, ip2 \in addrs[n] : ip1 = ip2

\* The addresses of a device are in no network of another one, so that the
\* kernel has a single device to send to them (ip.go).
OwnNetworks ==
    /\ \A n \in Taps : \A ip \in addrs[n] :
          /\ ~InBondNetwork(ip)
          /\ \A m \in Taps \ {n} : ~InHAVPNTunnelNetwork(m, ip)
    /\ bond.address # NoAddress =>
          \A n \in Taps : ~InHAVPNTunnelNetwork(n, bond.address)

\* With a configuration that is accepted and IPv6 enabled, the pod gets all
\* its connections, whatever devices and addresses failed attempts and killed
\* processes left behind; a shoot client cannot enable IPv6 itself (bonding.go
\* ConfigureBonding, link.go DeleteLinkByName, cleanup.go Cleanup).
PodConnects ==
    <>[](cfg.BondingMode \in BondingModes /\ (cfg.IsShootClient => cfg.ipv6) =>
            pc = "done" /\ \A n \in Taps : client[n] = "connected")
=============================================================================
