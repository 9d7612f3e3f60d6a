---------------------------- MODULE ClientSetup ----------------------------
(***************************************************************************)
(* The setup container of a pod of a highly available VPN                  *)
(* (cmd/vpn_client/app/setup): kernel settings (pkg/vpn_client/sysctl.go), *)
(* then ConfigureBonding (pkg/vpn_client/bonding.go), which creates a tap  *)
(* device per VPN server, bonds them, gives the bond its address and,      *)
(* beside a kube-apiserver, adds a tunnel device per shoot client.  Every  *)
(* call may fail and the container may die between two of them; it starts  *)
(* again from the beginning and finds the devices it left behind.  The     *)
(* bond address of a kube-apiserver comes from IPPool, which keeps it.     *)
(***************************************************************************)
EXTENDS Addresses, Sequences

CONSTANTS
    HAVPNServers, HAVPNClients,
    Environments,   \* environments of the container
    NoNumber,       \* suffix of a pod name that does not end in a number
    MaxFaults       \* bound: failed calls and restarts

\* What the container finds: its role, the suffix of the pod name, the bonding
\* mode, whether the MTU is detected, the index of the address in the pool,
\* and whether IPv6 is enabled in the pod.
Environment ==
    [IsShootClient : BOOLEAN, suffix : Nat \cup {NoNumber},
     BondingMode : STRING, AutoMTU : BOOLEAN,
     poolIndex : startIndexSeed .. endIndexSeed, ipv6 : BOOLEAN]

ASSUME SetupAssumption ==
    /\ HAVPNServers \in Nat \ {0} /\ HAVPNClients \in Nat \ {0}
    /\ HAVPNServers < Byte
    /\ NoNumber \notin Nat
    /\ Environments \subseteq Environment
    /\ MaxFaults \in Nat

VARIABLES
    cfg,         \* the environment
    pc, i,       \* next call, index of the loop it is in
    sysctl,      \* kernel: settings that have the value they need
    tap,         \* kernel: tap[n] is the device tap<n>
    bond,        \* kernel: the device bond0
    primary,     \* index of tap0 as looked up for the bond
    tunnel,      \* kernel: tunnel[n] is the device bond0-ip6tnl<n>
    nextIndex,   \* the kernel never uses an interface index again
    faults       \* faults still to come

vars == <<cfg, pc, i, sysctl, tap, bond, primary, tunnel, nextIndex, faults>>
devices == <<tap, bond, primary, tunnel, nextIndex>>

Taps == 0 .. HAVPNServers - 1
Tunnels == 0 .. HAVPNClients - 1

NoAddress == <<>>

\* Index 0 is no device; an MTU is "default" or "tunnel", the detected one;
\* filter is the rp_filter the device got when it was created.
NoTap == [index |-> 0, mtu |-> "default", master |-> 0, filter |-> FALSE]
NoBond == [index |-> 0, mtu |-> "default", primary |-> 0, up |-> FALSE,
           address |-> NoAddress, filter |-> FALSE]
NoTunnel == [state |-> "none", local |-> NoAddress, remote |-> NoAddress,
             filter |-> FALSE]

Init ==
    /\ cfg \in Environments
    /\ pc = "config" /\ i = 0
    /\ sysctl = IF cfg.ipv6 THEN {"ipv6"} ELSE {}
    /\ tap = [n \in Taps |-> NoTap]
    /\ bond = NoBond
    /\ primary = 0
    /\ tunnel = [n \in Tunnels |-> NoTunnel]
    /\ nextIndex = 1
    /\ faults = MaxFaults

Goto(step, n) == pc' = step /\ i' = n

\* The next round of a loop that begins with step, or what comes after it.
NextOrElse(limit, step, after) ==
    IF i + 1 < limit THEN Goto(step, i + 1) ELSE Goto(after, 0)

-----------------------------------------------------------------------------
\* GetVPNClientConfig: the index is the number at the end of the pod name.
VPNClientIndex == IF cfg.suffix = NoNumber THEN -1 ELSE cfg.suffix

BondingModes == {"active-backup", "balance-rr"}

\* An unknown mode is refused, again after every restart.
ParseConfig ==
    /\ pc = "config"
    /\ cfg.BondingMode \in BondingModes
    /\ Goto("sysctl", 0)
    /\ UNCHANGED <<cfg, sysctl, devices, faults>>

\* KernelSettings: the values written, in their order; "buffers" and
\* "conntrack" stand for the writes of one function.  (Mutant: the filter is
\* not changed for new devices.)
SettingsForAll ==
    <<"all.log_martians", "default.log_martians", "all.rp_filter", "buffers">>
        \o IF cfg.IsShootClient
           THEN <<"conntrack", "ip_forward", "ipv6.forwarding">>
           ELSE <<"ipv6">>
Settings ==
    <<"all.log_martians", "default.log_martians", "all.rp_filter",
      "default.rp_filter", "buffers">>
        \o IF cfg.IsShootClient
           THEN <<"conntrack", "ip_forward", "ipv6.forwarding">>
           ELSE <<"ipv6">>

KernelSettings ==
    /\ pc = "sysctl"
    /\ sysctl' = sysctl \cup {Settings[i + 1]}
    /\ NextOrElse(Len(Settings), "sysctl", "deleteTap")
    /\ UNCHANGED <<cfg, devices, faults>>

\* A new device filters by reverse path unless the default was changed.
NewFilter == "default.rp_filter" \notin sysctl

-----------------------------------------------------------------------------
\* ConfigureBonding.  Adding a device that exists fails again and again: no
\* step.

OwnAddress ==
    IF cfg.IsShootClient THEN BondingShootClientIP(VPNClientIndex)
    ELSE SeedClientIP(cfg.poolIndex)

DeleteTap ==
    /\ pc = "deleteTap"
    /\ tap' = [tap EXCEPT ![i] = NoTap]
    /\ Goto("addTap", i)
    /\ UNCHANGED <<cfg, sysctl, bond, primary, tunnel, nextIndex, faults>>

AddTap ==
    /\ pc = "addTap" /\ tap[i] = NoTap
    /\ tap' = [tap EXCEPT ![i] = [NoTap EXCEPT !.index = nextIndex,
                                               !.filter = NewFilter]]
    /\ nextIndex' = nextIndex + 1
    /\ IF cfg.AutoMTU THEN Goto("tapMTU", i)
       ELSE NextOrElse(HAVPNServers, "deleteTap", "deleteBond")
    /\ UNCHANGED <<cfg, sysctl, bond, primary, tunnel, faults>>

SetTapMTU ==
    /\ pc = "tapMTU"
    /\ tap' = [tap EXCEPT ![i].mtu = "tunnel"]
    /\ NextOrElse(HAVPNServers, "deleteTap", "deleteBond")
    /\ UNCHANGED <<cfg, sysctl, bond, primary, tunnel, nextIndex, faults>>

\* Deleting a bond releases its taps.  (Mutant: the old bond is kept.)
KeepBond == UNCHANGED <<bond, tap>>
RemoveBond ==
    /\ bond' = NoBond
    /\ tap' = [n \in Taps |-> [tap[n] EXCEPT !.master = 0]]

DeleteBond ==
    /\ pc = "deleteBond"
    /\ RemoveBond
    /\ Goto("primary", 0)
    /\ UNCHANGED <<cfg, sysctl, primary, tunnel, nextIndex, faults>>

\* In active-backup mode tap0 is looked up for the bond.
FindPrimary ==
    /\ pc = "primary"
    /\ primary' = IF cfg.BondingMode = "active-backup" THEN tap[0].index ELSE 0
    /\ Goto("addBond", 0)
    /\ UNCHANGED <<cfg, sysctl, tap, bond, tunnel, nextIndex, faults>>

AddBond ==
    /\ pc = "addBond" /\ bond = NoBond
    /\ bond' = [NoBond EXCEPT !.index = nextIndex, !.primary = primary,
                              !.filter = NewFilter]
    /\ nextIndex' = nextIndex + 1
    /\ Goto("enslave", 0)
    /\ UNCHANGED <<cfg, sysctl, tap, primary, tunnel, faults>>

\* "the first enslave can reset the bond MTU to the slave's default": the
\* bond keeps its MTU, inherits the one of the tap or gets the default.
Enslave ==
    /\ pc = "enslave"
    /\ tap' = [tap EXCEPT ![i].master = bond.index]
    /\ \E mtu \in {bond.mtu, tap[i].mtu, "default"} :
          bond' = [bond EXCEPT !.mtu = mtu]
    /\ NextOrElse(HAVPNServers, "enslave",
                  IF cfg.AutoMTU THEN "bondMTU" ELSE "upBond")
    /\ UNCHANGED <<cfg, sysctl, primary, tunnel, nextIndex, faults>>

\* (Mutant: the MTU of the bond is left as it is.)
SameMTU == bond.mtu
TunnelMTU == "tunnel"

SetBondMTU ==
    /\ pc = "bondMTU"
    /\ bond' = [bond EXCEPT !.mtu = TunnelMTU]
    /\ Goto("upBond", 0)
    /\ UNCHANGED <<cfg, sysctl, tap, primary, tunnel, nextIndex, faults>>

UpBond ==
    /\ pc = "upBond"
    /\ bond' = [bond EXCEPT !.up = TRUE]
    /\ Goto("address", 0)
    /\ UNCHANGED <<cfg, sysctl, tap, primary, tunnel, nextIndex, faults>>

\* The kernel takes an IPv6 address only while IPv6 is enabled.
AddAddress ==
    /\ pc = "address" /\ bond.address = NoAddress
    /\ "ipv6" \in sysctl
    /\ bond' = [bond EXCEPT !.address = OwnAddress]
    /\ Goto(IF cfg.IsShootClient THEN "done" ELSE "deleteTunnel", 0)
    /\ UNCHANGED <<cfg, sysctl, tap, primary, tunnel, nextIndex, faults>>

DeleteTunnel ==
    /\ pc = "deleteTunnel"
    /\ tunnel' = [tunnel EXCEPT ![i] = NoTunnel]
    /\ Goto("addTunnel", i)
    /\ UNCHANGED <<cfg, sysctl, tap, bond, primary, nextIndex, faults>>

\* CreateTunnel adds the device, then sets it up.
AddTunnel ==
    /\ pc = "addTunnel" /\ tunnel[i] = NoTunnel
    /\ tunnel' = [tunnel EXCEPT ![i] =
                     [state |-> "down", local |-> OwnAddress,
                      remote |-> BondingShootClientIP(i), filter |-> NewFilter]]
    /\ nextIndex' = nextIndex + 1
    /\ Goto("upTunnel", i)
    /\ UNCHANGED <<cfg, sysctl, tap, bond, primary, faults>>

UpTunnel ==
    /\ pc = "upTunnel"
    /\ tunnel' = [tunnel EXCEPT ![i].state = "up"]
    /\ NextOrElse(HAVPNClients, "deleteTunnel", "done")
    /\ UNCHANGED <<cfg, sysctl, tap, bond, primary, nextIndex, faults>>

Call ==
    \/ ParseConfig \/ KernelSettings
    \/ DeleteTap \/ AddTap \/ SetTapMTU
    \/ DeleteBond \/ FindPrimary \/ AddBond \/ Enslave \/ SetBondMTU
    \/ UpBond \/ AddAddress
    \/ DeleteTunnel \/ AddTunnel \/ UpTunnel

\* A call fails or the container dies, at any step and after the last; it
\* starts again.
Restart ==
    /\ faults > 0 /\ faults' = faults - 1
    /\ Goto("config", 0)
    /\ UNCHANGED <<cfg, sysctl, devices>>

Next == Call \/ Restart

Spec == Init /\ [][Next]_vars

-----------------------------------------------------------------------------
\* When ConfigureBonding has returned, everything is as configured, whatever
\* earlier attempts left behind: all taps are slaves of the bond, the primary
\* is the tap0 that exists now, the MTU is the detected one, and the bond is
\* up with its address (bonding.go ConfigureBonding).
BondConfigured ==
    pc = "done" =>
        /\ bond.index # 0 /\ bond.up /\ bond.address = OwnAddress
        /\ \A n \in Taps : tap[n].index # 0 /\ tap[n].master = bond.index
        /\ cfg.BondingMode = "active-backup" => bond.primary = tap[0].index
        /\ cfg.AutoMTU => /\ bond.mtu = "tunnel"
                          /\ \A n \in Taps : tap[n].mtu = "tunnel"

\* The path controller finds the device to every shoot client: the device it
\* derives from the address of a client leads there from the own address.
\* What a shoot client with a valid index uses is one of these addresses, and
\* no kube-apiserver has it (ip.go, bonding.go, client_router.go
\* updateRouting).
PathToEveryClient ==
    pc = "done" =>
        IF cfg.IsShootClient
        THEN VPNClientIndex \in Tunnels =>
                 bond.address \in AllBondingShootClientIPs(HAVPNClients)
        ELSE /\ bond.address \notin AllBondingShootClientIPs(HAVPNClients)
             /\ \A ip \in AllBondingShootClientIPs(HAVPNClients) :
                   LET device == tunnel[ClientIndexFromBondingShootClientIP(ip)]
                   IN  /\ device.state = "up"
                       /\ device.local = bond.address
                       /\ device.remote = ip

\* No device of the pod drops packets that come in by another way than the
\* answers go out: rp_filter is off for all devices and was off by default
\* before each of them was created, also by an attempt that failed (sysctl.go
\* DisableRpFilter, setup.go run).
NothingFiltered ==
    pc = "done" =>
        /\ "all.rp_filter" \in sysctl
        /\ ~bond.filter
        /\ \A n \in Taps : ~tap[n].filter
        /\ \A n \in Tunnels : ~tunnel[n].filter
=============================================================================
