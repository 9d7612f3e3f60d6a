-------------------------- MODULE ClientPod_proofs --------------------------
(***************************************************************************)
(* Proofs for every number of VPN servers, shoot clients and faults, every *)
(* size of a byte and every environment.  First what the modules take for  *)
(* granted of the addresses of ip.go: TunnelController names its devices   *)
(* by the bond addresses of kube-apiservers, ClientSetup those to the      *)
(* shoot clients by their indices, and the networks of the devices of a    *)
(* pod are apart.  Then what the setup container leaves when it is done,   *)
(* and what the clean-up does to the addresses of the tap devices.         *)
(***************************************************************************)
EXTENDS ClientPod, TLAPS

LEMMA DivMod ==
    ASSUME NEW b \in Nat \ {0}, NEW n \in Nat
    PROVE  /\ n = b * (n \div b) + (n % b)
           /\ n % b \in 0 .. b - 1
           /\ n \div b \in Nat
  OBVIOUS

LEMMA ModAtMost ==
    ASSUME NEW b \in Nat \ {0}, NEW n \in Nat
    PROVE  n % b <= n
<1> DEFINE q == n \div b
           r == n % b
<1>1. n = b * q + r /\ r \in 0 .. b - 1 /\ q \in Nat
  BY DivMod
<1> HIDE DEF q, r
<1>2. b * q >= 0 /\ b * q \in Nat
  BY <1>1
<1>3. r <= n
  BY <1>1, <1>2
<1> QED
  BY <1>3 DEF r

LEMMA SmallQuotient ==
    ASSUME NEW b \in Nat \ {0}, NEW q \in Nat, NEW r \in 0 .. b - 1,
           b * q + r < b * b
    PROVE  q < b
<1> SUFFICES ASSUME q >= b PROVE FALSE
  OBVIOUS
<1>1. b * q >= b * b
  OBVIOUS
<1> QED
  BY <1>1

LEMMA SmallMod ==
    ASSUME NEW b \in Nat \ {0}, NEW n \in 0 .. b - 1
    PROVE  n % b = n
  OBVIOUS

\* The two bytes of an index of the pool determine it.
LEMMA IndexFromBytes ==
    ASSUME NEW index \in startIndexSeed .. endIndexSeed
    PROVE  /\ SeedClientIP(index) \in Address
           /\ index = Byte * SeedClientIP(index)[3] + SeedClientIP(index)[4]
<1> DEFINE q == index \div Byte
           r == index % Byte
<1>1. Byte \in Nat \ {0} /\ index \in Nat /\ index < Byte * Byte
  BY AddressAssumption DEF bondStartShoot, startIndexSeed, endIndexSeed
<1>2. index = Byte * q + r /\ r \in 0 .. Byte - 1 /\ q \in Nat
  BY <1>1, DivMod
<1> HIDE DEF q, r
<1>3. q < Byte
  BY <1>1, <1>2, SmallQuotient
<1>4. q % Byte = q
  BY <1>1, <1>2, <1>3, SmallMod
<1>5. SeedClientIP(index) = <<0, bondStartSeed, q, r>>
  BY <1>4 DEF SeedClientIP, q, r
<1>6. 0 \in 0 .. Byte - 1 /\ bondStartSeed \in 0 .. Byte - 1
      /\ q \in 0 .. Byte - 1
  BY <1>1, <1>2, <1>3, AddressAssumption DEF bondStartSeed, bondStartShoot
<1> QED
  BY <1>2, <1>5, <1>6 DEF Address

\* "link name must be unique, so we use the last two bytes of the remote
\* address": the devices that the tunnel controller names after two different
\* addresses of the pool differ, and so do the addresses, from the first index
\* to the last (tunnel.go linkName, ip.go BondingSeedClientRange, broker.go
\* findFreeIPAddress).
THEOREM LinkNamesDiffer ==
    \A k, l \in startIndexSeed .. endIndexSeed :
        k # l => linkName(SeedClientIP(k)) # linkName(SeedClientIP(l))
<1> SUFFICES ASSUME NEW k \in startIndexSeed .. endIndexSeed,
                    NEW l \in startIndexSeed .. endIndexSeed,
                    linkName(SeedClientIP(k)) = linkName(SeedClientIP(l))
             PROVE  k = l
  OBVIOUS
<1>1. /\ SeedClientIP(k)[3] = SeedClientIP(l)[3]
      /\ SeedClientIP(k)[4] = SeedClientIP(l)[4]
  BY DEF linkName
<1> QED
  BY <1>1, IndexFromBytes

\* No kube-apiserver is ever given the address of a shoot client, whatever
\* index a shoot client has, and a shoot client whose index fits into a byte
\* is found again from its address (ip.go BondingShootClientIP,
\* ClientIndexFromBondingShootClientIP).
THEOREM ShootAddressesApart ==
    /\ \A k \in startIndexSeed .. endIndexSeed, n \in Int :
          SeedClientIP(k) # BondingShootClientIP(n)
    /\ \A n \in 0 .. Byte - 1 :
          ClientIndexFromBondingShootClientIP(BondingShootClientIP(n)) = n
<1>1. \A k \in startIndexSeed .. endIndexSeed, n \in Int :
         SeedClientIP(k)[2] # BondingShootClientIP(n)[2]
  BY DEF SeedClientIP, BondingShootClientIP, bondStartSeed, bondStartShoot
<1>2. ASSUME NEW n \in 0 .. Byte - 1
      PROVE  ClientIndexFromBondingShootClientIP(BondingShootClientIP(n)) = n
  <2>1. n % Byte = n
    BY SmallMod, AddressAssumption DEF bondStartShoot
  <2> QED
    BY <2>1 DEF ClientIndexFromBondingShootClientIP, BondingShootClientIP
<1> QED
  BY <1>1, <1>2

\* The networks of the bond and of the tunnels to the VPN servers are
\* disjoint, for as many servers as a byte can count (ip.go
\* HAVPNTunnelNetwork, BondingAddressForClient).
THEOREM NetworksApart ==
    \A ip \in Address, m, n \in 0 .. Byte - 1 :
        InHAVPNTunnelNetwork(m, ip) =>
            /\ ~InBondNetwork(ip)
            /\ m # n => ~InHAVPNTunnelNetwork(n, ip)
<1>1. \A n \in 0 .. Byte - 1 : n % Byte = n
  BY SmallMod, AddressAssumption DEF bondStartShoot
<1> QED
  BY <1>1 DEF InHAVPNTunnelNetwork, InBondNetwork

-----------------------------------------------------------------------------
\* The setup container.  Its calls in their order, by what has been done
\* before them.
TapSteps == {"deleteTap", "addTap", "tapMTU"}
TunnelSteps == {"deleteTunnel", "addTunnel", "upTunnel"}
HasAddress == TunnelSteps \cup {"done"}
IsUp == {"address"} \cup HasAddress
HasMTU == {"upBond"} \cup IsUp
AllEnslaved == {"bondMTU"} \cup HasMTU
HasBond == {"enslave"} \cup AllEnslaved
HasTaps == {"deleteBond", "primary", "addBond"} \cup HasBond
HasSettings == TapSteps \cup HasTaps
Calls == {"config", "sysctl"} \cup HasSettings

MTUs == {"default", "tunnel"}
TapRecs == [index : Nat, mtu : MTUs, master : Nat, filter : {FALSE}]
BondRecs(own) ==
    [index : Nat, mtu : MTUs, primary : Nat, up : BOOLEAN,
     address : {NoAddress, own}, filter : {FALSE}]
TunnelRecs(own) ==
    [state : {"none", "down", "up"}, local : {NoAddress, own},
     remote : {NoAddress} \cup {BondingShootClientIP(n) : n \in Tunnels},
     filter : {FALSE}]

SetupType ==
    /\ cfg \in Environment
    /\ pc \in Calls /\ i \in Nat
    /\ tap \in [Taps -> TapRecs]
    /\ bond \in BondRecs(OwnAddress)
    /\ tunnel \in [Tunnels -> TunnelRecs(OwnAddress)]
    /\ primary \in Nat /\ nextIndex \in Nat \ {0} /\ faults \in Nat

\* The settings that the loop has passed are written: index 3 and 4.
SettingsWritten ==
    /\ pc \in HasSettings \/ (pc = "sysctl" /\ i >= 3) =>
           "all.rp_filter" \in sysctl
    /\ pc \in HasSettings \/ (pc = "sysctl" /\ i >= 4) =>
           "default.rp_filter" \in sysctl

TapReady(n) ==
    /\ tap[n].index # 0
    /\ cfg.AutoMTU => tap[n].mtu = "tunnel"

TapsReady ==
    /\ pc \in TapSteps => i \in Taps /\ \A n \in Taps : n < i => TapReady(n)
    /\ pc = "tapMTU" => tap[i].index # 0
    /\ pc \in HasTaps => \A n \in Taps : TapReady(n)

\* The bond that exists was made by this attempt, of the taps of this attempt.
BondReady ==
    /\ pc = "addBond" /\ cfg.BondingMode = "active-backup" =>
           primary = tap[0].index
    /\ pc \in HasBond =>
           /\ bond.index # 0
           /\ cfg.BondingMode = "active-backup" => bond.primary = tap[0].index
    /\ pc = "enslave" =>
           i \in Taps /\ \A n \in Taps : n < i => tap[n].master = bond.index
    /\ pc \in AllEnslaved => \A n \in Taps : tap[n].master = bond.index
    /\ pc \in HasMTU /\ cfg.AutoMTU => bond.mtu = "tunnel"
    /\ pc \in IsUp => bond.up
    /\ pc \in HasAddress => bond.address = OwnAddress

TunnelAdded(n) ==
    tunnel[n].local = OwnAddress /\ tunnel[n].remote = BondingShootClientIP(n)
TunnelReady(n) == tunnel[n].state = "up" /\ TunnelAdded(n)

TunnelsReady ==
    /\ pc \in TunnelSteps =>
           i \in Tunnels /\ \A n \in Tunnels : n < i => TunnelReady(n)
    /\ pc = "upTunnel" => TunnelAdded(i)
    /\ pc = "done" /\ ~cfg.IsShootClient => \A n \in Tunnels : TunnelReady(n)

SetupInv == SetupType /\ SettingsWritten /\ TapsReady /\ BondReady /\ TunnelsReady

LEMMA SettingsLen ==
    /\ Len(Settings) \in Nat /\ Len(Settings) >= 6
    /\ Settings[3] = "all.rp_filter" /\ Settings[4] = "default.rp_filter"
<1>1. CASE cfg.IsShootClient
  BY <1>1 DEF Settings
<1>2. CASE ~cfg.IsShootClient
  BY <1>2 DEF Settings
<1> QED
  BY <1>1, <1>2

\* What the calls do to the record of a device.
LEMMA TapFields ==
    ASSUME NEW r \in TapRecs, NEW n \in Nat
    PROVE  /\ LET new == [r EXCEPT !.mtu = "tunnel"]
              IN  /\ new \in TapRecs
                  /\ new.mtu = "tunnel" /\ new.index = r.index
           /\ LET new == [r EXCEPT !.master = n]
              IN  /\ new \in TapRecs
                  /\ new.master = n /\ new.index = r.index /\ new.mtu = r.mtu
  BY DEF TapRecs, MTUs

LEMMA NewTap ==
    ASSUME NEW n \in Nat, NEW f \in {FALSE}
    PROVE  LET new == [NoTap EXCEPT !.index = n, !.filter = f]
           IN  new \in TapRecs /\ new.index = n
  BY DEF TapRecs, MTUs, NoTap

LEMMA BondFields ==
    ASSUME NEW r \in BondRecs(OwnAddress), NEW m \in MTUs
    PROVE  /\ LET new == [r EXCEPT !.mtu = m]
              IN  /\ new \in BondRecs(OwnAddress) /\ new.mtu = m
                  /\ new.index = r.index /\ new.primary = r.primary
           /\ LET new == [r EXCEPT !.up = TRUE]
              IN  /\ new \in BondRecs(OwnAddress) /\ new.up
                  /\ new.index = r.index /\ new.primary = r.primary
                  /\ new.mtu = r.mtu
           /\ LET new == [r EXCEPT !.address = OwnAddress]
              IN  /\ new \in BondRecs(OwnAddress)
                  /\ new.address = OwnAddress /\ new.up = r.up
                  /\ new.index = r.index /\ new.primary = r.primary
                  /\ new.mtu = r.mtu
  BY DEF BondRecs, MTUs

LEMMA NewBond ==
    ASSUME NEW n \in Nat, NEW k \in Nat, NEW f \in {FALSE}
    PROVE  LET new == [NoBond EXCEPT !.index = n, !.primary = k, !.filter = f]
           IN  new \in BondRecs(OwnAddress) /\ new.index = n /\ new.primary = k
  BY DEF BondRecs, MTUs, NoBond

LEMMA NotFiltered ==
    ASSUME SettingsWritten, pc \in HasSettings
    PROVE  NewFilter \in {FALSE}
  BY DEF SettingsWritten, NewFilter

LEMMA SetupInit == Init => SetupInv
<1> SUFFICES ASSUME Init PROVE SetupInv
  OBVIOUS
<1> USE SetupAssumption
<1>1. SetupType
  BY DEF Init, SetupType, NoTap, NoBond, NoTunnel, Calls, TapRecs, BondRecs,
         TunnelRecs, MTUs
<1>2. pc = "config"
  BY DEF Init
<1> QED
  BY <1>1, <1>2
     DEF SetupInv, SettingsWritten, TapsReady, BondReady, TunnelsReady, HasSettings,
         TapSteps, HasTaps, HasBond, AllEnslaved, HasMTU, IsUp, HasAddress, TunnelSteps

\* Nothing of the invariant depends on what the containers do.
LEMMA SetupUnchanged ==
    ASSUME SetupInv, UNCHANGED <<cfg, pc, i, sysctl, devices>>, faults' \in Nat
    PROVE  SetupInv'
<1>1. OwnAddress' = OwnAddress
  BY DEF OwnAddress, VPNClientIndex
<1>2. UNCHANGED <<cfg, pc, i, sysctl, tap, bond, primary, tunnel, nextIndex>>
  BY DEF devices
<1>3. SetupType'
  BY <1>1, <1>2 DEF SetupInv, SetupType
<1>4. SettingsWritten' /\ TapsReady'
  BY <1>2 DEF SetupInv, SettingsWritten, TapsReady, TapReady
<1>5. BondReady' /\ TunnelsReady'
  BY <1>1, <1>2 DEF SetupInv, BondReady, TunnelsReady, TunnelReady, TunnelAdded
<1> QED
  BY <1>3, <1>4, <1>5 DEF SetupInv

LEMMA SetupRestart ==
    ASSUME SetupInv, Restart
    PROVE  SetupInv'
<1>1. OwnAddress' = OwnAddress
  BY DEF OwnAddress, VPNClientIndex, Restart
<1>3. pc' = "config" /\ i' = 0
  BY DEF Restart, Goto
<1>4. faults' \in Nat /\ pc' \in Calls /\ i' \in Nat
  BY <1>3 DEF SetupInv, SetupType, Restart, Calls
<1>5. UNCHANGED <<cfg, sysctl, tap, bond, primary, tunnel, nextIndex>>
  BY DEF Restart, devices
<1>2. SetupType'
  BY <1>1, <1>4, <1>5 DEF SetupInv, SetupType
<1> QED
  BY <1>2, <1>3
     DEF SetupInv, SettingsWritten, TapsReady, BondReady, TunnelsReady, HasSettings,
         TapSteps, HasTaps, HasBond, AllEnslaved, HasMTU, IsUp, HasAddress, TunnelSteps

\* Up to the taps: nothing of the bond or the tunnels is needed yet.
LEMMA SetupTapCalls ==
    ASSUME SetupInv,
           ParseConfig \/ KernelSettings \/ DeleteTap \/ AddTap \/ SetTapMTU
    PROVE  SetupInv'
<1>0. /\ OwnAddress' = OwnAddress
      /\ UNCHANGED <<cfg, bond, primary, tunnel, faults>>
  BY DEF OwnAddress, VPNClientIndex, ParseConfig, KernelSettings, DeleteTap, AddTap,
         SetTapMTU, devices
<1>t. /\ i \in Nat /\ nextIndex \in Nat \ {0} /\ HAVPNServers \in Nat \ {0}
      /\ tap \in [Taps -> TapRecs]
      /\ 0 \in Taps /\ \A n \in Taps : n \in Nat
  BY SetupAssumption DEF SetupInv, SetupType, Taps
<1>p. pc' \in {"sysctl"} \cup TapSteps \cup {"deleteBond"} =>
         /\ BondReady' /\ TunnelsReady' /\ pc' \in Calls
  BY DEF BondReady, TunnelsReady, Calls, HasSettings, TapSteps, HasTaps, HasBond,
         AllEnslaved, HasMTU, IsUp, HasAddress, TunnelSteps
<1>1. CASE ParseConfig
  <2>1. pc' = "sysctl" /\ i' = 0 /\ UNCHANGED <<sysctl, tap, nextIndex>>
    BY <1>1 DEF ParseConfig, Goto, devices
  <2>2. SetupType'
    BY <1>0, <1>p, <2>1 DEF SetupInv, SetupType
  <2>3. SettingsWritten' /\ TapsReady'
    BY <2>1 DEF SettingsWritten, TapsReady, HasSettings, TapSteps, HasTaps, HasBond,
                AllEnslaved, HasMTU, IsUp, HasAddress, TunnelSteps
  <2> QED
    BY <1>p, <2>1, <2>2, <2>3 DEF SetupInv
<1>2. CASE KernelSettings
  <2>1. /\ pc = "sysctl" /\ sysctl' = sysctl \cup {Settings[i + 1]}
        /\ UNCHANGED <<tap, nextIndex>>
        /\ \/ pc' = "sysctl" /\ i' = i + 1
           \/ pc' = "deleteTap" /\ i' = 0 /\ i + 1 >= 6
    BY <1>2, <1>t, SettingsLen DEF KernelSettings, NextOrElse, Goto, devices
  <2>2. i' \in Nat /\ pc' \in {"sysctl"} \cup TapSteps
    BY <1>t, <2>1 DEF TapSteps
  <2>3. SetupType'
    BY <1>0, <1>p, <2>1, <2>2 DEF SetupInv, SetupType
  <2>4. SettingsWritten'
    BY <1>t, <2>1, SettingsLen
       DEF SetupInv, SettingsWritten, HasSettings, TapSteps, HasTaps, HasBond,
           AllEnslaved, HasMTU, IsUp, HasAddress, TunnelSteps
  <2>5. pc' \notin HasTaps /\ pc' # "tapMTU" /\ (pc' \in TapSteps => i' = 0)
    BY <2>1 DEF TapSteps, HasTaps, HasBond, AllEnslaved, HasMTU, IsUp, HasAddress,
                TunnelSteps
  <2>6. TapsReady'
    BY <1>t, <2>5 DEF TapsReady
  <2> QED
    BY <1>p, <2>2, <2>3, <2>4, <2>6 DEF SetupInv
<1>3. CASE DeleteTap
  <2>1. /\ pc = "deleteTap" /\ pc' = "addTap" /\ i' = i
        /\ tap' = [tap EXCEPT ![i] = NoTap]
        /\ UNCHANGED <<sysctl, nextIndex>>
    BY <1>3 DEF DeleteTap, Goto
  <2>2. /\ pc \in TapSteps /\ pc' \in TapSteps
        /\ pc \in HasSettings /\ pc' \in HasSettings /\ pc' \notin HasTaps
    BY <2>1 DEF TapSteps, HasTaps, HasBond, AllEnslaved, HasMTU, IsUp, HasAddress,
                TunnelSteps, HasSettings
  <2>3. NoTap \in TapRecs
    BY DEF NoTap, TapRecs, MTUs
  <2>4. SetupType'
    BY <1>0, <1>p, <2>1, <2>2, <2>3 DEF SetupInv, SetupType
  <2>5. i \in Taps /\ \A n \in Taps : n < i => TapReady(n)
    BY <2>2 DEF SetupInv, TapsReady
  <2>6. \A n \in Taps : n < i => tap'[n] = tap[n]
    BY <1>t, <2>1
  <2>7. TapsReady'
    BY <1>0, <2>1, <2>2, <2>5, <2>6 DEF TapsReady, TapReady
  <2>8. SettingsWritten'
    BY <2>1, <2>2 DEF SetupInv, SettingsWritten
  <2> QED
    BY <1>p, <2>2, <2>4, <2>7, <2>8 DEF SetupInv
<1>4. CASE AddTap \/ SetTapMTU
  <2>0. pc \in TapSteps /\ pc \in HasSettings
    BY <1>4 DEF AddTap, SetTapMTU, TapSteps, HasSettings
  <2>1. i \in Taps /\ \A n \in Taps : n < i => TapReady(n)
    BY <2>0 DEF SetupInv, TapsReady
  <2>2. /\ tap' \in [Taps -> TapRecs] /\ nextIndex' \in Nat \ {0}
        /\ tap'[i].index # 0
        /\ \A n \in Taps \ {i} : tap'[n] = tap[n]
        /\ pc' # "tapMTU" => \A n \in {i} : TapReady(n)'
    <3>1. CASE AddTap
      <4>1. NewFilter \in {FALSE}
        BY <2>0, NotFiltered DEF SetupInv
      <4> DEFINE new == [NoTap EXCEPT !.index = nextIndex, !.filter = NewFilter]
      <4>2. new \in TapRecs /\ new.index = nextIndex
        BY <1>t, <4>1, NewTap
      <4>3. tap' = [tap EXCEPT ![i] = new] /\ nextIndex' = nextIndex + 1
        BY <3>1 DEF AddTap
      <4> HIDE DEF new
      <4>4. pc' # "tapMTU" => ~cfg.AutoMTU
        BY <3>1 DEF AddTap, Goto
      <4> QED
        BY <1>0, <1>t, <2>1, <4>2, <4>3, <4>4 DEF TapReady
    <3>2. CASE SetTapMTU
      <4> DEFINE new == [tap[i] EXCEPT !.mtu = "tunnel"]
      <4>1. tap[i] \in TapRecs /\ tap[i].index # 0
        BY <1>t, <2>1, <3>2 DEF SetTapMTU, SetupInv, TapsReady
      <4>2. new \in TapRecs /\ new.mtu = "tunnel" /\ new.index = tap[i].index
        BY <4>1, TapFields, 0 \in Nat
      <4>3. tap' = [tap EXCEPT ![i] = new] /\ nextIndex' = nextIndex
        BY <3>2 DEF SetTapMTU
      <4> HIDE DEF new
      <4> QED
        BY <1>0, <1>t, <2>1, <4>1, <4>2, <4>3 DEF TapReady
    <3> QED
      BY <1>4, <3>1, <3>2
  <2>3. /\ UNCHANGED sysctl
        /\ \/ pc' = "tapMTU" /\ i' = i
           \/ pc' = "deleteTap" /\ i' = i + 1 /\ i + 1 < HAVPNServers
           \/ pc' = "deleteBond" /\ i' = 0 /\ i + 1 >= HAVPNServers
    BY <1>4, <1>t DEF AddTap, SetTapMTU, Goto, NextOrElse
  <2>4. i' \in Nat /\ pc' \in TapSteps \cup {"deleteBond"}
    BY <1>t, <2>3 DEF TapSteps
  <2>5. SetupType'
    BY <1>0, <1>p, <2>2, <2>4 DEF SetupInv, SetupType
  <2>6. \A n \in Taps : n < i => TapReady(n)'
    BY <1>0, <1>t, <2>1, <2>2 DEF TapReady
  <2>7. /\ pc' \in TapSteps => pc' \in {"tapMTU", "deleteTap"}
        /\ pc' \in HasTaps => pc' = "deleteBond"
    BY <2>3 DEF TapSteps, HasTaps, HasBond, AllEnslaved, HasMTU, IsUp, HasAddress,
                TunnelSteps
  <2>8. TapsReady'
    <3>1. CASE pc' = "tapMTU"
      BY <2>1, <2>2, <2>3, <2>6, <2>7, <3>1 DEF TapsReady
    <3>2. CASE pc' = "deleteTap"
      <4>1. i' = i + 1 /\ i' \in Taps
        BY <1>t, <2>3, <3>2 DEF Taps
      <4>2. \A n \in Taps : n < i' => n < i \/ n = i
        BY <1>t, <4>1
      <4> QED
        BY <2>1, <2>2, <2>6, <2>7, <3>2, <4>1, <4>2 DEF TapsReady
    <3>3. CASE pc' = "deleteBond"
      <4>1. \A n \in Taps : n < i \/ n = i
        BY <1>t, <2>1, <2>3, <3>3 DEF Taps
      <4>2. \A n \in Taps : TapReady(n)'
        BY <2>2, <2>6, <3>3, <4>1
      <4> QED
        BY <2>7, <3>3, <4>2 DEF TapsReady
    <3> QED
      BY <2>3, <3>1, <3>2, <3>3
  <2>9. SettingsWritten'
    BY <2>0, <2>3 DEF SetupInv, SettingsWritten
  <2> QED
    BY <1>p, <2>4, <2>5, <2>8, <2>9 DEF SetupInv
<1> QED
  BY <1>1, <1>2, <1>3, <1>4

\* Up to the bond that has all taps.
LEMMA SetupBondCalls ==
    ASSUME SetupInv, DeleteBond \/ FindPrimary \/ AddBond \/ Enslave
    PROVE  SetupInv'
<1>0. /\ OwnAddress' = OwnAddress
      /\ UNCHANGED <<cfg, tunnel, faults, sysctl>>
  BY DEF OwnAddress, VPNClientIndex, DeleteBond, FindPrimary, AddBond, Enslave
<1>t. /\ i \in Nat /\ nextIndex \in Nat \ {0} /\ HAVPNServers \in Nat \ {0}
      /\ tap \in [Taps -> TapRecs] /\ bond \in BondRecs(OwnAddress) /\ primary \in Nat
      /\ 0 \in Taps /\ \A n \in Taps : n \in Nat
  BY SetupAssumption DEF SetupInv, SetupType, Taps
<1>i. \A n \in Taps : tap[n] \in TapRecs /\ tap[n].index \in Nat /\ tap[n].mtu \in MTUs
  BY <1>t DEF TapRecs
<1>b. bond.index \in Nat /\ bond.mtu \in MTUs
  BY <1>t DEF BondRecs
<1>q. pc \in HasTaps /\ pc \in HasSettings
  BY DEF DeleteBond, FindPrimary, AddBond, Enslave, HasSettings, HasTaps, HasBond
<1>p. pc' \in {"primary", "addBond", "enslave", "bondMTU", "upBond"} =>
         /\ TunnelsReady' /\ pc' \in Calls /\ pc' \in HasSettings /\ pc' \in HasTaps
         /\ pc' \notin TapSteps /\ pc' \notin IsUp /\ pc' \notin HasAddress
         /\ pc' # "tapMTU"
         /\ pc' \in HasBond => pc' \in {"enslave", "bondMTU", "upBond"}
         /\ pc' \in AllEnslaved => pc' \in {"bondMTU", "upBond"}
         /\ pc' \in HasMTU => pc' = "upBond"
  BY DEF TunnelsReady, Calls, HasSettings, TapSteps, HasTaps, HasBond, AllEnslaved,
         HasMTU, IsUp, HasAddress, TunnelSteps
<1>r. \A n \in Taps : tap[n].index # 0 /\ (cfg.AutoMTU => tap[n].mtu = "tunnel")
  BY <1>q DEF SetupInv, TapsReady, TapReady
<1>s. pc' \in HasSettings => SettingsWritten'
  BY <1>0, <1>q DEF SetupInv, SettingsWritten
<1>1. CASE DeleteBond
  <2>1. /\ pc' = "primary" /\ i' = 0 /\ bond' = NoBond
        /\ tap' = [n \in Taps |-> [tap[n] EXCEPT !.master = 0]]
        /\ UNCHANGED <<primary, nextIndex>>
    BY <1>1 DEF DeleteBond, RemoveBond, Goto
  <2>2. \A n \in Taps : /\ tap'[n] \in TapRecs /\ tap'[n].index = tap[n].index
                        /\ tap'[n].mtu = tap[n].mtu
    BY <1>i, <2>1, TapFields
  <2>3. NoBond \in BondRecs(OwnAddress)
    BY DEF NoBond, BondRecs, MTUs
  <2>4. tap' \in [Taps -> TapRecs]
    BY <2>1, <2>2
  <2>5. SetupType'
    BY <1>0, <1>p, <1>t, <2>1, <2>3, <2>4 DEF SetupInv, SetupType
  <2>6. TapsReady'
    BY <1>0, <1>p, <1>r, <2>1, <2>2 DEF TapsReady, TapReady
  <2>7. BondReady'
    BY <1>p, <2>1 DEF BondReady
  <2> QED
    BY <1>p, <1>s, <2>1, <2>5, <2>6, <2>7 DEF SetupInv
<1>2. CASE FindPrimary
  <2>1. /\ pc' = "addBond" /\ i' = 0
        /\ primary' = IF cfg.BondingMode = "active-backup" THEN tap[0].index ELSE 0
        /\ UNCHANGED <<tap, bond, nextIndex>>
    BY <1>2 DEF FindPrimary, Goto
  <2>2. primary' \in Nat
    BY <1>i, <1>t, <2>1
  <2>3. SetupType'
    BY <1>0, <1>p, <1>t, <2>1, <2>2 DEF SetupInv, SetupType
  <2>4. TapsReady'
    BY <1>0, <1>p, <1>r, <2>1 DEF TapsReady, TapReady
  <2>5. BondReady'
    BY <1>0, <1>p, <2>1 DEF BondReady
  <2> QED
    BY <1>p, <1>s, <2>1, <2>3, <2>4, <2>5 DEF SetupInv
<1>3. CASE AddBond
  <2> DEFINE new == [NoBond EXCEPT !.index = nextIndex, !.primary = primary,
                                   !.filter = NewFilter]
  <2>1. NewFilter \in {FALSE}
    BY <1>q, NotFiltered DEF SetupInv
  <2>a. nextIndex \in Nat /\ primary \in Nat
    BY <1>t
  <2>2. new \in BondRecs(OwnAddress) /\ new.index = nextIndex /\ new.primary = primary
    BY <2>a, <2>1, NewBond, Zenon
  <2>3. bond' = new
    BY <1>3 DEF AddBond
  <2> HIDE DEF new
  <2>4. /\ pc = "addBond" /\ pc' = "enslave" /\ i' = 0
        /\ nextIndex' = nextIndex + 1
        /\ UNCHANGED <<tap, primary>>
    BY <1>3 DEF AddBond, Goto
  <2>5. SetupType'
    BY <1>0, <1>p, <1>t, <2>2, <2>3, <2>4 DEF SetupInv, SetupType
  <2>6. TapsReady'
    BY <1>0, <1>p, <1>r, <2>4 DEF TapsReady, TapReady
  <2>7. cfg.BondingMode = "active-backup" => primary = tap[0].index
    BY <2>4 DEF SetupInv, BondReady
  <2>8. BondReady'
    BY <1>0, <1>p, <1>t, <2>2, <2>3, <2>4, <2>7 DEF BondReady
  <2> QED
    BY <1>p, <1>s, <2>4, <2>5, <2>6, <2>8 DEF SetupInv
<1>4. CASE Enslave
  <2>0. /\ pc = "enslave" /\ i \in Taps /\ pc \in HasBond
        /\ \A n \in Taps : n < i => tap[n].master = bond.index
    BY <1>4 DEF Enslave, SetupInv, BondReady, HasBond
  <2>1. /\ bond.index # 0
        /\ cfg.BondingMode = "active-backup" => bond.primary = tap[0].index
    BY <2>0 DEF SetupInv, BondReady
  <2>2. /\ bond' \in BondRecs(OwnAddress)
        /\ bond'.index = bond.index /\ bond'.primary = bond.primary
    <3>1. PICK mtu \in {bond.mtu, tap[i].mtu, "default"} :
             bond' = [bond EXCEPT !.mtu = mtu]
      BY <1>4 DEF Enslave
    <3>2. mtu \in MTUs
      BY <1>b, <1>i, <2>0, <3>1 DEF MTUs
    <3> QED
      BY <1>t, <3>1, <3>2, BondFields
  <2>3. /\ tap' \in [Taps -> TapRecs]
        /\ \A n \in Taps : tap'[n].index = tap[n].index /\ tap'[n].mtu = tap[n].mtu
        /\ tap'[i].master = bond.index
        /\ \A n \in Taps \ {i} : tap'[n] = tap[n]
    <3> DEFINE new == [tap[i] EXCEPT !.master = bond.index]
    <3>1. /\ new \in TapRecs /\ new.master = bond.index
          /\ new.index = tap[i].index /\ new.mtu = tap[i].mtu
      BY <1>b, <1>i, <2>0, TapFields
    <3>2. tap' = [tap EXCEPT ![i] = new]
      BY <1>4 DEF Enslave
    <3> HIDE DEF new
    <3> QED
      BY <1>t, <2>0, <3>1, <3>2
  <2>4. /\ UNCHANGED <<primary, nextIndex>>
        /\ \/ pc' = "enslave" /\ i' = i + 1 /\ i + 1 < HAVPNServers
           \/ /\ i' = 0 /\ i + 1 >= HAVPNServers
              /\ pc' = IF cfg.AutoMTU THEN "bondMTU" ELSE "upBond"
    BY <1>4, <1>t DEF Enslave, Goto, NextOrElse
  <2>5. i' \in Nat /\ pc' \in {"enslave", "bondMTU", "upBond"}
    BY <1>t, <2>4
  <2>6. SetupType'
    BY <1>0, <1>p, <1>t, <2>2, <2>3, <2>4, <2>5 DEF SetupInv, SetupType
  <2>7. TapsReady'
    BY <1>0, <1>p, <1>r, <2>3, <2>5 DEF TapsReady, TapReady
  <2>8. BondReady'
    <3>1. /\ bond'.index # 0
          /\ cfg'.BondingMode = "active-backup" => bond'.primary = tap'[0].index
      BY <1>0, <1>t, <2>1, <2>2, <2>3
    <3>2. \A n \in Taps : n < i \/ n = i => tap'[n].master = bond'.index
      BY <1>t, <2>0, <2>2, <2>3
    <3>3. pc' = "enslave" => i' \in Taps /\ \A n \in Taps : n < i' => n < i \/ n = i
      BY <1>t, <2>4 DEF Taps
    <3>4. pc' # "enslave" => \A n \in Taps : n < i \/ n = i
      BY <1>t, <2>0, <2>4 DEF Taps
    <3>5. pc' = "upBond" => ~cfg'.AutoMTU
      BY <1>0, <2>4
    <3> QED
      BY <1>p, <2>5, <3>1, <3>2, <3>3, <3>4, <3>5 DEF BondReady
  <2> QED
    BY <1>p, <1>s, <2>5, <2>6, <2>7, <2>8 DEF SetupInv
<1> QED
  BY <1>1, <1>2, <1>3, <1>4

\* The bond gets its MTU and its address.
LEMMA SetupAddressCalls ==
    ASSUME SetupInv, SetBondMTU \/ UpBond \/ AddAddress
    PROVE  SetupInv'
<1>0. /\ OwnAddress' = OwnAddress
      /\ UNCHANGED <<cfg, tunnel, faults, sysctl, tap, primary, nextIndex>>
      /\ i' = 0
  BY DEF OwnAddress, VPNClientIndex, SetBondMTU, UpBond, AddAddress, Goto
<1>t. /\ 0 \in Taps /\ \A n \in Taps : n \in Nat
      /\ 0 \in Tunnels /\ \A n \in Tunnels : n \in Nat
  BY SetupAssumption DEF Taps, Tunnels
<1>b. bond \in BondRecs(OwnAddress) /\ bond.mtu \in MTUs
  BY DEF SetupInv, SetupType, BondRecs
<1>q. pc \in HasTaps /\ pc \in HasBond /\ pc \in AllEnslaved
  BY DEF SetBondMTU, UpBond, AddAddress, HasTaps, HasBond, AllEnslaved, HasMTU, IsUp
<1>p. pc' \in {"upBond", "address", "deleteTunnel", "done"} =>
         /\ pc' \in Calls /\ pc' \in HasTaps
         /\ pc' \notin TapSteps
         /\ pc' \in IsUp => pc' # "upBond"
         /\ pc' \in HasAddress => pc' \in {"deleteTunnel", "done"}
         /\ pc' \in TunnelSteps => pc' = "deleteTunnel"
  BY DEF Calls, HasSettings, TapSteps, HasTaps, HasBond, AllEnslaved,
         HasMTU, IsUp, HasAddress, TunnelSteps
<1>1. /\ bond' \in BondRecs(OwnAddress) /\ pc' \in {"upBond", "address", "deleteTunnel", "done"}
      /\ bond'.index = bond.index /\ bond'.primary = bond.primary
      /\ cfg.AutoMTU => bond'.mtu = "tunnel"
      /\ pc' # "upBond" => bond'.up
      /\ pc' \in {"deleteTunnel", "done"} => bond'.address = OwnAddress
      /\ pc' = "done" => cfg.IsShootClient
  <2>1. CASE SetBondMTU
    <3>1. pc' = "upBond" /\ bond' = [bond EXCEPT !.mtu = "tunnel"]
      BY <2>1 DEF SetBondMTU, TunnelMTU, Goto
    <3> QED
      BY <1>b, <3>1, BondFields DEF MTUs
  <2>2. CASE UpBond
    <3>1. pc = "upBond" /\ pc' = "address" /\ bond' = [bond EXCEPT !.up = TRUE]
      BY <2>2 DEF UpBond, Goto
    <3>2. cfg.AutoMTU => bond.mtu = "tunnel"
      BY <3>1 DEF SetupInv, BondReady, HasMTU
    <3> QED
      BY <1>b, <3>1, <3>2, BondFields
  <2>3. CASE AddAddress
    <3>1. /\ pc = "address" /\ bond' = [bond EXCEPT !.address = OwnAddress]
          /\ pc' = IF cfg.IsShootClient THEN "done" ELSE "deleteTunnel"
      BY <2>3 DEF AddAddress, Goto
    <3>2. (cfg.AutoMTU => bond.mtu = "tunnel") /\ bond.up
      BY <3>1 DEF SetupInv, BondReady, HasMTU, IsUp
    <3> QED
      BY <1>b, <3>1, <3>2, BondFields
  <2> QED
    BY <2>1, <2>2, <2>3
<1>2. SetupType'
  BY <1>0, <1>p, <1>1 DEF SetupInv, SetupType
<1>3. SettingsWritten'
  <2>1. pc \in HasSettings
    BY <1>q DEF HasSettings
  <2> QED
    BY <1>0, <2>1 DEF SetupInv, SettingsWritten
<1>4. TapsReady'
  BY <1>0, <1>p, <1>q, <1>1 DEF SetupInv, TapsReady, TapReady, TapSteps
<1>5. BondReady'
  <2>1. /\ bond.index # 0 /\ \A n \in Taps : tap[n].master = bond.index
        /\ cfg.BondingMode = "active-backup" => bond.primary = tap[0].index
    BY <1>q DEF SetupInv, BondReady
  <2> QED
    BY <1>0, <1>p, <1>1, <2>1 DEF BondReady
<1>6. TunnelsReady'
  BY <1>0, <1>t, <1>p, <1>1 DEF TunnelsReady
<1> QED
  BY <1>2, <1>3, <1>4, <1>5, <1>6 DEF SetupInv

\* The tunnels to the shoot clients.
LEMMA SetupTunnelCalls ==
    ASSUME SetupInv, DeleteTunnel \/ AddTunnel \/ UpTunnel
    PROVE  SetupInv'
<1>0. /\ OwnAddress' = OwnAddress
      /\ UNCHANGED <<cfg, faults, sysctl, tap, bond, primary>>
  BY DEF OwnAddress, VPNClientIndex, DeleteTunnel, AddTunnel, UpTunnel
<1>q. /\ pc \in TunnelSteps /\ pc \in HasTaps /\ pc \in HasBond /\ pc \in AllEnslaved
      /\ pc \in HasMTU /\ pc \in IsUp /\ pc \in HasAddress /\ pc \in HasSettings
  BY DEF DeleteTunnel, AddTunnel, UpTunnel, HasSettings, HasTaps, HasBond,
         AllEnslaved, HasMTU, IsUp, HasAddress, TunnelSteps
<1>t. /\ i \in Tunnels /\ \A n \in Tunnels : n \in Nat
      /\ HAVPNClients \in Nat /\ nextIndex \in Nat \ {0}
      /\ tunnel \in [Tunnels -> TunnelRecs(OwnAddress)]
      /\ \A n \in Tunnels : n < i => TunnelReady(n)
  BY <1>q, SetupAssumption DEF SetupInv, SetupType, TunnelsReady, Tunnels
<1>1. /\ \/ pc' \in {"addTunnel", "upTunnel"} /\ i' = i
         \/ pc' = "deleteTunnel" /\ i' = i + 1 /\ i + 1 < HAVPNClients
         \/ pc' = "done" /\ i' = 0 /\ i + 1 >= HAVPNClients
      /\ nextIndex' \in Nat \ {0}
  BY <1>t DEF DeleteTunnel, AddTunnel, UpTunnel, Goto, NextOrElse
<1>2. /\ tunnel' \in [Tunnels -> TunnelRecs(OwnAddress)]
      /\ \A n \in Tunnels \ {i} : tunnel'[n] = tunnel[n]
      /\ pc' = "upTunnel" =>
            /\ tunnel'[i].local = OwnAddress
            /\ tunnel'[i].remote = BondingShootClientIP(i)
      /\ pc' \in {"deleteTunnel", "done"} => \A n \in {i} : TunnelReady(n)'
  <2>1. CASE DeleteTunnel
    <3>1. pc' = "addTunnel" /\ tunnel' = [tunnel EXCEPT ![i] = NoTunnel]
      BY <2>1 DEF DeleteTunnel, Goto
    <3>2. NoTunnel \in TunnelRecs(OwnAddress)
      BY DEF NoTunnel, TunnelRecs
    <3> QED
      BY <1>t, <3>1, <3>2
  <2>2. CASE AddTunnel
    <3> DEFINE new == [state |-> "down", local |-> OwnAddress,
                       remote |-> BondingShootClientIP(i), filter |-> NewFilter]
    <3>1. NewFilter \in {FALSE}
      BY <1>q, NotFiltered DEF SetupInv
    <3>2. /\ new \in TunnelRecs(OwnAddress)
          /\ new.local = OwnAddress /\ new.remote = BondingShootClientIP(i)
      BY <1>t, <3>1 DEF TunnelRecs
    <3>3. pc' = "upTunnel" /\ tunnel' = [tunnel EXCEPT ![i] = new]
      BY <2>2 DEF AddTunnel, Goto
    <3> HIDE DEF new
    <3> QED
      BY <1>t, <3>2, <3>3
  <2>3. CASE UpTunnel
    <3> DEFINE new == [tunnel[i] EXCEPT !.state = "up"]
    <3>1. /\ tunnel[i] \in TunnelRecs(OwnAddress)
          /\ tunnel[i].local = OwnAddress
          /\ tunnel[i].remote = BondingShootClientIP(i)
      BY <1>t, <2>3 DEF UpTunnel, SetupInv, TunnelsReady, TunnelAdded
    <3>2. /\ new \in TunnelRecs(OwnAddress)
          /\ new.state = "up" /\ new.local = tunnel[i].local
          /\ new.remote = tunnel[i].remote
      BY <3>1 DEF TunnelRecs
    <3>3. tunnel' = [tunnel EXCEPT ![i] = new] /\ pc' # "upTunnel"
      BY <2>3 DEF UpTunnel, Goto, NextOrElse
    <3> HIDE DEF new
    <3> QED
      BY <1>0, <1>t, <3>1, <3>2, <3>3 DEF TunnelReady, TunnelAdded
  <2> QED
    BY <2>1, <2>2, <2>3
<1>3. /\ pc' \in HasTaps /\ pc' \in HasBond /\ pc' \in AllEnslaved /\ pc' \in HasMTU
      /\ pc' \in IsUp /\ pc' \in HasAddress /\ pc' \in HasSettings /\ pc' \in Calls
      /\ pc' \notin TapSteps /\ pc' # "enslave" /\ pc' # "addBond" /\ pc' # "tapMTU"
      /\ pc' \in TunnelSteps => pc' # "done"
  BY <1>1 DEF Calls, HasSettings, TapSteps, HasTaps, HasBond, AllEnslaved, HasMTU, IsUp,
              HasAddress, TunnelSteps
<1>4. SetupType'
  <2>1. i' \in Nat
    BY <1>1, <1>t
  <2> QED
    BY <1>0, <1>1, <1>2, <1>3, <2>1 DEF SetupInv, SetupType
<1>5. SettingsWritten' /\ TapsReady'
  BY <1>0, <1>q, <1>3 DEF SetupInv, SettingsWritten, TapsReady, TapReady
<1>6. BondReady'
  BY <1>0, <1>q, <1>3 DEF SetupInv, BondReady
<1>7. TunnelsReady'
  <2>1. \A n \in Tunnels : n < i => TunnelReady(n)'
    BY <1>0, <1>t, <1>2 DEF TunnelReady, TunnelAdded
  <2>2. CASE pc' \in {"addTunnel", "upTunnel"}
    <3>1. i' = i
      BY <1>1, <2>2
    <3> QED
      BY <1>0, <1>t, <1>2, <2>1, <2>2, <3>1 DEF TunnelsReady, TunnelAdded
  <2>3. CASE pc' = "deleteTunnel"
    <3>1. i' \in Tunnels /\ \A n \in Tunnels : n < i' => n < i \/ n = i
      BY <1>1, <1>t, <2>3 DEF Tunnels
    <3> QED
      BY <1>2, <2>1, <2>3, <3>1 DEF TunnelsReady
  <2>4. CASE pc' = "done"
    <3>1. \A n \in Tunnels : n < i \/ n = i
      BY <1>1, <1>t, <2>4 DEF Tunnels
    <3> QED
      BY <1>2, <1>3, <2>1, <2>4, <3>1 DEF TunnelsReady
  <2> QED
    BY <1>1, <2>2, <2>3, <2>4
<1> QED
  BY <1>4, <1>5, <1>6, <1>7 DEF SetupInv

LEMMA SetupNext ==
    ASSUME SetupInv, Next
    PROVE  SetupInv'
  BY SetupTapCalls, SetupBondCalls, SetupAddressCalls, SetupTunnelCalls, SetupRestart
     DEF Next, Call

\* The other containers leave the setup alone; they only have their share of
\* the faults.
LEMMA SetupPodNext ==
    ASSUME SetupInv, [PodNext]_podVars
    PROVE  SetupInv'
<1>f. faults \in Nat
  BY DEF SetupInv, SetupType
<1>1. CASE PodCall \/ PodRestart
  BY <1>1, SetupNext DEF PodCall, PodRestart, Next
<1>2. ASSUME NEW n \in Taps, ClientStep(n)
      PROVE  SetupInv'
  <2>1. UNCHANGED vars
    BY <1>2 DEF ClientStep, ListAddresses, SetDown, DeleteAddress, Connect
  <2> QED
    BY <1>f, <2>1, SetupUnchanged DEF vars, devices
<1>3. ASSUME NEW n \in Taps, ClientRestart(n)
      PROVE  SetupInv'
  <2>1. UNCHANGED <<cfg, pc, i, sysctl, devices>> /\ faults' \in Nat
    BY <1>f, <1>3 DEF ClientRestart
  <2> QED
    BY <2>1, SetupUnchanged
<1>4. CASE UNCHANGED podVars
  BY <1>f, <1>4, SetupUnchanged DEF podVars, vars, devices
<1> QED
  BY <1>1, <1>2, <1>3, <1>4 DEF PodNext

\* The invariant of the setup, whatever fails and however often it runs
\* (bonding.go ConfigureBonding, sysctl.go KernelSettings).
THEOREM SetupInvariant == PodSpec => []SetupInv
<1>1. PodInit => SetupInv
  BY SetupInit DEF PodInit
<1>2. SetupInv /\ [PodNext]_podVars => SetupInv'
  BY SetupPodNext
<1> QED
  BY <1>1, <1>2, PTL DEF PodSpec

\* When ConfigureBonding has returned, the bond, its taps, its primary, its
\* MTU and its address are as configured, whatever earlier attempts have left
\* behind (bonding.go ConfigureBonding).
THEOREM BondConfiguredTheorem == PodSpec => []BondConfigured
<1>1. SetupInv => BondConfigured
  <2> SUFFICES ASSUME SetupInv, pc = "done" PROVE BondConfigured
    BY DEF BondConfigured
  <2>1. pc \in HasTaps /\ pc \in HasBond /\ pc \in AllEnslaved /\ pc \in HasMTU
        /\ pc \in IsUp /\ pc \in HasAddress
    BY DEF HasTaps, HasBond, AllEnslaved, HasMTU, IsUp, HasAddress
  <2>2. \A n \in Taps : TapReady(n)
    BY <2>1 DEF SetupInv, TapsReady
  <2> QED
    BY <2>1, <2>2 DEF SetupInv, BondReady, BondConfigured, TapReady
<1> QED
  BY <1>1, SetupInvariant, PTL

\* No device that the setup leaves filters by reverse path, not even one that
\* an attempt that failed has created (sysctl.go DisableRpFilter, setup.go
\* run).
THEOREM NothingFilteredTheorem == PodSpec => []NothingFiltered
<1>1. SetupInv => NothingFiltered
  <2> SUFFICES ASSUME SetupInv, pc = "done" PROVE NothingFiltered
    BY DEF NothingFiltered
  <2>1. pc \in HasSettings
    BY DEF HasSettings, HasTaps, HasBond, AllEnslaved, HasMTU, IsUp, HasAddress
  <2>2. bond.filter \in {FALSE}
    BY DEF SetupInv, SetupType, BondRecs
  <2>3. \A n \in Taps : tap[n].filter \in {FALSE}
    BY DEF SetupInv, SetupType, TapRecs
  <2>4. \A n \in Tunnels : tunnel[n].filter \in {FALSE}
    BY DEF SetupInv, SetupType, TunnelRecs
  <2> QED
    BY <2>1, <2>2, <2>3, <2>4 DEF SetupInv, SettingsWritten, NothingFiltered
<1> QED
  BY <1>1, SetupInvariant, PTL

\* Beside a kube-apiserver, the device that the path controller derives from
\* the address of a shoot client leads there, for every number of clients,
\* also one that a byte does not count; a shoot client with a valid index has
\* one of these addresses and no kube-apiserver does (ip.go, bonding.go,
\* client_router.go updateRouting).
THEOREM PathToEveryClientTheorem == PodSpec => []PathToEveryClient
<1>1. SetupInv => PathToEveryClient
  <2> SUFFICES ASSUME SetupInv, pc = "done" PROVE PathToEveryClient
    BY DEF PathToEveryClient
  <2>1. bond.address = OwnAddress
    BY DEF SetupInv, BondReady, HasAddress
  <2>2. cfg \in Environment /\ Byte \in Nat \ {0} /\ HAVPNClients \in Nat
    BY AddressAssumption, SetupAssumption DEF SetupInv, SetupType, bondStartShoot
  <2>3. CASE cfg.IsShootClient
    <3>1. VPNClientIndex \in Tunnels =>
             BondingShootClientIP(VPNClientIndex) \in AllBondingShootClientIPs(HAVPNClients)
      BY DEF AllBondingShootClientIPs, Tunnels
    <3>2. OwnAddress = BondingShootClientIP(VPNClientIndex)
      BY <2>3 DEF OwnAddress
    <3> QED
      BY <2>1, <2>3, <3>1, <3>2 DEF PathToEveryClient
  <2>4. CASE ~cfg.IsShootClient
    <3>1. OwnAddress = SeedClientIP(cfg.poolIndex)
      BY <2>4 DEF OwnAddress
    <3>2. cfg.poolIndex \in startIndexSeed .. endIndexSeed
      BY <2>2 DEF Environment
    <3>3. OwnAddress \notin AllBondingShootClientIPs(HAVPNClients)
      BY <2>2, <3>1, <3>2, ShootAddressesApart DEF AllBondingShootClientIPs
    <3>4. \A n \in Tunnels : TunnelReady(n)
      BY <2>4 DEF SetupInv, TunnelsReady
    <3>5. ASSUME NEW ip \in AllBondingShootClientIPs(HAVPNClients)
          PROVE  LET k == ClientIndexFromBondingShootClientIP(ip)
                 IN  k \in Tunnels /\ ip = BondingShootClientIP(k)
      <4>1. PICK n \in 0 .. HAVPNClients - 1 : ip = BondingShootClientIP(n)
        BY DEF AllBondingShootClientIPs
      <4> DEFINE k == n % Byte
      <4>2. k \in 0 .. Byte - 1 /\ k <= n
        <5>1. n \in Nat
          BY <2>2
        <5>2. n % Byte \in 0 .. Byte - 1
          BY <2>2, <5>1, DivMod
        <5>3. n % Byte <= n
          BY <2>2, <5>1, ModAtMost
        <5> QED
          BY <5>2, <5>3
      <4> HIDE DEF k
      <4>3. k % Byte = k
        BY <2>2, <4>2, SmallMod
      <4>4. ClientIndexFromBondingShootClientIP(ip) = k
        BY <4>1 DEF ClientIndexFromBondingShootClientIP, BondingShootClientIP, k
      <4>5. ip = BondingShootClientIP(k)
        BY <4>1, <4>3 DEF BondingShootClientIP, k
      <4>6. k \in Tunnels
        BY <2>2, <4>2 DEF Tunnels
      <4> QED
        BY <4>4, <4>5, <4>6
    <3> QED
      BY <2>1, <2>4, <3>3, <3>4, <3>5 DEF PathToEveryClient, TunnelReady, TunnelAdded
  <2> QED
    BY <2>3, <2>4
<1> QED
  BY <1>1, SetupInvariant, PTL

-----------------------------------------------------------------------------
\* The addresses of the tap devices.  OpenVPN is started on a device without
\* address: Cleanup has listed none, or deletes the listed ones one by one
\* and there are no others.
Clean(n) ==
    /\ client[n] \in {"setDown", "delete"} => addrs[n] \subseteq listed[n]
    /\ client[n] = "openvpn" => addrs[n] = {}

PodInv ==
    /\ client \in [Taps -> {"cleanup", "setDown", "delete", "openvpn", "connected"}]
    /\ listed \in [Taps -> SUBSET Address]
    /\ addrs \in [Taps -> SUBSET Address]
    /\ \A n \in Taps :
          /\ Clean(n)
          /\ \A ip1, ip2 \in addrs[n] : ip1 = ip2
          /\ \A ip \in addrs[n] : InHAVPNTunnelNetwork(n, ip)

\* Addresses may go at any time.
LEMMA FewerAddresses ==
    ASSUME PodInv, addrs' \in [Taps -> SUBSET Address], UNCHANGED listed,
           \A n \in Taps : addrs'[n] \subseteq addrs[n],
           \A n \in Taps : client'[n] \in {client[n], "cleanup"},
           client' \in [Taps -> {"cleanup", "setDown", "delete", "openvpn", "connected"}]
    PROVE  PodInv'
  BY DEF PodInv, Clean

LEMMA AssignedType ==
    ASSUME NEW n \in Taps, NEW ip \in Assigned(n)
    PROVE  ip \in Address /\ InHAVPNTunnelNetwork(n, ip)
<1>1. \A b \in {0, 1} \cup Taps \cup {0} \cup Hosts : b \in 0 .. Byte - 1
  BY AddressAssumption, SetupAssumption, PodAssumption DEF bondStartShoot, Taps
<1> QED
  BY <1>1 DEF Assigned, Address

\* The steps of a container change what belongs to its device only.
LEMMA ClientPodInv ==
    ASSUME PodInv, NEW n \in Taps, ClientStep(n)
    PROVE  PodInv'
<1> DEFINE States == {"cleanup", "setDown", "delete", "openvpn", "connected"}
<1>t. /\ client \in [Taps -> States] /\ listed \in [Taps -> SUBSET Address]
      /\ addrs \in [Taps -> SUBSET Address]
  BY DEF PodInv
<1>o. ASSUME client' \in [Taps -> States], listed' \in [Taps -> SUBSET Address],
             addrs' \in [Taps -> SUBSET Address],
             \A k \in Taps \ {n} : /\ client'[k] = client[k] /\ listed'[k] = listed[k]
                                   /\ addrs'[k] = addrs[k],
             Clean(n)', \A ip1, ip2 \in addrs'[n] : ip1 = ip2,
             \A ip \in addrs'[n] : InHAVPNTunnelNetwork(n, ip)
      PROVE  PodInv'
  BY <1>o DEF PodInv, Clean
<1>i. /\ \A ip1, ip2 \in addrs[n] : ip1 = ip2
      /\ \A ip \in addrs[n] : InHAVPNTunnelNetwork(n, ip)
      /\ Clean(n)
  BY DEF PodInv
<1>1. CASE ListAddresses(n)
  <2>1. /\ client' = [client EXCEPT ![n] = IF addrs[n] = {} THEN "openvpn" ELSE "setDown"]
        /\ listed' = [listed EXCEPT ![n] = addrs[n]] /\ addrs' = addrs
    BY <1>1 DEF ListAddresses, Step
  <2>2. Clean(n)'
    BY <1>t, <2>1 DEF Clean
  <2> QED
    BY <1>t, <1>o, <1>i, <2>1, <2>2
<1>2. CASE SetDown(n)
  <2>1. /\ client[n] = "setDown" /\ client' = [client EXCEPT ![n] = "delete"]
        /\ listed' = listed
        /\ addrs' = addrs \/ addrs' = [addrs EXCEPT ![n] = {}]
    BY <1>2, <1>t DEF SetDown, Step
  <2>2. Clean(n)'
    BY <1>t, <1>i, <2>1 DEF Clean
  <2> QED
    BY <1>t, <1>o, <1>i, <2>1, <2>2
<1>3. ASSUME NEW ip \in listed[n], DeleteAddress(n, ip)
      PROVE  PodInv'
  <2>1. CASE ip \in addrs[n]
    <3>1. /\ client[n] = "delete"
          /\ client' = [client EXCEPT ![n] =
                           IF listed[n] = {ip} THEN "openvpn" ELSE "delete"]
          /\ listed' = [listed EXCEPT ![n] = listed[n] \ {ip}]
          /\ addrs' = [addrs EXCEPT ![n] = addrs[n] \ {ip}]
      BY <1>3, <2>1 DEF DeleteAddress, AddrDel, Step
    <3>2. /\ client'[n] = IF listed[n] = {ip} THEN "openvpn" ELSE "delete"
          /\ listed'[n] = listed[n] \ {ip} /\ addrs'[n] = addrs[n] \ {ip}
      BY <1>t, <3>1
    <3>3. addrs[n] \subseteq listed[n]
      BY <1>i, <3>1 DEF Clean
    <3>4. Clean(n)'
      BY <3>2, <3>3 DEF Clean
    <3>5. /\ client' \in [Taps -> States] /\ listed' \in [Taps -> SUBSET Address]
          /\ addrs' \in [Taps -> SUBSET Address]
          /\ \A k \in Taps \ {n} : /\ client'[k] = client[k] /\ listed'[k] = listed[k]
                                   /\ addrs'[k] = addrs[k]
      BY <1>t, <3>1
    <3> QED
      BY <1>o, <1>i, <3>2, <3>4, <3>5
  <2>2. CASE ip \notin addrs[n]
    <3>1. client' = [client EXCEPT ![n] = "cleanup"] /\ UNCHANGED <<listed, addrs>>
      BY <1>3, <2>2 DEF DeleteAddress, Step
    <3> QED
      BY <1>t, <3>1, FewerAddresses
  <2> QED
    BY <2>1, <2>2
<1>4. ASSUME NEW ip \in Assigned(n), Connect(n, ip)
      PROVE  PodInv'
  <2>1. CASE ip \in addrs[n]
    <3>1. client' = [client EXCEPT ![n] = "cleanup"] /\ UNCHANGED <<listed, addrs>>
      BY <1>4, <2>1 DEF Connect, Step
    <3> QED
      BY <1>t, <3>1, FewerAddresses
  <2>2. CASE ip \notin addrs[n]
    <3>1. /\ client[n] = "openvpn" /\ client' = [client EXCEPT ![n] = "connected"]
          /\ addrs' = [addrs EXCEPT ![n] = addrs[n] \cup {ip}]
          /\ UNCHANGED listed
      BY <1>4, <2>2 DEF Connect, Step
    <3>2. addrs'[n] = {ip} /\ client'[n] = "connected"
      BY <1>t, <1>i, <3>1 DEF Clean
    <3>3. Clean(n)'
      BY <3>2 DEF Clean
    <3>4. ip \in Address /\ InHAVPNTunnelNetwork(n, ip)
      BY AssignedType
    <3> QED
      BY <1>t, <1>o, <3>1, <3>2, <3>3, <3>4
  <2> QED
    BY <2>1, <2>2
<1> QED
  BY <1>1, <1>2, <1>3, <1>4 DEF ClientStep

LEMMA NextPodInv ==
    ASSUME PodInv, [PodNext]_podVars
    PROVE  PodInv'
<1>t. /\ client \in [Taps -> {"cleanup", "setDown", "delete", "openvpn", "connected"}]
      /\ addrs \in [Taps -> SUBSET Address]
  BY DEF PodInv
<1>1. CASE PodCall
  BY <1>1, <1>t, FewerAddresses DEF PodCall
<1>2. CASE PodRestart
  BY <1>2, <1>t, FewerAddresses DEF PodRestart
<1>3. ASSUME NEW n \in Taps, ClientRestart(n)
      PROVE  PodInv'
  <2>1. /\ client' = [client EXCEPT ![n] = "cleanup"] /\ UNCHANGED listed
        /\ addrs' = addrs \/ addrs' = [addrs EXCEPT ![n] = {}]
    BY <1>3 DEF ClientRestart
  <2> QED
    BY <1>t, <2>1, FewerAddresses
<1>4. CASE UNCHANGED podVars
  BY <1>4, <1>t, FewerAddresses DEF podVars
<1> QED
  BY <1>1, <1>2, <1>3, <1>4, ClientPodInv DEF PodNext

LEMMA PodInvariant == PodSpec => []PodInv
<1>1. PodInit => PodInv
  BY DEF PodInit, PodInv, Clean
<1>2. PodInv /\ [PodNext]_podVars => PodInv'
  BY NextPodInv
<1> QED
  BY <1>1, <1>2, PTL DEF PodSpec

\* Whatever the kernel keeps when a device is set down, and whenever
\* containers die, no device of OpenVPN has an address of an earlier
\* connection beside the current one (cleanup.go Cleanup).
THEOREM OneAddressTheorem == PodSpec => []OneAddress
<1>1. PodInv => OneAddress
  BY DEF PodInv, OneAddress
<1> QED
  BY <1>1, PodInvariant, PTL

\* The kernel has a single device to send to an address of a pod, for as many
\* VPN servers as a byte counts (ip.go).
THEOREM OwnNetworksTheorem == PodSpec => []OwnNetworks
<1>1. SetupInv /\ PodInv => OwnNetworks
  <2> SUFFICES ASSUME SetupInv, PodInv PROVE OwnNetworks
    OBVIOUS
  <2>1. \A n \in Taps : n \in 0 .. Byte - 1
    BY AddressAssumption, SetupAssumption DEF bondStartShoot, Taps
  <2>2. ASSUME NEW n \in Taps, NEW ip \in addrs[n]
        PROVE  /\ ~InBondNetwork(ip)
               /\ \A m \in Taps \ {n} : ~InHAVPNTunnelNetwork(m, ip)
    <3>1. ip \in Address /\ InHAVPNTunnelNetwork(n, ip)
      BY <2>2 DEF PodInv
    <3> QED
      BY <2>1, <3>1, NetworksApart
  <2>3. OwnAddress[1] = 0
    BY DEF OwnAddress, BondingShootClientIP, SeedClientIP
  <2>4. bond.address \in {NoAddress, OwnAddress}
    BY DEF SetupInv, SetupType, BondRecs
  <2>5. bond.address # NoAddress =>
           \A n \in Taps : ~InHAVPNTunnelNetwork(n, bond.address)
    BY <2>3, <2>4 DEF InHAVPNTunnelNetwork
  <2> QED
    BY <2>2, <2>5 DEF OwnNetworks
<1> QED
  BY <1>1, SetupInvariant, PodInvariant, PTL
=============================================================================
