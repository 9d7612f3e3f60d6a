----------------------------- MODULE Addresses -----------------------------
(***************************************************************************)
(* pkg/network/ip.go: how a highly available VPN divides its network, a    *)
(* /96, among the tunnels of the VPN servers (a /112 for each), and the    *)
(* bond (a /104) with the addresses of shoot clients and seed clients.     *)
(* Path controllers, shoot clients and seed clients compute the same       *)
(* addresses on their own, from an index each.                             *)
(*                                                                         *)
(* An address is the tuple of its bytes 12 to 15; the others are those of  *)
(* the VPN network.                                                        *)
(***************************************************************************)
EXTENDS Integers

CONSTANT Byte    \* values of a byte, 256

\* ip.go has the constants 0xa and 0xb.
bondStartSeed == 10
bondStartShoot == 11

ASSUME AddressAssumption == Byte \in Nat /\ Byte > bondStartShoot

Address == (0 .. Byte - 1) \X (0 .. Byte - 1) \X (0 .. Byte - 1) \X (0 .. Byte - 1)

\* The index of a shoot client is cut off to a byte.
BondingShootClientIP(index) == <<0, bondStartShoot, 0, index % Byte>>

AllBondingShootClientIPs(haVPNClients) ==
    {BondingShootClientIP(i) : i \in 0 .. haVPNClients - 1}

\* The indices that BondingSeedClientRange gives the broker of IPPool, and the
\* address that findFreeIPAddress makes of one.
startIndexSeed == 1
endIndexSeed == Byte * Byte - 1

SeedClientIP(index) ==
    <<0, bondStartSeed, (index \div Byte) % Byte, index % Byte>>

\* (Mutant: the byte before the last.)
SecondLastByte(clientIP) == clientIP[3]
ClientIndexFromBondingShootClientIP(clientIP) == clientIP[4]

\* linkName of the tunnel controller, by the two bytes it consists of.
linkName(remoteAddr) == <<remoteAddr[3], remoteAddr[4]>>

\* Networks by what lies in them: the bond's /104 and the /112 of a VPN server.
\* (Mutant: byte 12 is not set.)
InBondNetwork(ip) == ip[1] = 0
InBondToo(vpnIndex, ip) == ip[1] = 0 /\ ip[2] = vpnIndex % Byte
InHAVPNTunnelNetwork(vpnIndex, ip) == ip[1] = 1 /\ ip[2] = vpnIndex % Byte
=============================================================================
