---------------------------- MODULE MCClientPod ----------------------------
(***************************************************************************)
(* Two VPN servers and two clients, bytes of 16 values.  The environments  *)
(* have pod names without number, with the numbers of both clients and     *)
(* with one that does not fit into a byte, addresses at both ends of the   *)
(* pool and on both sides of a byte, and an unknown bonding mode.          *)
(***************************************************************************)
EXTENDS ClientPod

ShootEnvironments ==
    {e \in [IsShootClient : {TRUE}, suffix : {NoNumber, 0, 1, 17},
            BondingMode : BondingModes \cup {"802.3ad"},
            AutoMTU : BOOLEAN, poolIndex : {1}, ipv6 : BOOLEAN] :
        e.ipv6 \/ e.suffix = 0}

SeedEnvironments ==
    [IsShootClient : {FALSE}, suffix : {NoNumber}, BondingMode : BondingModes,
     AutoMTU : BOOLEAN, poolIndex : {1, 15, 16, 255}, ipv6 : {FALSE}]

AllEnvironments == ShootEnvironments \cup SeedEnvironments
=============================================================================
