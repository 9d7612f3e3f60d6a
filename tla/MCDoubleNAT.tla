---------------------------- MODULE MCDoubleNAT ----------------------------
(***************************************************************************)
(* Instances of DoubleNAT with addresses of four bits: networks of one or  *)
(* two addresses below 8, reserved ranges of two addresses above.          *)
(***************************************************************************)
EXTENDS DoubleNAT

N(base, prefix) == [base |-> base, prefix |-> prefix]
V6(n) == [v6 |-> n]

SeedRange == N(8, 3)
NodeRange == N(10, 3)
ServiceRange == N(12, 3)
PodRange == N(14, 3)

Config(ha, seedPod, pods, services, nodes, families) ==
    [ha |-> ha, seedPod |-> seedPod, pods |-> pods, services |-> services,
     nodes |-> nodes, families |-> families]

\* No overlap; the seed pods overlap the shoot pods; the shoot networks
\* overlap each other, too; two stacks; only one of them on the seed; networks
\* that do not fit, also without overlap.
Apart(ha) ==
    Config(ha, N(0, 3), <<N(2, 3)>>, <<N(4, 4)>>, <<N(7, 4), N(6, 4)>>, <<4>>)
SamePods ==
    Config(FALSE, N(0, 3), <<N(0, 3)>>, <<N(4, 4)>>, <<N(7, 4), N(6, 4)>>, <<4>>)
Nested(ha) == Config(ha, N(0, 3), <<N(1, 4)>>, <<N(0, 4)>>, <<N(0, 3)>>, <<4>>)
DualStack(ha) ==
    Config(ha, N(0, 3), <<V6(1), N(1, 4)>>, <<V6(2)>>, <<>>, <<4, 6>>)
SeedV6 == Config(FALSE, V6(0), <<N(1, 4)>>, <<N(2, 3)>>, <<V6(1)>>, <<4, 6>>)
TooLarge(ha) ==
    Config(ha, N(0, 3), <<N(0, 3), N(4, 4)>>, <<N(6, 4)>>, <<>>, <<4>>)
TooLargeApart ==
    Config(TRUE, N(0, 3), <<N(2, 3), N(4, 4)>>, <<N(6, 4)>>, <<>>, <<4>>)

MCConfigs ==
    {Apart(TRUE), Nested(TRUE), DualStack(TRUE), Apart(FALSE), SamePods,
     Nested(FALSE), DualStack(FALSE), SeedV6, TooLarge(TRUE), TooLarge(FALSE),
     TooLargeApart}
=============================================================================
