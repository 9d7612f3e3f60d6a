------------------------------- MODULE Netmap -------------------------------
(***************************************************************************)
(* The recursion of NetmapSubnets (pkg/network/netmap.go) step by step,    *)
(* for every list of networks that a shoot may have.                       *)
(***************************************************************************)
EXTENDS Networks

CONSTANTS
    DstPrefix,   \* length of the reserved range (8 in the code)
    MaxSrcs      \* bound: networks of a list

ASSUME NetmapAssumption == DstPrefix \in 1 .. W /\ MaxSrcs \in Nat

\* The reserved range, at the end of the address space.
dstCIDR == [base |-> 2^W - 2^(W - DstPrefix), prefix |-> DstPrefix]

VARIABLES
    srcCIDRs,   \* the list of networks to be mapped
    srcs,       \* those that are left, sorted
    m,          \* what is free and what has been mapped
    taken       \* history: addresses of the networks that were taken so far

netmapVars == <<srcCIDRs, srcs, m, taken>>

Lists == UNION {[1 .. k -> IPNets] : k \in 0 .. MaxSrcs}

NetmapInit ==
    /\ srcCIDRs \in Lists
    /\ srcs = ByPrefix(srcCIDRs)
    /\ m = WholeRange(dstCIDR)
    /\ taken = 0

mapSubnetsRec ==
    /\ m.ok /\ srcs # <<>>
    /\ m' = MapFirst(m, Head(srcs))
    /\ srcs' = Tail(srcs)
    /\ taken' = taken + Size(Head(srcs))
    /\ UNCHANGED srcCIDRs

NetmapSpec == NetmapInit /\ [][mapSubnetsRec]_netmapVars

-----------------------------------------------------------------------------
Disjoint(a, b) == ~Overlap(a, b)

\* Mapped networks lie in the reserved range, keep their size, and neither
\* overlap each other nor anything that is still free (netmap.go
\* NetmapSubnets; "non-overlapping with each other").
MappedApart ==
    LET dst(n) == m.result[n]
        Free(i) == [base |-> m.free[i], prefix |-> m.prefix]
    IN  \A n \in DOMAIN m.result :
            /\ dst(n) \in IPNets /\ dst(n).prefix = n.prefix
            /\ Contains(dstCIDR, dst(n).base)
            /\ \A o \in DOMAIN m.result \ {n} : Disjoint(dst(n), dst(o))
            /\ \A i \in DOMAIN m.free : Disjoint(dst(n), Free(i))

\* "This will work for an arbitrary number of networks as along as they fit
\* into the reserved ranges" (netmap.go ShootNetworksForNetmap): the mapping
\* fails only if the networks taken so far are together larger than the range.
FittingIsMapped == ~m.ok => taken > Size(dstCIDR)
=============================================================================
