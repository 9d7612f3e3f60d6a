------------------------------ MODULE Networks ------------------------------
(***************************************************************************)
(* pkg/network types.go and netmap.go: IPv4 networks, and the assignment   *)
(* of shoot networks to subnets of a reserved range.  Addresses have W     *)
(* bits instead of 32; masking is arithmetic with powers of two.           *)
(***************************************************************************)
EXTENDS Naturals, Sequences, FiniteSets

CONSTANT W   \* bits of an address

ASSUME WidthAssumption == W \in Nat \ {0}

\* The networks ParseIPNet returns: the host bits of the base are zero.
IPNets == {n \in [base : 0 .. 2^W - 1, prefix : 0 .. W] :
              n.base % 2^(W - n.prefix) = 0}

Size(n) == 2^(W - n.prefix)

Contains(n, ip) == ip \div Size(n) = n.base \div Size(n)

Overlap(m, n) == Contains(m, n.base) \/ Contains(n, m.base)

\* The host bits of the address in the network.
netmapIP(ip, n) == n.base + (ip % Size(n))

\* The positions of the IPv4 networks of a list.
IsIPv4(n) == n \in IPNets
IPv4s(nets) == {i \in DOMAIN nets : IsIPv4(nets[i])}

\* The IPv4 networks of a list, sorted by their prefix length; sort.Slice keeps
\* the order of equal ones for as few networks as a shoot has.
\* (Mutant: the networks are taken as they come.)
AsGiven(nets) == nets
ByPrefix(nets) ==
    LET Before(i) == {j \in IPv4s(nets) :
                         \/ nets[j].prefix < nets[i].prefix
                         \/ nets[j].prefix = nets[i].prefix /\ j < i}
    IN  [k \in 1 .. Cardinality(IPv4s(nets)) |->
            nets[CHOOSE i \in IPv4s(nets) : Cardinality(Before(i)) = k - 1]]

\* All subnets of length prefix of the networks with the given bases and
\* length from, in order.  The number of subnets is a word of W bits.
subnetSplit(bases, from, prefix) ==
    LET numSubnets == 2^(prefix - from) % 2^W
    IN  [i \in 1 .. Len(bases) * numSubnets |->
            bases[((i - 1) \div numSubnets) + 1]
                + ((i - 1) % numSubnets) * 2^(W - prefix)]

\* The start of the recursion: all of the range is free.
WholeRange(dst) ==
    [ok |-> TRUE, prefix |-> dst.prefix, free |-> <<dst.base>>, result |-> <<>>]

\* What is free after the first candidate was taken.
\* (Mutant: the candidate stays free.)
StillFree(candidates) == candidates
AfterFirst(candidates) == Tail(candidates)

\* One call of mapSubnetsRec: src gets the first free subnet of its size.
MapFirst(m, src) ==
    LET candidates == subnetSplit(m.free, m.prefix, src.prefix)
        mapped == [base |-> netmapIP(src.base, [base |-> Head(candidates),
                                                prefix |-> src.prefix]),
                   prefix |-> src.prefix]
    IN  IF src.prefix < m.prefix \/ candidates = <<>>
        THEN [m EXCEPT !.ok = FALSE]
        ELSE [ok |-> TRUE, prefix |-> src.prefix,
              free |-> AfterFirst(candidates),
              result |-> [n \in DOMAIN m.result \cup {src} |->
                             IF n = src THEN mapped ELSE m.result[n]]]

\* NetmapSubnets and NetmapCIDRs of the IPv4 networks: the whole recursion.
NetmapSubnets(nets, dst) ==
    LET srcs == ByPrefix(nets)
        rec[n \in 0 .. Len(srcs)] ==
            IF n = 0 THEN WholeRange(dst)
            ELSE IF rec[n - 1].ok THEN MapFirst(rec[n - 1], srcs[n])
            ELSE rec[n - 1]
    IN  rec[Len(srcs)]
=============================================================================
