----------------------------- MODULE DoubleNAT -----------------------------
(***************************************************************************)
(* How a packet gets from the seed to a shoot and its answer back although *)
(* the networks of both may overlap.  The containers on both sides set     *)
(* iptables rules one after the other before they start OpenVPN            *)
(* (SetIPTableRules of pkg/vpn_client and pkg/vpn_server); the OpenVPN     *)
(* server calls the firewall command when its device goes up or down.      *)
(* With IS_HA, several containers of a pod do so at the same time in one   *)
(* network namespace, and everywhere rules outlive a container that        *)
(* crashes.  Each side works out for itself which networks are mapped      *)
(* where.                                                                  *)
(***************************************************************************)
EXTENDS Networks, FiniteSetsExt

CONSTANTS
    SeedContainers,     \* seed clients of a pod, with IS_HA
    Server,             \* the one of them that is the VPN server, without
    ShootContainers,    \* shoot clients of a pod
    Configs,            \* configurations of both sides, see ConfigType
    PodMapped, ServiceMapped, NodeMapped, SeedMapped,   \* reserved ranges
    MaxStarts           \* bound: starts of containers

IsList(s) == Len(s) \in Nat /\ s = [i \in 1 .. Len(s) |-> s[i]]

ConfigType(c) ==
    /\ DOMAIN c = {"ha", "seedPod", "pods", "services", "nodes", "families"}
    /\ c.ha \in BOOLEAN
    /\ IsList(c.pods) /\ IsList(c.services) /\ IsList(c.nodes)
    /\ c.families \in {<<4>>, <<6>>, <<4, 6>>}

\* The ranges that are reserved in constants.go do not overlap, and none is the
\* whole address space.
ASSUME DoubleNATAssumption ==
    /\ \A c \in Configs : ConfigType(c)
    /\ {PodMapped, ServiceMapped, NodeMapped, SeedMapped} \subseteq IPNets
    /\ \A n \in {PodMapped, ServiceMapped, NodeMapped} : n.prefix > 0
    /\ ~Overlap(PodMapped, ServiceMapped)
    /\ ~Overlap(PodMapped, NodeMapped)
    /\ ~Overlap(ServiceMapped, NodeMapped)
    /\ Server \in SeedContainers /\ SeedContainers \cap ShootContainers = {}
    /\ MaxStarts \in Nat

VARIABLES
    cfg,           \* the configuration
    rules,         \* rules[side]: the iptables rules in their order
    pc,            \* pc[c]: "stopped", "setup", "running" or "down"
    plan,          \* plan[c]: what the container has still to do
    checked,       \* checked[c]: AppendUnique did not find its rule
    starts,        \* starts still to come
    interrupted    \* history: a firewall --mode down did not finish

vars == <<cfg, rules, pc, plan, checked, starts, interrupted>>

IsHA == cfg.ha

Containers == SeedContainers \cup ShootContainers
Side(c) == IF c \in SeedContainers THEN "seed" ELSE "shoot"

Init ==
    /\ cfg \in Configs
    /\ rules = [s \in {"seed", "shoot"} |-> <<>>]
    /\ pc = [c \in Containers |-> "stopped"]
    /\ plan = [c \in Containers |-> <<>>]
    /\ checked = [c \in Containers |-> FALSE]
    /\ starts = MaxStarts
    /\ interrupted = FALSE

-----------------------------------------------------------------------------
\* What the code works out from its configuration.

ShootNetworks == cfg.pods \o cfg.services \o cfg.nodes

\* OverLapAny.  Networks of different families do not overlap.
overlap ==
    \E i \in DOMAIN ShootNetworks :
        LET n == ShootNetworks[i]
        IN  \/ n = cfg.seedPod
            \/ IsIPv4(n) /\ IsIPv4(cfg.seedPod) /\ Overlap(n, cfg.seedPod)

\* doNetmap: the condition of the server and of the clients.
\* (Mutant: the shoot client looks at the overlap alone.)
OnlyOverlap == overlap
doNetmap == ~IsHA \/ overlap

\* ShootNetworksForNetmap.
PodMappings == NetmapSubnets(cfg.pods, PodMapped)
ServiceMappings == NetmapSubnets(cfg.services, ServiceMapped)
NodeMappings == NetmapSubnets(cfg.nodes, NodeMapped)
MappingFits == PodMappings.ok /\ ServiceMappings.ok /\ NodeMappings.ok

\* The networks that the seed routes into the tunnel, as BuildValues and
\* updateRouting work them out.
RoutedNetworks ==
    LET Routed(nets, mapped) ==
            {IF IsIPv4(nets[i]) /\ doNetmap THEN mapped ELSE nets[i] :
                i \in DOMAIN nets}
    IN  UNION {Routed(cfg.services, ServiceMapped),
               Routed(cfg.pods, PodMapped), Routed(cfg.nodes, NodeMapped)}

\* The routes there are.  With IS_HA updateRouting of the path controller sets
\* them; it looks for a mapping even if none is needed, and sets no route if
\* there is none.
SeedRoutes == IF IsHA /\ ~MappingFits THEN {} ELSE RoutedNetworks

\* The addresses that the shoot routes into the tunnel when ip is the address
\* of the caller's pod: vpnConfig and the up script of the client, or the pod
\* IP that the path controller sends to the tunnel controller.  The seed pod
\* network is an IPv4 network.
ReturnRoute(ip) ==
    IF IsHA
    THEN {IF overlap THEN netmapIP(ip, SeedMapped) ELSE ip}
    ELSE {a \in 0 .. 2^W - 1 : Contains(SeedMapped, a)}

-----------------------------------------------------------------------------
\* Rules and the order in which they are set.

Rule(family, chain, match, to) ==
    [family |-> family, chain |-> chain, match |-> match, to |-> to]

Unique(r) == [op |-> "unique", rule |-> r]
Append1(r) == [op |-> "append", rule |-> r]
Remove(r) == [op |-> "delete", rule |-> r]
Fail == [op |-> "fail"]

Established(f) == Rule(f, "INPUT", "established", "ACCEPT")
DropNew(f) == Rule(f, "INPUT", "any", "DROP")

\* Go visits the mappings of a result in any order.
Orders(mappings) ==
    LET srcs == DOMAIN mappings.result
    IN  {s \in [1 .. Cardinality(srcs) -> srcs] :
            \A i, j \in DOMAIN s : i # j => s[i] # s[j]}

\* The rules of mappings in an order: for packets that leave the seed one each,
\* for packets that arrive and for their answers two each.
Outgoing(order, mappings) ==
    [i \in DOMAIN order |->
        Unique(Rule(4, "OUTPUT", order[i], mappings.result[order[i]]))]
Incoming(order, mappings) ==
    [i \in 1 .. 2 * Len(order) |->
        LET src == order[(i + 1) \div 2]
            dst == mappings.result[src]
        IN  Unique(IF i % 2 = 1 THEN Rule(4, "PREROUTING", dst, src)
                                ELSE Rule(4, "POSTROUTING", src, dst))]

\* All three kinds of networks; an error leaves the function.
ForMappings(rulesOf(_, _)) ==
    IF ~MappingFits THEN {<<Fail>>}
    ELSE {rulesOf(p, PodMappings) \o rulesOf(s, ServiceMappings)
             \o rulesOf(n, NodeMappings) :
             p \in Orders(PodMappings), s \in Orders(ServiceMappings),
             n \in Orders(NodeMappings)}

SeedPodRules(op(_)) ==
    IF ~IsIPv4(cfg.seedPod) THEN <<>>
    ELSE <<op(Rule(4, "PREROUTING", SeedMapped, cfg.seedPod)),
           op(Rule(4, "POSTROUTING", cfg.seedPod, SeedMapped))>>

\* runFirewallCommand --mode up; the routes are in SeedRoutes.
FirewallUp ==
    <<Append1(Established(4)), Append1(Established(6)),
      Append1(DropNew(4)), Append1(DropNew(6))>> \o SeedPodRules(Append1)

\* runFirewallCommand --mode down, without --seed-pod-network in the OpenVPN
\* configuration: the mapping of the seed pods stays.
\* (Mutant: the rules that drop new connections stay, too.)
FirewallDownKeepsDrop == <<Remove(Established(4)), Remove(Established(6))>>
FirewallDown ==
    <<Remove(Established(4)), Remove(Established(6)),
      Remove(DropNew(4)), Remove(DropNew(6))>>

\* SetIPTableRules of the VPN server and the up script of OpenVPN.
ServerPlans == {p \o FirewallUp : p \in ForMappings(Outgoing)}

\* The filter rules of a seed client.
\* (Mutant: new connections are not dropped.)
FilterNothing(f) == <<Unique(Established(f))>>
FilterRules(f) == <<Unique(Established(f)), Unique(DropNew(f))>>

\* SetIPTableRules of a seed client, for one family.
SeedClientPlans(f) ==
    LET mapped == IF f = 4 /\ overlap
                  THEN {p \o SeedPodRules(Unique) : p \in ForMappings(Outgoing)}
                  ELSE {<<>>}
        icmp == IF f = 6 THEN <<Unique(Rule(6, "INPUT", "icmpv6", "ACCEPT"))>>
                         ELSE <<>>
    IN  {m \o icmp \o FilterRules(f) : m \in mapped}

\* SetIPTableRules of a shoot client, for one family.
ShootClientPlans(f) ==
    LET forward == IF f = 4 THEN <<Unique(Rule(4, "FORWARD", "any", "ACCEPT"))>>
                            ELSE <<>>
        mapped == IF f = 4 /\ doNetmap THEN ForMappings(Incoming) ELSE {<<>>}
    IN  {forward \o m \o <<Unique(Rule(f, "mangle", "syn", "TCPMSS")),
                           Unique(Rule(f, "eth0", "any", "MASQUERADE"))>> :
            m \in mapped}

\* The loop over IPFamilies.
PerFamily(plans(_)) ==
    IF Len(cfg.families) = 1 THEN plans(cfg.families[1])
    ELSE {p \o q : p \in plans(cfg.families[1]), q \in plans(cfg.families[2])}

Plans(c) ==
    IF c \in ShootContainers THEN PerFamily(ShootClientPlans)
    ELSE IF IsHA THEN PerFamily(SeedClientPlans)
    ELSE ServerPlans

-----------------------------------------------------------------------------
Start(c) ==
    /\ pc[c] = "stopped" /\ starts > 0
    /\ c \in SeedContainers => IsHA \/ c = Server
    /\ starts' = starts - 1
    /\ plan' \in {[plan EXCEPT ![c] = p] : p \in Plans(c)}
    /\ pc' = [pc EXCEPT ![c] = "setup"]
    /\ UNCHANGED <<cfg, rules, checked, interrupted>>

\* The next step of the plan of c is done.
Advance(c) ==
    /\ plan' = [plan EXCEPT ![c] = Tail(@)]
    /\ checked' = [checked EXCEPT ![c] = FALSE]

Has(s, r) == \E i \in DOMAIN rules[s] : rules[s][i] = r

\* AppendUnique looks for the rule, then appends it.
Check(c) ==
    /\ plan[c] # <<>> /\ Head(plan[c]).op = "unique" /\ ~checked[c]
    /\ IF Has(Side(c), Head(plan[c]).rule)
       THEN Advance(c)
       ELSE checked' = [checked EXCEPT ![c] = TRUE] /\ UNCHANGED plan
    /\ UNCHANGED <<cfg, rules, pc, starts, interrupted>>

AppendRule(c) ==
    /\ plan[c] # <<>>
    /\ checked[c] \/ Head(plan[c]).op = "append"
    /\ rules' = [rules EXCEPT ![Side(c)] = Append(@, Head(plan[c]).rule)]
    /\ Advance(c)
    /\ UNCHANGED <<cfg, pc, starts, interrupted>>

\* DeleteIfExists removes the first such rule.
DeleteRule(c) ==
    LET s == Side(c)
        hits == {i \in DOMAIN rules[s] : rules[s][i] = Head(plan[c]).rule}
    IN  /\ plan[c] # <<>> /\ Head(plan[c]).op = "delete"
        /\ rules' = [rules EXCEPT ![s] =
                       IF hits = {} THEN @
                       ELSE SubSeq(@, 1, Min(hits) - 1)
                            \o SubSeq(@, Min(hits) + 1, Len(@))]
        /\ Advance(c)
        /\ UNCHANGED <<cfg, pc, starts, interrupted>>

\* The rules are set and OpenVPN runs, or the down script has ended.
PlanDone(c) ==
    /\ plan[c] = <<>> /\ pc[c] \in {"setup", "down"}
    /\ pc' = [pc EXCEPT ![c] = IF pc[c] = "setup" THEN "running" ELSE "stopped"]
    /\ UNCHANGED <<cfg, rules, plan, checked, starts, interrupted>>

\* OpenVPN ends; the server calls its down script.
Stop(c) ==
    /\ pc[c] = "running"
    /\ IF IsHA \/ c \in ShootContainers
       THEN pc' = [pc EXCEPT ![c] = "stopped"] /\ UNCHANGED plan
       ELSE /\ pc' = [pc EXCEPT ![c] = "down"]
            /\ plan' = [plan EXCEPT ![c] = FirewallDown]
    /\ UNCHANGED <<cfg, rules, checked, starts, interrupted>>

\* The networks do not fit, an iptables call fails, or the container dies.
Crash(c) ==
    /\ pc[c] # "stopped"
    /\ pc' = [pc EXCEPT ![c] = "stopped"]
    /\ plan' = [plan EXCEPT ![c] = <<>>]
    /\ checked' = [checked EXCEPT ![c] = FALSE]
    /\ interrupted' = (interrupted \/ pc[c] = "down")
    /\ UNCHANGED <<cfg, rules, starts>>

ContainerStep(c) ==
    \/ Start(c) \/ Check(c) \/ AppendRule(c) \/ DeleteRule(c)
    \/ PlanDone(c) \/ Stop(c) \/ Crash(c)

Next == \E c \in Containers : ContainerStep(c)

Spec == Init /\ [][Next]_vars

-----------------------------------------------------------------------------
\* The kernel: the first rule of a chain that matches decides.

Hits(s, f, chain, Matches(_)) ==
    {i \in DOMAIN rules[s] : /\ rules[s][i].family = f
                             /\ rules[s][i].chain = chain
                             /\ Matches(rules[s][i].match)}

Translate(s, chain, ip) ==
    LET InMatch(n) == Contains(n, ip)
        hits == Hits(s, 4, chain, InMatch)
    IN  IF hits = {} THEN ip ELSE netmapIP(ip, rules[s][Min(hits)].to)

\* What INPUT of the seed does with a packet from the tunnel.
Input(f, kind) ==
    LET Matching(match) == match \in {kind, "any"}
        hits == Hits("seed", f, "INPUT", Matching)
    IN  IF hits = {} THEN "ACCEPT" ELSE rules["seed"][Min(hits)].to

Running(s) == \E c \in Containers : Side(c) = s /\ pc[c] = "running"

\* The families that a client sets rules for, and those that INPUT of the seed
\* filters: the firewall command filters both.
IPFamilies == {cfg.families[i] : i \in DOMAIN cfg.families}
FilteredFamilies == IF IsHA THEN IPFamilies ELSE {4, 6}

-----------------------------------------------------------------------------
\* Once OpenVPN runs on both sides, a packet from a pod of the seed to an
\* address of the shoot is routed into the tunnel, arrives at that address
\* and its answer is routed back to the pod, however the networks overlap and
\* in whatever order, how often and by how many containers the rules were set
\* (iptables.go of both sides, netmap.go, values.go, client_router.go).  The
\* exception is a seed with IS_HA that overlaps nothing, and a shoot whose
\* networks do not fit into the reserved ranges: no container fails, since
\* nothing is mapped, but updateRouting does.
Delivered ==
    Running("seed") /\ Running("shoot") /\ cfg.families[1] = 4
    /\ (IsHA /\ ~overlap => MappingFits) =>
        \A i \in DOMAIN ShootNetworks : \A dst, src \in 0 .. 2^W - 1 :
            LET n == ShootNetworks[i]
                wire == Translate("seed", "OUTPUT", dst)
            IN  IsIPv4(n) /\ Contains(n, dst)
                /\ IsIPv4(cfg.seedPod) /\ Contains(cfg.seedPod, src) =>
                    /\ \E r \in SeedRoutes : IsIPv4(r) /\ Contains(r, wire)
                    /\ Translate("shoot", "PREROUTING", wire) = dst
                    /\ Translate("seed", "POSTROUTING", src) \in ReturnRoute(src)

\* "block all traffic originating from the shoot cluster"
\* (server-config.template): while OpenVPN runs on the seed, INPUT drops new
\* connections from the tunnel, of both families without IS_HA and of those in
\* IP_FAMILIES with IS_HA.  A family that is not in IP_FAMILIES is excepted: a
\* seed client sets no rule for it, not even for IPv6, although the network
\* between the clients is an IPv6 network (iptables.go, firewall.go).
ShootBlocked ==
    Running("seed") => \A f \in FilteredFamilies : Input(f, "new") = "DROP"

\* While OpenVPN runs on the seed, INPUT lets the answers from the shoot pass
\* in both families, so that the VPN server "allows contacting any IP address
\* within the networks of a Shoot cluster" (README.md).  The exception is a
\* down script that was cut short: it leaves a rule that drops everything in
\* front of those that the next up script appends (iptables.go, firewall.go).
AnswersPass ==
    Running("seed") /\ ~interrupted =>
        \A f \in {4, 6} : Input(f, "established") = "ACCEPT"
=============================================================================
