# Verification of gardener/vpn2

TLA+ models of the parts of vpn2 that keep state, TLC configurations that check
them on small instances, and TLAPS proofs for instances of any size.  The
source of truth is the Go code; `PROJECT.json` maps every definition to the
lines it stands for.

## The system

vpn2 connects the control plane of a Gardener shoot cluster, which runs in a
seed, with the networks of the shoot.

* **Without HA** one VPN server in the seed accepts one VPN client in the
  shoot.  The server's OpenVPN calls `vpn-server firewall` when its device goes
  up or down.
* **With HA** there are two or more VPN servers.  Every kube-apiserver pod runs
  one seed client per server, every shoot client pod does the same, and both
  sides bond their tap devices.  Beside each kube-apiserver a *path controller*
  picks the shoot client to route through; beside each shoot client a *tunnel
  controller* keeps a tunnel device and a route back to every kube-apiserver.

| component | state | operations | interacts with | hard part |
|---|---|---|---|---|
| IP pool (`pkg/ippool`) | annotations of the pods; the broker's memory | `AcquireIP`: lookup, reserve, verify, use | API server (List, Patch); the brokers of the other pods; called by bonding | two brokers between each other's calls; crash or lost answer after a Patch |
| client setup (`cmd/vpn_client/app/setup`, `pkg/vpn_client/bonding.go`, `sysctl.go`, `pkg/config/vpn-client.go`) | kernel settings and devices | `GetVPNClientConfig`, `KernelSettings`, `ConfigureBonding` | kernel; IP pool; its devices are used by every other container of the pod | restart among the devices of a failed attempt; settings that hold for later devices only |
| clean-up (`pkg/vpn_client/cleanup.go`) | addresses of the tap devices | `Cleanup`, before each start of OpenVPN | kernel, OpenVPN | addresses that a killed OpenVPN leaves, and that go by themselves |
| addresses (`pkg/network/ip.go`) | none | addresses of seed clients, shoot clients and tunnels from indices | used by setup, path controller, tunnel controller, servers | each computes them alone, in single bytes |
| path controller (`cmd/vpn_client/app/pathcontroller`) | pool of good clients, primary; kernel routes | ping round, choice of the primary, `updateRouting` | shoot clients (ICMP), tunnel controller (UDP), kernel | concurrent pings, failure between two routes, restart |
| tunnel controller (`pkg/shoot_client/tunnel`) | map of entries, one object with a lock per kube-apiserver; kernel devices and routes | datagram, `update`, `clean`, `IsReady` | path controllers, kernel, readiness probe | goroutines that wait for two kinds of locks, removal of entries, partial updates |
| watchdog (`watchdog.go`) | ring of events, cooldown | `record`, the action that restarts OpenVPN | tunnel controller's loop, OpenVPN management ports | ring boundary, alarms in a row, an action that fails, clients that never get connected between restarts |
| OpenVPN health (`pkg/openvpn/health`, `cmd/vpn_server/app/liveness.go`, `readiness.go`) | none; reads the status file | `IsAlive`, `IsReady` | OpenVPN's status file, kubelet | a file that is old, half written or left by a process that hangs |
| netmap (`pkg/network/netmap.go`, `types.go`) | none | `NetmapSubnets`, `NetmapIP`, `Overlap` | used by everything below | placement without loss or overlap |
| double NAT and firewall (`pkg/vpn_client/iptables.go`, `pkg/vpn_server/iptables.go`, `cmd/vpn_server/app/firewall.go`, `pkg/vpn_server/values.go`) | iptables rules, routes | `SetIPTableRules`, firewall up and down | kernel; both sides must agree without talking | several containers append to one chain, rules survive crashes |
| other configuration, templates, metrics | see *Not modelled* | | | |

What makes them correct: distinct bond addresses for ever; a pod that is set up
and connected after any history of failures; routes that follow the clients and
pods that are alive; probes that do not lie and do not kill a server that works;
alarms neither missed nor repeated, and a connection after them; mapped networks
that do not overlap; packets that arrive and answers that come back, while
nothing else gets in from the shoot.

## Modules

| module | models | what a step is |
|---|---|---|
| `IPAllocation` | what the pool promises: one address per pod, distinct, kept as long as the pod lives | assign, configure, release |
| `IPPool` | `AcquireIP` of all pods | one call of the API server; the waits between them may take any time |
| `SlidingWindow` | what the watchdog promises: the last events in order, an alarm at the threshold, then a pause | one event |
| `Watchdog` | `record` and how `Controller.Run` feeds it | one read of the socket |
| `TunnelController` | main loop, update and clean goroutines, `IsReady` | up to the point where a goroutine releases or waits for a lock or returns from the kernel |
| `PathController` | rounds of pings, `determinePrimaryShootClient`, `updateRouting` | one ping, one `RouteReplace` |
| `Networks` | IPv4 networks with `W` bits and the mapping | operators only |
| `Netmap` | `mapSubnetsRec` | one call of the recursion |
| `DoubleNAT` | rules of all containers, both sides of the tunnel, the kernel's evaluation of them | one iptables command; `AppendUnique` is two, the look-up and the append |
| `Recovery` | extends `Watchdog` with the pod around it: OpenVPN clients, bond, VPN servers, senders | one read of the socket with the restart it may cause; a client that connects; a fault |
| `Health` | both probes, the status file, OpenVPN's table of clients | one line of a rewrite; one second |
| `Addresses` | `ip.go` and `linkName` | operators only |
| `ClientSetup` | the setup container: configuration, kernel settings, `ConfigureBonding` | one sysctl or netlink call |
| `ClientPod` | extends `ClientSetup` with the containers that clean up and run OpenVPN | one netlink call; OpenVPN connects or is killed |
| `MCIPPool`, `MCTunnel`, `MCDoubleNAT`, `MCClientPod` | instances for TLC | |
| `*_proofs` | proofs about the module of that name; `Recovery_proofs` also about `Watchdog`, `ClientPod_proofs` also about `Addresses` and `ClientSetup`, `Netmap_proofs` also about `Networks` | |

Variables carry the names of the fields they stand for (`kubeApiservers`,
`nextClean`, `goodIPs`, `primary`, `window`, `cooldownCount`, ...); variables
marked *history* exist only for the properties.  Operators introduced with
"Mutant" are plausible mistakes; they are not used by the specification.  Each
checked property has one that breaks it (`PROJECT.json`, `mutants`).

### Correspondence and abstractions

* **IPPool.** `pc` is the position in `AcquireIP`; `result` and `ownIP` are the
  broker's memory and die with the container (`Exit`).  `acked = FALSE` is a
  Patch that was applied and answered by an error.  `findFreeIPAddress` may give
  any address that is not foreign, or run out when there are foreign ones, as
  its 1000 random draws may.  A pod that the selector does not list sees no
  annotation of its own.  `result` keeps only the part of a lookup that later
  steps read.  `AbortLate` and `ApplyLate` are a Patch that outlives its
  container: the API server applies it, since it carries no resource version,
  while the next broker is at work.  If it changes what others find of the pod,
  the pod is `strayed` and excepted from the promises; it must not spoil those
  of the others.
* **Watchdog.** `Record(failure, reached)`: the action restarts `reached`
  clients and fails at the next; the reset and the cooldown happen before it.
* **Recovery.** A client is `ok`, `stuck` (its device has a carrier, its
  connection is dead) or `down` (connecting, for up to `Reconnect` reads).  The
  kernel chooses the active devices by carrier, so a stuck `tap0` starves the
  bond.  `Read` lets the read time out or return what the active devices let
  through; the loop of the action ends at the first port that nobody listens on
  (`EndsAt`), at `HAVPNServers` at the latest, or by a write that fails.  A
  connecting client may have its port open or closed.
* **TunnelController.** An object (`Objs`) outlives its entry while a goroutine
  holds it, as in Go; `Collect` frees it.  `pending[ip]` counts the update
  goroutines that wait for the object's lock, which take it in any order.  A
  netlink call fails because of what is there (a device of that name, no such
  device) or by a counted `Fault`.  Time passes in ticks while nothing runs;
  `Backoff < Expiration < CleanUpPeriod` as in the code.  `IsReady` is a
  predicate of one moment; the code holds `c.lock` and visits the entries one
  after the other.  A pod IP may pass from the pod behind one bond address to
  one behind another; `taken` are the entries that lost their route that way.
  Pods change only while the next datagram can be read, which is when it matters.
  A datagram that is not an address is left out.
* **PathController.** A round ends when all pings have ended.  The kernel keeps
  the routes over restarts.  Client addresses stand for their tunnel devices.
  Its networks are taken to fit the reserved ranges; otherwise every
  `updateRouting` fails before its first route (see `DoubleNAT`).
* **Networks.** Addresses have `W` bits instead of 32; `subnetSplit` counts with
  a word of `W` bits as the code does with `uint32`.  A network that is not in
  `IPNets` is an IPv6 network; `ByPrefix` leaves those out and sorts the others.
* **Netmap.** `srcs` and `m` are the parameters of `mapSubnetsRec`; `taken` is a
  history variable, the addresses of all networks that were taken so far.
* **DoubleNAT.** A container has a plan, the commands it will run in their order
  (`Plans`), with every order in which Go may visit a map of mappings.  It may
  crash between any two commands.  Rules stay until the pod is gone.  Interface
  matches and the group of the OUTPUT rules are left out, since all packets in
  question go through the tunnel and come from the proxy.  `Translate` and
  `Input` apply the first rule that matches.  The routes of the seed are those
  of the server without HA (`RoutedNetworks`); with HA `updateRouting` asks
  `ShootNetworksForNetmap` for the mapping first, overlap or not, and sets no
  route at all when the networks do not fit (`SeedRoutes`,
  `client_router.go:138`).
* **Health.** OpenVPN writes the new lines over the old file and cuts it off at
  the end, so in between the file has new lines (`listed`), lines of the rewrite
  before (`left`) and perhaps a cut one (`torn`).  OpenVPN may be `Delay` seconds
  late, hang at any line, or be restarted; its table is late by `Keepalive`.  After
  a restart the file is gone or, on a volume, still there until OpenVPN empties
  it.  A
  kind of client stands for a form of address, so that all forms that OpenVPN
  2.6 and 2.7 print occur.  Versions, counters and the routing table are left
  out: no decision reads them; a cut line fails whatever its type.
* **Addresses.** An address is its last four bytes; a byte has `Byte` values.
* **ClientSetup.** The interface index of a device is never used again, so a
  bond whose primary is an index of a former `tap0` is told apart.  The address
  beside a kube-apiserver comes from the IP pool, which gives the same one after
  a restart.  Calls that must fail again (a device that exists, no IPv6) are no
  step; every other failure is `Restart`.
* **ClientPod.** The devices are not OpenVPN's own, so a killed OpenVPN leaves
  its address.  `keepAddrs` is either behaviour of the kernel when a device is
  set down.  A container that finds an address gone ends and starts again.

## Runs

| run | instance | properties | shows |
|---|---|---|---|
| `ippool_safety` | 3 pods, 3 addresses, 2 rounds, 1 late patch; symmetric; 920k states | `NoSharedIP`, `FreeIPAvailable`, `IndInv`, `AllocSpec` | no interleaving, crash, lost answer or late patch makes two pods share an address; leftover reservations never exhaust the pool; the broker implements `IPAllocation` |
| `recovery` | window 6, threshold 3, cooldown 4, 3 clients, 2 servers, 6 reads to connect, 3 faults; 122k states | `SilenceNoticed`, `FiresApart`, `WindowSpec`, `WatchdogInv`, `Recovers` | the ring implements the sliding window; alarms are bounded from above and below; the pod gets a working connection again |
| `tunnel_safety` | 2 addresses, 2 pod IPs, 2 objects, 1 fault; symmetric; 3.3M states | `ReadyEntryRouted`, `ForgottenIsGone`, `TunnelInv`, no deadlock | a ready entry has its route, also for a pod IP that came from another pod; a forgotten one has no device |
| `tunnel_live` | 1 address, 2 pod IPs, 2 objects, 2 waiting updates, 2 faults; 42k states | `PodFollowedA`, `CreationRetriedA` | stale updates do not win for good; creation is retried |
| `tunnel_ready` | *violation*; 2 addresses, 2 pod IPs | `ReadyMeansRouted` | finding 3 |
| `tunnel_failure` | *violation* | `FailureRetriedA` | finding 1 |
| `tunnel_clean` | *violation* | `OutdatedRemovedB` | finding 2 |
| `path` | 3 clients, 2 networks, 2 tries, 2 faults; 83k states | `RoutesFollowPrimary`, `PathInv`, `PrimarySettles`, `TrafficSettles` | primary and routes agree, and settle on clients that answer |
| `netmap` | all lists of up to 4 networks of 3 bits into a range of 2; 184k states | `MappedApart`, `FittingIsMapped` | greedy placement is disjoint and complete |
| `nat` | 11 configurations, 2 seed containers and 1 shoot container, 3 starts; 2.3M states | `Delivered`, `ShootBlocked`, `AnswersPass` | packets reach the address that was meant on both sides; new connections from the shoot are dropped, answers are accepted |
| `setup` | 2 servers, 2 clients, 16 values of a byte, 46 environments, 3 faults; 953k states | `BondConfigured`, `PathToEveryClient`, `NothingFiltered`, `OneAddress`, `OwnNetworks`, `PodConnects` | any attempt after any failures ends with the right devices and all connections |
| `health` | interval 2, slack 2, delay 1, keepalive 1, 1 fault; 1.6M states | `HealthInv`, `ReadyIsCurrent`, `SteadyIsAlive`, `FailuresApart`, `ReadyFollows` | the probes neither trust an old file nor kill a working server |

**Bounds.** Three pods let a third broker meet the reservation of one and the
used address of another, with a late patch of any of them in between.  In
`recovery` the window is twice the threshold, so that failures leave it again,
and there are more ports than OpenVPN clients; `Reconnect` is the longest that
`RecoveryAssumption` allows.  Two objects are the entries of two addresses, or
an entry and one that was removed while its update is under way.  Three clients
allow a primary to be lost, replaced and to come back while another one leaves.
Two tries are the first ping and a retry; more only repeat the retry.  A range
of four addresses and networks of one, two, four and eight addresses give every
way to fill it, to leave a rest and to be too large.  Three starts let each of
two containers of a pod run, or one of them run again among its own rules.  The
environments of `setup` have pool addresses at both ends and on both sides of a
byte, pod names without a number and with one too large for a byte, and an
unknown bonding mode; three faults are a failed setup, a killed OpenVPN and one
more of either.  In `health` the slack is the code's 2 seconds, the interval is
shortened from 15 to 2; one hang or restart is enough, as the state after a
restart is the initial one but for the clients and the file.  `MaxFaults`, `MaxLate`,
`MaxPending`, `MaxCleaners`, `MaxStarts` and `MaxSrcs` bound what is unbounded
in the code.

**Deadlock** is checked except in `netmap` (the recursion ends), `nat` (the
containers may stay stopped when no start is left) and `setup` (the pod is
connected, or its configuration is refused).

**Fairness.** `PathController`: the ticker fires, goroutines run and a ping ends
by its deadline; nothing is assumed of clients or faults.  `ClientPod`: the
kernel answers and the kubelet restarts a container that failed.  `Health`:
OpenVPN and the clock go on while it runs, it drops silent clients, and clients
without a connection try again; nothing is assumed of hangs and restarts.
`Recovery`: reads end by their deadline, clients connect when their wait is
over, and there will be kube-apiservers again.  One assumption is strong: if the
action could reach all clients again and again, it does once, since a client
that tries to connect has its management port open most of the time.
`TunnelController`:
goroutines are scheduled, a Go mutex does not starve those that wait (strong
fairness of the steps that need a lock), there is again and again a pod behind
address `a` and it sends every two seconds, and the work of a datagram, which
takes milliseconds, is now and then finished before the next one, so that time
passes.  The pod behind `b` may fall silent.

## Findings

1. `tunnel_failure`: `needsUpdate` returns false once `creationComplete` is
   true.  An update for a new pod IP that fails after an earlier success is
   never repeated, against the comment in `tunnel.go:70`.
2. `tunnel_clean`: the test in `tunnel.go:270` is the wrong way round.  Cleaners
   are started by every datagram while `nextClean` is in the future; once
   datagrams have stayed out for a `cleanUpPeriod`, none is started again.
3. `tunnel_ready`: a new entry has a zero `lastSeen` until `setLastSeen`, which
   runs after `c.lock` is released.  A waiting cleaner removes the entry there,
   the next datagram inserts another object for the same device, and the update
   of the first deletes the device of the second: `IsReady` is true without a
   route.  `ReadyMeansRouted` leaves out entries whose pod IP has passed to another
   address (`taken`), which lose their route without any race.

Other weaknesses are exceptions in passing properties:

* `TrafficSettles` excepts an `updateRouting` that stopped half way while its
  old primary comes back: the old primary is good, so nothing repairs the
  networks that were already switched.
* `AnswersPass` excepts an interrupted `firewall --mode down`: it deletes the
  rule that accepts answers before the one that drops the rest, and the next
  `up` appends its rules behind what was left.
* `Delivered` excepts seeds with HA whose shoot networks do not overlap those of
  the seed and do not fit the reserved ranges: no mapping is needed, but
  `updateRouting` returns the error of `ShootNetworksForNetmap` and nothing is
  routed.  Without HA the same networks are routed and reached.
* `ShootBlocked` is about the families in which rules are set.  With HA these
  are the `IP_FAMILIES`; with IPv4 alone a seed client sets no `ip6tables` rule,
  although the network between the clients is IPv6.  Answers are accepted in
  both families (`AnswersPass`).
* `ForgottenIsGone` is about behaviours in which no netlink call failed: `clean`
  forgets an entry even when it could not delete its device.
* `ReadyEntryRouted` and `PodFollowedA` except entries whose pod IP another
  address has announced later.  If the pod IP comes back to the first address
  while its entry is still complete, `needsUpdate` sees no change and the route
  stays with the other device.
* `NoSharedIP` and `AllocSpec` except a pod whose entry a late Patch has changed
  (`SetIPAddress` sends no resource version).
* `ReadyIsCurrent` is about both probes together: `isReady` does not look at
  `UpdatedAt`, so readiness alone accepts clients of any age.
* `FailuresApart`: a probe that reads a half-written file fails although the
  server works; with one failed probe allowed per interval this does no harm.
* `ReadyFollows`: without HA a server whose only client is still in its
  handshake (`UNDEF`) is not ready, although one with no client at all is.
* `PodConnects` excepts shoot clients in pods with IPv6 disabled:
  `KernelSettings` enables it for seed clients only.

`ReadyEntryRouted`, `ForgottenIsGone` and `PodFollowedA` except addresses that
an object outside the map has updated, which is finding 3; `PodFollowedA` also
excepts a failure for good, which is finding 1.

## Proofs

All theorems hold for every value of the constants under the named assumptions
of the modules (`IPPoolAssumption`, `WatchdogAssumption`, `RecoveryAssumption`,
`TunnelAssumption`, `PathAssumption`, `HealthAssumption`, `AddressAssumption`,
`SetupAssumption`, `PodAssumption`, `WidthAssumption`, `NetmapAssumption`,
`DoubleNATAssumption`), which TLC evaluates in the runs.  Some of them are more
than types:

* `HealthAssumption` has `Delay + 1 <= Slack`, OpenVPN is late by less than the
  slack less the second that `TIME` cuts off;
* `RecoveryAssumption` has `Reconnect < Cooldown + Threshold`, the defaults of
  which are minutes, and not fewer clients than servers, as the watchdog has a
  port for each client only;
* `SetupAssumption` has fewer VPN servers than a byte has values, as the number
  of a server is a byte of its network;
* `DoubleNATAssumption` has the three reserved ranges for the shoot apart from
  each other and none of them the whole address space.  `constants.go` imports
  them from Gardener; the tests show them as different networks of length 8
  (`status_test.go:214`, `218`).  Nothing is assumed of the networks
  of seed and shoot: they may overlap each other, the reserved ranges and
  themselves, be equal, or be IPv6.

`DoubleNAT_proofs` extends `Netmap_proofs` for its lemmas on `NetmapSubnets`,
which hold for every range; the constants and variables of `Netmap` itself occur
in none of its theorems.

* **`IPPool_proofs`.**  `NoSharedIP` is not inductive: nothing in it says why
  two brokers about to write their used annotations differ.  `IndInv` adds the
  *claim* of a pod, the address it has marked or has verified and will mark.
  Claims differ (`ClaimsDiffer`), because a verification sees the claims of all
  others: marked ones in `ForeignUsed`, verified ones as reservations, which do
  not change between verification and use (`OwnReservation`, `ToBeUsed`), except
  by a late patch, which takes its pod out of all of these.
  `InductiveInvariant`, `NoSharedIPTheorem`, and `ImplementsAllocation`: every
  step maps to a step of `IPAllocation` or a stutter.  `FreeIPAvailableTheorem`:
  in the lookup of a broker that is about to reserve, each other pod counts with
  its used address or with its reservation, never with both (`SeenBounded`), so
  there are fewer foreign addresses than selected pods (cardinality of an image),
  whatever crashed brokers have left reserved.  Pods
  that the selector does not list are covered here only; in the run all pods are
  selected.
* **`Recovery_proofs`.**  First the watchdog alone: `WatchdogInv` relates the
  number of failures in the ring and the rest of the cooldown to the events since
  the last action (`CountersInv`), and says that the current run of timeouts is
  in the newest slots (`RunIsNewest`); the induction needs how a change of one
  slot changes the number of failures.  `FiresApartTheorem` and
  `SilenceNoticedTheorem` follow; `ImplementsSlidingWindow` maps the ring to a
  sequence by rotating it to the slot that is written next.  Then
  `RecoveryImplementsWatchdog`: each read of the pod is a `Record` of the
  watchdog, every other step leaves it alone; so `SilenceNoticed` and
  `FiresApart` carry over (`RecoveryWatched`).
* **`TunnelController_proofs`.**  `ReadyEntryRouted` needs that nobody else
  touches the device of an entry: `TunnelInv` says that entries are the objects
  of their keys, that a busy object is the entry unless its address is orphaned
  (`EntryUpdates`), what an update under way knows of its device
  (`DeviceUnderLock`), that a cleaner's victim has left the map
  (`CleanerHasLock`), and, for `ForgottenIsGone`, that every device belongs to
  an entry or is about to be deleted (`DevicesKnown`).  `TunnelInvariant`,
  `ReadyEntryRoutedTheorem`, `ForgottenIsGoneTheorem`.
* **`PathController_proofs`.**  `RoutesFollowPrimary` is strengthened by the
  facts that the target of a switch is in the pool and the old primary is not
  (`SwitchToGood`).  `PathInvariant`, `RoutesFollowPrimaryTheorem`.
* **`Health_proofs`.**  `HealthInv` bounds how long a client in each place has
  been gone: in OpenVPN's table and in the lines still to be written
  (`OpenVPNInTime`), in the lines of the file by the age of its `TIME` line, with
  one more interval for those left of the rewrite before (`LinesByAge`); and it
  relates `TIME` to the timer (`FileOfLastRewrite`) and failed probes to rewrites
  (`FailuresFollowRewrites`).  `HealthInvariant`, `ReadyIsCurrentTheorem`,
  `SteadyIsAliveTheorem`, `FailuresApartTheorem`.
* **`ClientPod_proofs`.**  Division with remainder by a byte gives
  `LinkNamesDiffer` (names of devices are unique over the pool),
  `ShootAddressesApart` and `NetworksApart`.  `SetupInv` says for each call of
  the setup what the calls before it have achieved: settings written
  (`SettingsWritten`), taps made (`TapsReady`), the bond with its slaves, MTU,
  state and address (`BondReady`), tunnels (`TunnelsReady`).  It speaks of the
  devices that exist now, which is why nothing that a failed attempt left can
  break it: every call that makes a device comes after one that deletes what has
  its name, and interface indices only grow.  `SetupInvariant`; `BondConfigured`,
  `NothingFiltered` and `PathToEveryClient` follow at `done`.  The containers of
  the pod leave the variables of the setup alone.  `PodInv` adds that a device on
  which OpenVPN may connect has no address (`Clean`) and that `listed` holds all
  addresses that are still there; `OneAddressTheorem` follows, and
  `OwnNetworksTheorem` with `NetworksApart`.
* **`Netmap_proofs`.**  Powers of two are handled as numbers of subsets, which
  gives `2^(m + n) = 2^m * 2^n` without an induction over data.  `ByPrefix` is a
  permutation in the order of prefixes, as the ranks of the networks are
  different and below their number.  `MapInv(dst, m)` says that what is free are
  blocks of the current size, aligned, in the range and apart, and that what is
  mapped is apart from them and from each other; one call of `MapFirst` keeps it.
  `NothingLost` adds that the addresses taken and the free ones together are the
  range: a later network is not larger, so `subnetSplit` leaves no rest.
  `MappedApartTheorem`, `FittingIsMappedTheorem`.  `NetmapSubnetsInv` carries
  `MapInv` over to the recursion as a whole, for the result that `DoubleNAT`
  uses: if a call failed to keep it there would be a first one.
* **`DoubleNAT_proofs`.**  `NATInv` has five parts.  `TypeInv` and `FlowInv` say
  who may have which plan when.  `RulesPossible`: every rule that is set or
  planned is one of those that the configuration calls for, so a translation
  that a packet meets first is that of a mapping, not a leftover of another.
  `Covered`: in a container that sets up or runs, each required rule is there or
  still planned, unless the plan is bound to fail; only the down script deletes
  rules, when the server, alone on its side, is no longer running.  `OrderInv`:
  each rule that drops everything comes after one that accepts answers.  With HA, where nothing is deleted, this is
  enough; without, an earlier server may have left several pairs, and the down
  script deletes the first of each kind.  So there the order is strict (between
  two drops there is an accept), and while the down script has deleted the
  accept and not yet the drop, the first drop is excepted.  Plans are put
  together from parts with these properties (`GoodPart`), and each action has a
  lemma.
  `ShootBlockedTheorem` needs `Covered` and that an accept never matches new
  connections, in the families in which rules are set; `AnswersPassTheorem` needs
  `OrderInv` and holds in both families; `DeliveredTheorem`, for all networks but
  those that `updateRouting` refuses, needs
  `RulesPossible` and `Covered` for the translations on both sides, that mapped
  networks are apart (`MapInv` within a range, `DoubleNATAssumption` between
  ranges), so that a wire address is matched by one rule only, and that a network
  and its image have the same size, so that translating back gives the address
  that was meant.  It holds after interrupted down scripts, too.

Only model-checked: the liveness properties (`Recovers`, `PodFollowedA`,
`CreationRetriedA`, `PrimarySettles`, `TrafficSettles`, `ReadyFollows`,
`PodConnects`), since liveness under fairness is out of the prover's reach, and
the three violations.  All other properties of the passing runs are theorems.

## Not modelled

Configuration apart from `GetVPNClientConfig` and OpenVPN's templates (parsing
and text), interface statistics, metrics and profiling (read-only).  Of the
modelled parts: `Controller.Stop`, which only tests call, the retries of
`ListenUDP`, the INPUT rules of the VPN servers' tap devices in HA mode (the same
calls as without HA), the checks of `VPN_NETWORK` in `BuildValues`, and the
number of rounds that `AcquireIP` takes: it ends after 30, by the loop.

`Recovery` takes what the path controllers send as one flag, since the kernel's
choice of a device does not depend on the sender.  `PathController` and
`TunnelController` are not composed: the only thing that passes between them is
the datagram, which `Receive` may take late or never.

## Plan

All modules above and the theorems about every safety property of the runs are
done.  Next, in this order:

1. Safety cores of the liveness arguments, such as: a round of pings leaves the
   clients that answer in the pool (`PrimarySettles`), the devices that the
   kernel chooses lead to servers after a restart of all clients (`Recovers`),
   only the last update of an entry decides on its route (`PodFollowedA`).
2. The INPUT rules of the tap devices of the VPN servers in HA mode.
