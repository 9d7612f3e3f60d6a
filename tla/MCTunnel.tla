------------------------------ MODULE MCTunnel ------------------------------
(***************************************************************************)
(* Small instances of TunnelController for TLC, with one or two bond       *)
(* addresses a and b.                                                      *)
(***************************************************************************)
EXTENDS TunnelController, TLC

CONSTANTS a, b

\* Objects, addresses and pod IPs are interchangeable in safety properties.
Symmetry == Permutations(Objs) \cup Permutations(Keys) \cup Permutations(PodIPs)

\* The pod behind a keeps sending, the one behind b may fall silent.
LiveSpec == Spec /\ Fairness({a})

\* The route of a follows its pod (tunnel.go needsUpdate, update).
PodFollowedA == PodFollowed(a)

\* The tunnel of a is created in spite of kernel failures (tunnel.go
\* needsUpdate).
CreationRetriedA == CreationRetried(a)

\* A failed update of a is repeated (tunnel.go needsUpdate).
FailureRetriedA == FailureRetried(a)

\* The entry of a silent pod is removed (tunnel.go clean, nextClean).
OutdatedRemovedB == OutdatedRemoved(b)
=============================================================================
