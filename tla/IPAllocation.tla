---------------------------- MODULE IPAllocation ----------------------------
(***************************************************************************)
(* What the IP pool promises to the kube-apiserver pods of a shoot with a  *)
(* highly available VPN: a pod is assigned one bond address, no two pods   *)
(* hold the same one, the assignment lasts as long as the pod does, and a  *)
(* pod only ever configures the address it was assigned.                   *)
(***************************************************************************)
CONSTANTS Pods, IPs, NoIP

VARIABLES
    assigned,    \* assigned[p]: the address p owns, or NoIP
    configured   \* configured[p]: the address p puts on its bond, or NoIP

avars == <<assigned, configured>>

AInit ==
    /\ assigned = [p \in Pods |-> NoIP]
    /\ configured = [p \in Pods |-> NoIP]

\* A pod without an address is given one nobody else owns.  Whether it
\* learns of that at once is left open.
Assign(p, ip) ==
    /\ assigned[p] = NoIP
    /\ \A q \in Pods : assigned[q] # ip
    /\ assigned' = [assigned EXCEPT ![p] = ip]
    /\ \/ configured' = [configured EXCEPT ![p] = ip]
       \/ configured' = configured

\* A pod learns which address it owns.
Configure(p) ==
    /\ assigned[p] # NoIP
    /\ configured' = [configured EXCEPT ![p] = assigned[p]]
    /\ assigned' = assigned

\* The pod is gone, its address is free again.
Release(p) ==
    /\ assigned' = [assigned EXCEPT ![p] = NoIP]
    /\ configured' = [configured EXCEPT ![p] = NoIP]

ANext ==
    \E p \in Pods :
        \/ \E ip \in IPs : Assign(p, ip)
        \/ Configure(p)
        \/ Release(p)

ASpec == AInit /\ [][ANext]_avars
=============================================================================
