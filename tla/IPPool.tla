------------------------------- MODULE IPPool -------------------------------
(***************************************************************************)
(* pkg/ippool: how the kube-apiserver pods of one shoot agree on distinct  *)
(* bond addresses.  Every pod runs a broker (broker.go) that reserves a    *)
(* random address in an annotation of its own pod, looks for conflicts in  *)
(* the annotations of the others and then marks the address as used; the   *)
(* only shared memory is the list of pods in the API server (manager.go).  *)
(*                                                                         *)
(* A List and a Patch are atomic steps of the API server; everything       *)
(* between two of them interleaves with the other brokers, so WAIT_TIME is *)
(* not modelled: the waits may be arbitrarily short or long.  A broker may *)
(* crash or meet an API error at every step, a Patch may be applied        *)
(* although its answer is lost, or be late and overtaken by the broker of  *)
(* a new container, containers restart and pods come and go.               *)
(***************************************************************************)
EXTENDS Naturals, FiniteSets

CONSTANTS
    Pods,       \* pods that may exist in the namespace
    Selected,   \* those that match POD_LABEL_SELECTOR
    IPs,        \* the addresses with index startIndex..endIndex
    NoIP,       \* the empty string
    MaxTries,   \* rounds of AcquireIP (30 in the code)
    MaxLate     \* bound: patches that outlive their container

ASSUME IPPoolAssumption ==
    /\ Selected \subseteq Pods
    /\ IsFiniteSet(Selected) /\ IsFiniteSet(IPs)
    /\ NoIP \notin IPs
    /\ MaxTries \in Nat \ {0}
    /\ MaxLate \in Nat

VARIABLES
    reserved,   \* annotation .../reserved of every pod
    used,       \* annotation .../used of every pod
    pc,         \* where the broker of the pod is
    tries,      \* completed rounds of AcquireIP
    ownIP,      \* ipAddressBroker.ownIP
    result,     \* the part of its last lookup the broker still reads
    acquired,   \* the address AcquireIP returned and the pod configured
    late,       \* patches on their way whose container is gone
    sent,       \* how many patches have been late
    strayed     \* history: pods whose entry a late patch has changed

annotations == <<reserved, used>>
network == <<late, sent, strayed>>
vars == <<reserved, used, pc, tries, ownIP, result, acquired, network>>

MaybeIP == IPs \cup {NoIP}

LookupResults ==
    [OwnIP : MaybeIP, OwnUsed : BOOLEAN,
     ForeignUsed : SUBSET IPs, ForeignReserved : SUBSET IPs]

EmptyResult ==
    [OwnIP |-> NoIP, OwnUsed |-> FALSE,
     ForeignUsed |-> {}, ForeignReserved |-> {}]

Patches == [pod : Pods, key : {"reserved", "used"}, ip : IPs]

Init ==
    /\ reserved = [p \in Pods |-> NoIP]
    /\ used = [p \in Pods |-> NoIP]
    /\ pc = [p \in Pods |-> "absent"]
    /\ tries = [p \in Pods |-> 0]
    /\ ownIP = [p \in Pods |-> NoIP]
    /\ result = [p \in Pods |-> EmptyResult]
    /\ acquired = [p \in Pods |-> NoIP]
    /\ late = {} /\ sent = 0 /\ strayed = {}

-----------------------------------------------------------------------------
\* The pods the label selector lists.
Listed == {q \in Selected : pc[q] # "absent"}

\* The other pods among them.  (Mutant: the own pod is not told apart.)
AllListed(p) == Listed
Foreign(p) == Listed \ {p}

\* The own pod has marked its address.
\* (Mutant: the own used annotation is not recognised.)
NeverOwnUsed(p) == FALSE
OwnUsed(p) == p \in Listed /\ used[p] # NoIP

\* A used address hides the reservation of its pod.
UsageLookup(p) ==
    [OwnIP |-> IF OwnUsed(p) THEN used[p]
               ELSE IF p \in Listed THEN reserved[p] ELSE NoIP,
     OwnUsed |-> OwnUsed(p),
     ForeignUsed |-> {used[q] : q \in Foreign(p)} \ {NoIP},
     ForeignReserved |->
        {reserved[q] : q \in {r \in Foreign(p) : used[r] = NoIP}} \ {NoIP}]

\* What announceIPAddress(used = true) reads of a lookup.
OwnPart(r) ==
    [OwnIP |-> r.OwnIP, OwnUsed |-> r.OwnUsed,
     ForeignUsed |-> {}, ForeignReserved |-> {}]

\* What the random draws may find; they may also run out if they only hit
\* addresses of other pods.
findFreeIPAddress(r) ==
    LET foreign == r.ForeignUsed \cup r.ForeignReserved
    IN  (IPs \ foreign) \cup (IF foreign = {} THEN {} ELSE {NoIP})

\* (Mutant: only used addresses conflict.)
hasConflictUsedOnly(r, ip) == ip \in r.ForeignUsed
hasConflict(r, ip) == ip \in r.ForeignUsed \cup r.ForeignReserved

-----------------------------------------------------------------------------
\* The broker of p ends; what it knew in memory is gone.  When AcquireIP fails,
\* the kubelet starts the container again, with a new broker ("lookup").
Exit(p, state) ==
    /\ pc' = [pc EXCEPT ![p] = state]
    /\ tries' = [tries EXCEPT ![p] = 0]
    /\ ownIP' = [ownIP EXCEPT ![p] = NoIP]
    /\ result' = [result EXCEPT ![p] = EmptyResult]

\* First lookup of a round: an address the pod already uses is returned.
Lookup(p) ==
    /\ pc[p] = "lookup"
    /\ LET r == UsageLookup(p)
       IN  IF r.OwnUsed
           THEN /\ acquired' = [acquired EXCEPT ![p] = r.OwnIP]
                /\ Exit(p, "done")
           ELSE /\ result' = [result EXCEPT ![p] = r]
                /\ pc' = [pc EXCEPT ![p] = "reserve"]
                /\ UNCHANGED <<tries, ownIP, acquired>>
    /\ UNCHANGED <<annotations, network>>

\* announceIPAddress(used = false): an address is drawn and put in the
\* annotation; ~acked is a Patch that was applied but answered by an error.
Reserve(p, ip, acked) ==
    /\ pc[p] = "reserve"
    /\ ip \in findFreeIPAddress(result[p])
    /\ IF ip = NoIP
       THEN UNCHANGED reserved /\ Exit(p, "lookup")
       ELSE /\ reserved' = [reserved EXCEPT ![p] = ip]
            /\ IF acked
               THEN /\ ownIP' = [ownIP EXCEPT ![p] = ip]
                    /\ result' = [result EXCEPT ![p] = EmptyResult]
                    /\ pc' = [pc EXCEPT ![p] = "verify"]
                    /\ UNCHANGED tries
               ELSE Exit(p, "lookup")
    /\ UNCHANGED <<used, acquired, network>>

NextTry(p) == tries[p] + 1

\* Second lookup of a round: go on without a conflict, else try again until
\* the rounds are used up.
Verify(p) ==
    /\ pc[p] = "verify"
    /\ LET r == UsageLookup(p)
       IN  IF ~hasConflict(r, ownIP[p])
           THEN /\ result' = [result EXCEPT ![p] = OwnPart(r)]
                /\ pc' = [pc EXCEPT ![p] = "use"]
                /\ UNCHANGED <<tries, ownIP>>
           ELSE IF NextTry(p) < MaxTries
                THEN /\ tries' = [tries EXCEPT ![p] = NextTry(p)]
                     /\ ownIP' = [ownIP EXCEPT ![p] = NoIP]
                     /\ pc' = [pc EXCEPT ![p] = "lookup"]
                     /\ UNCHANGED result
                ELSE Exit(p, "lookup")
    /\ UNCHANGED <<annotations, acquired, network>>

\* The address that is marked as used is the one the second lookup found in
\* the own annotation.
AddressToUse(p) == result[p].OwnIP

\* announceIPAddress(used = true): the address of the lookup is marked used
\* and returned.
Use(p, acked) ==
    /\ pc[p] = "use"
    /\ LET ip == AddressToUse(p)
       IN  IF result[p].OwnUsed
           THEN /\ acquired' = [acquired EXCEPT ![p] = ownIP[p]]
                /\ UNCHANGED used
                /\ Exit(p, "done")
           ELSE IF ip = NoIP
                THEN UNCHANGED <<used, acquired>> /\ Exit(p, "lookup")
                ELSE /\ used' = [used EXCEPT ![p] = ip]
                     /\ acquired' = [acquired EXCEPT ![p] =
                                        IF acked THEN ip ELSE @]
                     /\ Exit(p, IF acked THEN "done" ELSE "lookup")
    /\ UNCHANGED <<reserved, network>>

\* An API call fails without an effect, or the container dies.
Abort(p) ==
    /\ pc[p] \in {"lookup", "reserve", "verify", "use"}
    /\ Exit(p, "lookup")
    /\ UNCHANGED <<annotations, acquired, network>>

\* The container dies while its Patch is on its way.
AbortLate(p, patch) ==
    /\ sent < MaxLate /\ sent' = sent + 1
    /\ patch.pod = p
    /\ \/ /\ pc[p] = "reserve" /\ patch.key = "reserved"
          /\ patch.ip \in findFreeIPAddress(result[p])
       \/ /\ pc[p] = "use" /\ patch.key = "used"
          /\ patch.ip = AddressToUse(p) /\ ~result[p].OwnUsed
    /\ late' = late \cup {patch}
    /\ Exit(p, "lookup")
    /\ UNCHANGED <<annotations, acquired, strayed>>

\* What the lookups of other pods find of p.
Entry(p) == IF used[p] # NoIP THEN used[p] ELSE reserved[p]

\* A late Patch is applied, whatever its pod does meanwhile.
ApplyLate(patch) ==
    LET p == patch.pod
    IN  /\ patch \in late
        /\ late' = late \ {patch}
        /\ IF patch.key = "used"
           THEN used' = [used EXCEPT ![p] = patch.ip] /\ UNCHANGED reserved
           ELSE reserved' = [reserved EXCEPT ![p] = patch.ip] /\ UNCHANGED used
        /\ strayed' = IF <<Entry(p)', used'>> = <<Entry(p), used>> THEN strayed
                      ELSE strayed \cup {p}
        /\ UNCHANGED <<pc, tries, ownIP, result, acquired, sent>>

\* The kubelet starts the container again: a new broker, the old pod.
Restart(p) ==
    /\ pc[p] = "done"
    /\ pc' = [pc EXCEPT ![p] = "lookup"]
    /\ UNCHANGED <<annotations, tries, ownIP, result, acquired, network>>

CreatePod(p) ==
    /\ pc[p] = "absent"
    /\ pc' = [pc EXCEPT ![p] = "lookup"]
    /\ UNCHANGED <<annotations, tries, ownIP, result, acquired, network>>

\* The pod and its annotations leave the API server after its containers
\* have ended; a Patch that comes later fails.
DeletePod(p) ==
    /\ pc[p] # "absent"
    /\ Exit(p, "absent")
    /\ reserved' = [reserved EXCEPT ![p] = NoIP]
    /\ used' = [used EXCEPT ![p] = NoIP]
    /\ acquired' = [acquired EXCEPT ![p] = NoIP]
    /\ late' = {patch \in late : patch.pod # p}
    /\ strayed' = strayed \ {p}
    /\ UNCHANGED sent

BrokerStep(p) ==
    \/ Lookup(p)
    \/ \E ip \in MaybeIP, acked \in BOOLEAN : Reserve(p, ip, acked)
    \/ Verify(p)
    \/ \E acked \in BOOLEAN : Use(p, acked)

Environment(p) == Abort(p) \/ Restart(p) \/ CreatePod(p) \/ DeletePod(p)

Next ==
    \/ \E p \in Pods : BrokerStep(p) \/ Environment(p)
    \/ \E patch \in Patches : AbortLate(patch.pod, patch) \/ ApplyLate(patch)

Spec == Init /\ [][Next]_vars

-----------------------------------------------------------------------------
TypeOK ==
    /\ reserved \in [Pods -> MaybeIP]
    /\ used \in [Pods -> MaybeIP]
    /\ pc \in [Pods -> {"absent", "lookup", "reserve", "verify", "use",
                        "done"}]
    /\ tries \in [Pods -> 0 .. MaxTries - 1]
    /\ ownIP \in [Pods -> MaybeIP]
    /\ result \in [Pods -> LookupResults]
    /\ acquired \in [Pods -> MaybeIP]
    /\ late \subseteq Patches /\ sent \in 0 .. MaxLate
    /\ strayed \subseteq Pods

Settled == Pods \ strayed

\* No two pods mark the same address as used, and a pod only configures the
\* address it has marked: whatever the order of the lookups and patches of
\* two AcquireIP calls, and also after a crash or a lost answer.  A late Patch
\* lets only its own pod stray, which may then share an address, and only if it
\* changes what the others find of it: not after the pod has marked its address,
\* for one that reserves
\* (broker.go AcquireIP, announceIPAddress, manager.go SetIPAddress).
NoSharedIP ==
    /\ \A p, q \in Settled : p # q /\ used[p] # NoIP => used[p] # used[q]
    /\ \A p \in Settled : acquired[p] # NoIP => acquired[p] = used[p]

\* While at most as many pods are selected as there are addresses, a broker
\* that is about to reserve has an address to draw: reservations that crashed
\* or refused brokers leave behind never exhaust the pool, as each pod counts
\* for one address only (manager.go UsageLookup, broker.go findFreeIPAddress).
FreeIPAvailable ==
    \A p \in Selected :
        pc[p] = "reserve" /\ Cardinality(Selected) <= Cardinality(IPs) =>
            \E ip \in IPs : ip \in findFreeIPAddress(result[p])

\* The broker implements the allocation it promises: an address is assigned
\* at the moment the used annotation is written, never changes while the pod
\* lives, and a pod configures nothing else; a pod that a late Patch has hit
\* drops out (broker.go AcquireIP).
IfSettled(f) == [p \in Pods |-> IF p \in strayed THEN NoIP ELSE f[p]]
Alloc == INSTANCE IPAllocation
            WITH assigned <- IfSettled(used), configured <- IfSettled(acquired)
AllocSpec == Alloc!ASpec

-----------------------------------------------------------------------------
\* The parts of the inductive invariant of IPPool_proofs.

\* A broker past its first lookup has not marked an address yet.
NotYetUsed ==
    \A p \in Settled : pc[p] \in {"reserve", "verify", "use"} =>
        used[p] = NoIP /\ ~result[p].OwnUsed

\* From Reserve on the broker and the API server agree on the reservation.
OwnReservation ==
    \A p \in Settled : pc[p] \in {"verify", "use"} =>
        ownIP[p] = reserved[p] /\ ownIP[p] # NoIP

\* The address a broker is about to mark is its own reservation, if the
\* selector lists its pod at all.
ToBeUsed ==
    \A p \in Settled :
        /\ pc[p] = "use" =>
               result[p].OwnIP = IF p \in Selected THEN reserved[p] ELSE NoIP
        /\ p \notin Selected => used[p] = NoIP

\* What is gone leaves nothing behind, on the way neither.
AbsentIsClean ==
    \A p \in Pods : pc[p] = "absent" =>
        /\ reserved[p] = NoIP /\ used[p] = NoIP /\ acquired[p] = NoIP
        /\ p \notin strayed /\ \A patch \in late : patch.pod # p

\* The address a pod has marked, or has verified and will mark.
Claim(p) ==
    IF used[p] # NoIP THEN used[p]
    ELSE IF pc[p] = "use" THEN result[p].OwnIP ELSE NoIP

\* Of two pods whose brokers have passed the check for conflicts, the second
\* one has seen the reservation of the first.
ClaimsDiffer ==
    \A p, q \in Settled : p # q /\ Claim(p) # NoIP => Claim(p) # Claim(q)

IndInv ==
    /\ TypeOK
    /\ NotYetUsed
    /\ OwnReservation
    /\ ToBeUsed
    /\ AbsentIsClean
    /\ ClaimsDiffer
    /\ \A p \in Settled : acquired[p] # NoIP => acquired[p] = used[p]
=============================================================================
