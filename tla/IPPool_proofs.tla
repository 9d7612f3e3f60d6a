--------------------------- MODULE IPPool_proofs ---------------------------
(***************************************************************************)
(* Proofs about IPPool for every number of pods and addresses: no address  *)
(* is shared, the pool is never exhausted by what its own pods leave       *)
(* behind, and the broker implements IPAllocation.                         *)
(***************************************************************************)
EXTENDS IPPool, FiniteSetTheorems, TLAPS

\* A lookup result is well typed.
LEMMA LookupType ==
    ASSUME TypeOK, NEW p \in Pods
    PROVE  UsageLookup(p) \in LookupResults
<1>1. UsageLookup(p).OwnIP \in MaybeIP
  BY IPPoolAssumption DEF UsageLookup, OwnUsed, Listed, TypeOK, MaybeIP
<1>2. \A q \in Listed : q \in Pods
  BY IPPoolAssumption DEF Listed
<1>3. UsageLookup(p).ForeignUsed \in SUBSET IPs
  BY <1>2 DEF UsageLookup, Foreign, TypeOK, MaybeIP
<1>4. UsageLookup(p).ForeignReserved \in SUBSET IPs
  BY <1>2 DEF UsageLookup, Foreign, TypeOK, MaybeIP
<1> QED
  BY <1>1, <1>3, <1>4 DEF UsageLookup, OwnUsed, LookupResults

LEMMA EmptyResultType == EmptyResult \in LookupResults
  BY DEF EmptyResult, LookupResults, MaybeIP

\* The check for conflicts sees the claim of every other settled pod: what a pod has
\* marked is in ForeignUsed, what it has verified is its reservation and is
\* in ForeignReserved.
LEMMA ClaimIsSeen ==
    ASSUME IndInv, NEW p \in Pods, NEW q \in Settled, p # q,
           Claim(q) # NoIP
    PROVE  hasConflict(UsageLookup(p), Claim(q))
<1>1. q \in Selected
  BY DEF IndInv, ToBeUsed, Claim
<1>2. pc[q] # "absent"
  BY DEF IndInv, AbsentIsClean, Claim, Settled
<1>3. q \in Foreign(p)
  BY <1>1, <1>2 DEF Listed, Foreign
<1>4. CASE used[q] # NoIP
  <2>1. Claim(q) = used[q]
    BY <1>4 DEF Claim
  <2> QED
    BY <1>3, <1>4, <2>1 DEF hasConflict, UsageLookup
<1>5. CASE used[q] = NoIP
  <2>1. pc[q] = "use" /\ Claim(q) = result[q].OwnIP
    BY <1>5 DEF Claim
  <2>2. Claim(q) = reserved[q] /\ reserved[q] # NoIP
    BY <2>1, <1>1 DEF IndInv, ToBeUsed
  <2> QED
    BY <1>3, <1>5, <2>2 DEF hasConflict, UsageLookup
<1> QED
  BY <1>4, <1>5

LEMMA InitIndInv == Init => IndInv
<1> SUFFICES ASSUME Init PROVE IndInv
  OBVIOUS
<1>1. TypeOK
  BY EmptyResultType, IPPoolAssumption DEF Init, TypeOK, MaybeIP
<1> QED
  BY <1>1 DEF Init, IndInv, NotYetUsed, OwnReservation, ToBeUsed,
              AbsentIsClean, ClaimsDiffer, Claim, Settled

\* The type invariant is preserved by every step.
LEMMA TypeStep ==
    ASSUME TypeOK, Next
    PROVE  TypeOK'
<1> USE IPPoolAssumption, EmptyResultType DEF TypeOK, network
<1>0. NoIP \in MaybeIP /\ 0 \in 0 .. MaxTries - 1
  BY DEF MaybeIP
<1>1. ASSUME NEW p \in Pods, BrokerStep(p)
      PROVE  TypeOK'
  <2>1. UsageLookup(p).OwnIP \in MaybeIP /\ OwnPart(UsageLookup(p)) \in LookupResults
    BY LookupType DEF LookupResults, OwnPart
  <2>2. CASE Lookup(p)
    BY <1>0, <2>1, <2>2, LookupType DEF Lookup, Exit, annotations
  <2>3. ASSUME NEW ip \in MaybeIP, NEW acked \in BOOLEAN, Reserve(p, ip, acked)
        PROVE  TypeOK'
    BY <1>0, <2>3 DEF Reserve, Exit
  <2>4. CASE Verify(p)
    BY <1>0, <2>1, <2>4, LookupType DEF Verify, NextTry, Exit, annotations
  <2>5. ASSUME NEW acked \in BOOLEAN, Use(p, acked)
        PROVE  TypeOK'
    <3>1. result[p].OwnIP \in MaybeIP
      BY DEF LookupResults
    <3> QED
      BY <1>0, <2>5, <3>1 DEF Use, AddressToUse, Exit
  <2> QED
    BY <1>1, <2>2, <2>3, <2>4, <2>5 DEF BrokerStep
<1>2. ASSUME NEW p \in Pods, Environment(p)
      PROVE  TypeOK'
  BY <1>0, <1>2
     DEF Environment, Abort, Restart, CreatePod, DeletePod, Exit, annotations
<1>3. ASSUME NEW patch \in Patches, AbortLate(patch.pod, patch)
      PROVE  TypeOK'
  <2>1. patch.pod \in Pods
    BY DEF Patches
  <2> QED
    BY <1>0, <1>3, <2>1 DEF AbortLate, Exit, annotations
<1>4. ASSUME NEW patch \in Patches, ApplyLate(patch)
      PROVE  TypeOK'
  <2>1. patch.pod \in Pods /\ patch.ip \in MaybeIP
    BY DEF Patches, MaybeIP
  <2> QED
    BY <1>0, <1>4, <2>1 DEF ApplyLate
<1> QED
  BY <1>1, <1>2, <1>3, <1>4 DEF Next

\* The inductive invariant is preserved by the steps of a pod.
LEMMA PodIndInv ==
    ASSUME IndInv, TypeOK', NEW p \in Pods, BrokerStep(p) \/ Environment(p)
    PROVE  IndInv'
<1>0. TypeOK /\ TypeOK'
  BY DEF IndInv
<1> DEFINE Rest == NotYetUsed /\ OwnReservation /\ ToBeUsed /\ AbsentIsClean
<1> DEFINE AcquiredUsed ==
      \A q \in Settled : acquired[q] # NoIP => acquired[q] = used[q]
<1>2. CASE Lookup(p)
  <2>0. /\ UNCHANGED <<reserved, used, late, strayed>>
        /\ \A q \in Pods \ {p} : /\ pc'[q] = pc[q]
                                 /\ ownIP'[q] = ownIP[q]
                                 /\ result'[q] = result[q]
                                 /\ acquired'[q] = acquired[q]
        /\ pc'[p] \in {"done", "reserve"}
        /\ pc[p] = "lookup"
    BY <1>0, <1>2 DEF Lookup, Exit, annotations, network, TypeOK
  <2>1. pc'[p] = "reserve" =>
           /\ result'[p] = UsageLookup(p)
           /\ ~UsageLookup(p).OwnUsed
           /\ acquired' = acquired
    BY <1>0, <1>2 DEF Lookup, Exit, TypeOK
  <2>2. p \in Settled /\ p \notin Selected => used[p] = NoIP
    BY DEF IndInv, ToBeUsed
  <2>3. p \in Settled /\ pc'[p] = "reserve" =>
           used[p] = NoIP /\ ~result'[p].OwnUsed
    BY <2>0, <2>1, <2>2 DEF UsageLookup, OwnUsed, Listed
  <2>4. Rest'
    BY <2>0, <2>3 DEF IndInv, NotYetUsed, OwnReservation, ToBeUsed, AbsentIsClean, Settled
  <2>5. \A q \in Pods : Claim(q)' = Claim(q)
    BY <2>0 DEF Claim
  <2>6. ClaimsDiffer'
    BY <2>0, <2>5 DEF IndInv, ClaimsDiffer, Settled
  <2>7. acquired'[p] # acquired[p] => acquired'[p] = used[p]
    <3> SUFFICES ASSUME acquired'[p] # acquired[p] PROVE acquired'[p] = used[p]
      OBVIOUS
    <3>1. UsageLookup(p).OwnUsed /\ acquired'[p] = UsageLookup(p).OwnIP
      BY <1>0, <1>2 DEF Lookup, TypeOK
    <3> QED
      BY <3>1 DEF UsageLookup, OwnUsed
  <2>8. AcquiredUsed'
    BY <2>0, <2>7 DEF IndInv, Settled
  <2> QED
    BY <1>0, <2>4, <2>6, <2>8 DEF IndInv
<1>3. ASSUME NEW ip \in MaybeIP, NEW acked \in BOOLEAN, Reserve(p, ip, acked)
      PROVE  IndInv'
  <2>0. /\ UNCHANGED <<used, acquired, late, strayed>>
        /\ \A q \in Pods \ {p} : /\ pc'[q] = pc[q]
                                 /\ ownIP'[q] = ownIP[q]
                                 /\ result'[q] = result[q]
                                 /\ reserved'[q] = reserved[q]
        /\ pc'[p] \in {"lookup", "verify"}
        /\ pc[p] = "reserve"
    BY <1>0, <1>3 DEF Reserve, Exit, network, TypeOK
  <2>1. pc'[p] = "verify" =>
          /\ ~result'[p].OwnUsed
          /\ ownIP'[p] = ip /\ reserved'[p] = ip /\ ip # NoIP
    BY <1>0, <1>3 DEF Reserve, Exit, EmptyResult, TypeOK
  <2>4. Rest'
    BY <2>0, <2>1 DEF IndInv, NotYetUsed, OwnReservation, ToBeUsed, AbsentIsClean, Settled
  <2>5. \A q \in Pods : Claim(q)' = Claim(q)
    BY <2>0 DEF Claim
  <2> QED
    BY <1>0, <2>0, <2>4, <2>5 DEF IndInv, ClaimsDiffer, Settled
<1>4. CASE Verify(p)
  <2>0. /\ UNCHANGED <<used, acquired, reserved, late, strayed>>
        /\ \A q \in Pods \ {p} : /\ pc'[q] = pc[q]
                                 /\ ownIP'[q] = ownIP[q]
                                 /\ result'[q] = result[q]
        /\ pc'[p] \in {"use", "lookup"}
        /\ pc[p] = "verify"
    BY <1>0, <1>4 DEF Verify, NextTry, Exit, annotations, network, TypeOK
  <2>1. pc'[p] = "use" =>
          /\ result'[p] = OwnPart(UsageLookup(p))
          /\ ownIP'[p] = ownIP[p]
          /\ ~hasConflict(UsageLookup(p), ownIP[p])
    BY <1>0, <1>4 DEF Verify, NextTry, Exit, TypeOK
  <2>2. p \in Settled =>
           used[p] = NoIP /\ ownIP[p] = reserved[p] /\ ownIP[p] # NoIP
    BY <2>0 DEF IndInv, NotYetUsed, OwnReservation
  <2>3. p \in Settled /\ pc'[p] = "use" =>
           /\ ~result'[p].OwnUsed
           /\ result'[p].OwnIP = IF p \in Selected THEN reserved[p] ELSE NoIP
    <3> SUFFICES ASSUME p \in Settled, pc'[p] = "use"
                 PROVE  /\ ~result'[p].OwnUsed
                        /\ result'[p].OwnIP =
                              IF p \in Selected THEN reserved[p] ELSE NoIP
      OBVIOUS
    <3>1. ~OwnUsed(p)
      BY <2>2 DEF OwnUsed
    <3>2. result'[p].OwnUsed = OwnUsed(p)
      BY <2>1 DEF UsageLookup, OwnPart
    <3>3. result'[p].OwnIP = IF p \in Listed THEN reserved[p] ELSE NoIP
      BY <2>1, <3>1 DEF UsageLookup, OwnPart
    <3>4. p \in Listed <=> p \in Selected
      BY <2>0 DEF Listed
    <3> QED
      BY <3>1, <3>2, <3>3, <3>4
  <2>4. Rest'
    BY <2>0, <2>1, <2>2, <2>3
       DEF IndInv, NotYetUsed, OwnReservation, ToBeUsed, AbsentIsClean, Settled
  <2>5. \A q \in Pods \ {p} : Claim(q)' = Claim(q)
    BY <2>0 DEF Claim
  <2>6. p \in Settled => Claim(p)' \in {NoIP, ownIP[p]}
    BY <2>0, <2>2, <2>3 DEF Claim
  <2>7. ASSUME p \in Settled, Claim(p)' = ownIP[p], NEW q \in Settled \ {p}
        PROVE  Claim(q) # ownIP[p]
    <3>1. ~hasConflict(UsageLookup(p), ownIP[p])
      BY <2>0, <2>1, <2>2, <2>7 DEF Claim
    <3> QED
      BY <2>2, <2>7, <3>1, ClaimIsSeen
  <2>8. ClaimsDiffer'
    <3>1. Settled' = Settled /\ \A q \in Settled : q \in Pods
      BY <2>0 DEF Settled
    <3>2. ASSUME p \in Settled, Claim(p)' # NoIP, NEW q \in Settled \ {p}
          PROVE  Claim(p)' # Claim(q)
      BY <2>6, <2>7, <3>2
    <3>3. \A q \in Settled \ {p} : Claim(q)' = Claim(q)
      BY <2>5, <3>1
    <3> QED
      BY <3>1, <3>2, <3>3 DEF IndInv, ClaimsDiffer
  <2> QED
    BY <1>0, <2>0, <2>4, <2>8 DEF IndInv, Settled
<1>5. ASSUME NEW acked \in BOOLEAN, Use(p, acked)
      PROVE  IndInv'
  <2>0. /\ UNCHANGED <<reserved, late, strayed>>
        /\ \A q \in Pods \ {p} : /\ pc'[q] = pc[q]
                                 /\ ownIP'[q] = ownIP[q]
                                 /\ result'[q] = result[q]
                                 /\ used'[q] = used[q]
                                 /\ acquired'[q] = acquired[q]
        /\ pc'[p] \in {"lookup", "done"}
        /\ pc[p] = "use"
    BY <1>0, <1>5 DEF Use, AddressToUse, Exit, network, TypeOK
  <2>1. p \in Settled => used[p] = NoIP /\ ~result[p].OwnUsed
    BY <2>0 DEF IndInv, NotYetUsed
  <2>2. p \in Settled =>
           /\ used'[p] = result[p].OwnIP
           /\ acquired'[p] # acquired[p] => acquired'[p] = used'[p]
    BY <1>0, <1>5, <2>1 DEF Use, AddressToUse, TypeOK
  <2>3. p \in Settled =>
           result[p].OwnIP = IF p \in Selected THEN reserved[p] ELSE NoIP
    BY <2>0 DEF IndInv, ToBeUsed
  <2>4. Rest'
    BY <2>0, <2>2, <2>3
       DEF IndInv, NotYetUsed, OwnReservation, ToBeUsed, AbsentIsClean, Settled
  <2>5. \A q \in Settled : Claim(q)' = Claim(q)
    BY <2>0, <2>1, <2>2 DEF Claim, Settled
  <2>6. p \in Settled => acquired[p] = NoIP
    BY <2>1 DEF IndInv
  <2> QED
    BY <1>0, <2>0, <2>2, <2>4, <2>5, <2>6 DEF IndInv, ClaimsDiffer, Settled
<1>6. CASE Abort(p) \/ Restart(p) \/ CreatePod(p)
  <2>0. /\ UNCHANGED <<used, acquired, reserved, late, strayed>>
        /\ \A q \in Pods \ {p} : /\ pc'[q] = pc[q]
                                 /\ ownIP'[q] = ownIP[q]
                                 /\ result'[q] = result[q]
        /\ pc'[p] = "lookup"
    BY <1>0, <1>6 DEF Abort, Restart, CreatePod, Exit, annotations, network, TypeOK
  <2>1. Rest'
    BY <2>0 DEF IndInv, NotYetUsed, OwnReservation, ToBeUsed, AbsentIsClean, Settled
  <2>2. \A q \in Pods : Claim(q)' \in {NoIP, Claim(q)}
    BY <2>0 DEF Claim
  <2> QED
    BY <1>0, <2>0, <2>1, <2>2 DEF IndInv, ClaimsDiffer, Settled
<1>7. CASE DeletePod(p)
  <2>0. /\ \A q \in Pods \ {p} : /\ pc'[q] = pc[q]
                                 /\ ownIP'[q] = ownIP[q]
                                 /\ result'[q] = result[q]
                                 /\ used'[q] = used[q]
                                 /\ acquired'[q] = acquired[q]
                                 /\ reserved'[q] = reserved[q]
        /\ pc'[p] = "absent"
        /\ late' = {patch \in late : patch.pod # p}
        /\ strayed' = strayed \ {p}
        /\ used'[p] = NoIP /\ reserved'[p] = NoIP /\ acquired'[p] = NoIP
    BY <1>0, <1>7 DEF DeletePod, Exit, TypeOK
  <2>1. Rest'
    BY <2>0 DEF IndInv, NotYetUsed, OwnReservation, ToBeUsed, AbsentIsClean, Settled
  <2>2. Claim(p)' = NoIP /\ \A q \in Pods \ {p} : Claim(q)' = Claim(q)
    BY <2>0 DEF Claim
  <2> QED
    BY <1>0, <2>0, <2>1, <2>2 DEF IndInv, ClaimsDiffer, Settled
<1> QED
  BY <1>2, <1>3, <1>4, <1>5, <1>6, <1>7 DEF BrokerStep, Environment

\* A container that dies leaves nothing but its late patch.
LEMMA AbortLateIndInv ==
    ASSUME IndInv, TypeOK', NEW patch \in Patches, AbortLate(patch.pod, patch)
    PROVE  IndInv'
<1> DEFINE p == patch.pod
<1>0. p \in Pods
  BY DEF Patches
<1>1. /\ UNCHANGED <<used, acquired, reserved, strayed>>
      /\ \A q \in Pods \ {p} : /\ pc'[q] = pc[q]
                               /\ ownIP'[q] = ownIP[q]
                               /\ result'[q] = result[q]
      /\ pc[p] # "absent" /\ pc'[p] = "lookup"
      /\ late' = late \cup {patch}
  BY <1>0 DEF AbortLate, Exit, annotations, IndInv, TypeOK
<1>2. NotYetUsed' /\ OwnReservation' /\ ToBeUsed'
  BY <1>1 DEF IndInv, NotYetUsed, OwnReservation, ToBeUsed, Settled
<1>3. AbsentIsClean'
  BY <1>1 DEF IndInv, AbsentIsClean
<1>4. \A q \in Pods : Claim(q)' \in {NoIP, Claim(q)}
  BY <1>1 DEF Claim
<1> QED
  BY <1>1, <1>2, <1>3, <1>4 DEF IndInv, ClaimsDiffer, Settled

\* A late patch takes its pod out of the settled ones or changes nothing that
\* the invariant says of it.
LEMMA ApplyLateIndInv ==
    ASSUME IndInv, TypeOK', NEW patch \in Patches, ApplyLate(patch)
    PROVE  IndInv'
<1> DEFINE p == patch.pod
<1>0. p \in Pods /\ pc[p] # "absent"
  BY DEF Patches, ApplyLate, IndInv, AbsentIsClean
<1>1. /\ UNCHANGED <<pc, ownIP, result, acquired>>
      /\ \A q \in Pods \ {p} : used'[q] = used[q] /\ reserved'[q] = reserved[q]
      /\ late' \subseteq late
      /\ \/ strayed' = strayed \cup {p}
         \/ strayed' = strayed /\ used' = used /\ Entry(p)' = Entry(p)
  BY <1>0 DEF ApplyLate, IndInv, TypeOK
<1>2. \A q \in Settled' : q \in Settled /\ used'[q] = used[q]
  BY <1>1 DEF Settled
<1>3. \A q \in Settled' : used[q] = NoIP => reserved'[q] = reserved[q]
  BY <1>1 DEF Settled, Entry
<1>4. NotYetUsed'
  BY <1>1, <1>2 DEF IndInv, NotYetUsed
<1>5. OwnReservation' /\ ToBeUsed'
  BY <1>1, <1>2, <1>3 DEF IndInv, NotYetUsed, OwnReservation, ToBeUsed
<1>6. AbsentIsClean'
  BY <1>0, <1>1 DEF IndInv, AbsentIsClean
<1>7. \A q \in Settled' : Claim(q)' = Claim(q)
  BY <1>1, <1>2 DEF Claim
<1> QED
  BY <1>1, <1>2, <1>4, <1>5, <1>6, <1>7 DEF IndInv, ClaimsDiffer

\* The inductive invariant is preserved by every step.
LEMMA NextIndInv ==
    ASSUME IndInv, Next
    PROVE  IndInv'
<1>1. TypeOK'
  BY TypeStep DEF IndInv
<1> QED
  BY <1>1, PodIndInv, AbortLateIndInv, ApplyLateIndInv DEF Next

LEMMA StutterIndInv ==
    ASSUME IndInv, UNCHANGED vars
    PROVE  IndInv'
  BY DEF vars, IndInv, TypeOK, NotYetUsed, OwnReservation, ToBeUsed,
         AbsentIsClean, ClaimsDiffer, Claim, Settled, network

\* The inductive invariant holds in every reachable state of the brokers,
\* for every set of pods and addresses (broker.go AcquireIP).
THEOREM InductiveInvariant == Spec => []IndInv
<1>1. IndInv /\ [Next]_vars => IndInv'
  BY NextIndInv, StutterIndInv
<1> QED
  BY InitIndInv, <1>1, PTL DEF Spec

\* No two pods ever mark the same address as used, and a pod configures only
\* the address it has marked (broker.go AcquireIP, manager.go UsageLookup).
THEOREM NoSharedIPTheorem == Spec => []NoSharedIP
<1>1. IndInv => NoSharedIP
  <2> SUFFICES ASSUME IndInv,
                      NEW p \in Settled, NEW q \in Settled, p # q, used[p] # NoIP
               PROVE  used[p] # used[q]
    BY DEF IndInv, NoSharedIP
  <2>1. Claim(p) = used[p]
    BY DEF Claim
  <2>2. used[q] # NoIP => Claim(q) = used[q]
    BY DEF Claim
  <2> QED
    BY <2>1, <2>2 DEF IndInv, ClaimsDiffer, Settled
<1> QED
  BY <1>1, InductiveInvariant, PTL

\* What the allocation sees is unchanged by a step that leaves the settled
\* pods' marks and configured addresses alone.
LEMMA Unseen ==
    ASSUME UNCHANGED strayed,
           \A q \in Pods \ strayed : used'[q] = used[q] /\ acquired'[q] = acquired[q]
    PROVE  UNCHANGED Alloc!avars
  BY DEF Alloc!avars, IfSettled

\* Every step of a broker is a step of the allocation or changes nothing that
\* it sees.
LEMMA BrokerSimulation ==
    ASSUME IndInv, NEW p \in Pods, BrokerStep(p)
    PROVE  [Alloc!ANext]_(Alloc!avars)
<1>0. TypeOK
  BY DEF IndInv
<1>1. CASE p \in strayed
  <2>1. /\ UNCHANGED strayed
        /\ \A q \in Pods \ {p} : used'[q] = used[q] /\ acquired'[q] = acquired[q]
    BY <1>0 DEF BrokerStep, Lookup, Reserve, Verify, Use, annotations, network, TypeOK
  <2> QED
    BY <1>1, <2>1, Unseen
<1>2. CASE p \notin strayed /\ Lookup(p)
  <2>1. UNCHANGED <<used, strayed>>
    BY <1>2 DEF Lookup, annotations, network
  <2>2. CASE UsageLookup(p).OwnUsed
    <3>1. used[p] # NoIP /\ UsageLookup(p).OwnIP = used[p]
      BY <2>2 DEF UsageLookup, OwnUsed
    <3>2. acquired' = [acquired EXCEPT ![p] = used[p]]
      BY <1>2, <2>2, <3>1 DEF Lookup
    <3>3. IfSettled(acquired)' = [IfSettled(acquired) EXCEPT ![p] = used[p]]
      BY <1>0, <1>2, <2>1, <3>2 DEF IfSettled, TypeOK
    <3>4. IfSettled(used)' = IfSettled(used) /\ IfSettled(used)[p] = used[p]
      BY <1>2, <2>1 DEF IfSettled
    <3>5. Alloc!Configure(p)
      BY <3>1, <3>3, <3>4 DEF Alloc!Configure
    <3> QED
      BY <3>5 DEF Alloc!ANext
  <2>3. CASE ~UsageLookup(p).OwnUsed
    BY <1>2, <2>1, <2>3, Unseen DEF Lookup
  <2> QED
    BY <2>2, <2>3
<1>3. ASSUME NEW ip \in MaybeIP, NEW acked \in BOOLEAN, Reserve(p, ip, acked)
      PROVE  UNCHANGED Alloc!avars
  BY <1>3, Unseen DEF Reserve, network
<1>4. CASE Verify(p)
  BY <1>4, Unseen DEF Verify, annotations, network
<1>5. ASSUME p \notin strayed, NEW acked \in BOOLEAN, Use(p, acked)
      PROVE  [Alloc!ANext]_(Alloc!avars)
  <2>1. pc[p] = "use" /\ used[p] = NoIP /\ ~result[p].OwnUsed
    BY <1>5 DEF Use, AddressToUse, IndInv, NotYetUsed, Settled
  <2>2. CASE result[p].OwnIP = NoIP
    BY <1>5, <2>1, <2>2, Unseen DEF Use, AddressToUse, network
  <2>3. CASE result[p].OwnIP # NoIP
    <3> DEFINE ip == result[p].OwnIP
    <3>1. ip \in IPs
      BY <1>0, <2>3 DEF TypeOK, LookupResults, MaybeIP
    <3>2. Claim(p) = ip
      BY <2>1 DEF Claim
    <3>3. \A q \in Settled : used[q] # ip
      BY <1>5, <2>1, <2>3, <3>2 DEF IndInv, ClaimsDiffer, Claim, Settled
    <3>4. /\ used' = [used EXCEPT ![p] = ip]
          /\ acquired' = acquired \/ acquired' = [acquired EXCEPT ![p] = ip]
          /\ UNCHANGED strayed
      BY <1>0, <1>5, <2>1, <2>3 DEF Use, AddressToUse, network, TypeOK
    <3>5. IfSettled(used)' = [IfSettled(used) EXCEPT ![p] = ip]
      BY <1>0, <1>5, <3>4 DEF IfSettled, TypeOK
    <3>6. \/ IfSettled(acquired)' = [IfSettled(acquired) EXCEPT ![p] = ip]
          \/ IfSettled(acquired)' = IfSettled(acquired)
      BY <1>0, <1>5, <3>4 DEF IfSettled, TypeOK
    <3>7. /\ IfSettled(used)[p] = NoIP
          /\ \A q \in Pods : IfSettled(used)[q] # ip
      BY <2>1, <2>3, <3>3 DEF IfSettled, Settled
    <3>8. Alloc!Assign(p, ip)
      BY <3>5, <3>6, <3>7 DEF Alloc!Assign
    <3> QED
      BY <3>1, <3>8 DEF Alloc!ANext
  <2> QED
    BY <2>2, <2>3
<1> QED
  BY <1>1, <1>2, <1>3, <1>4, <1>5 DEF BrokerStep

\* A pod that is deleted, or hit by a late patch that changes it, releases
\* its address; nothing else that happens to a pod is seen.
LEMMA EnvironmentSimulation ==
    ASSUME IndInv, Next, ~ \E p \in Pods : BrokerStep(p)
    PROVE  [Alloc!ANext]_(Alloc!avars)
<1>0. TypeOK
  BY DEF IndInv
<1>1. ASSUME NEW p \in Pods, Abort(p) \/ Restart(p) \/ CreatePod(p)
      PROVE  UNCHANGED Alloc!avars
  BY <1>1, Unseen DEF Abort, Restart, CreatePod, annotations, network
<1>2. ASSUME NEW p \in Pods, DeletePod(p)
      PROVE  Alloc!ANext
  <2>1. /\ used' = [used EXCEPT ![p] = NoIP]
        /\ acquired' = [acquired EXCEPT ![p] = NoIP]
        /\ strayed' = strayed \ {p}
    BY <1>2 DEF DeletePod
  <2>2. /\ IfSettled(used)' = [IfSettled(used) EXCEPT ![p] = NoIP]
        /\ IfSettled(acquired)' = [IfSettled(acquired) EXCEPT ![p] = NoIP]
    BY <1>0, <1>2, <2>1 DEF IfSettled, TypeOK
  <2>3. Alloc!Release(p)
    BY <2>2 DEF Alloc!Release
  <2> QED
    BY <1>2, <2>3 DEF Alloc!ANext
<1>3. ASSUME NEW patch \in Patches, AbortLate(patch.pod, patch)
      PROVE  UNCHANGED Alloc!avars
  BY <1>3, Unseen DEF AbortLate, annotations
<1>4. ASSUME NEW patch \in Patches, ApplyLate(patch)
      PROVE  [Alloc!ANext]_(Alloc!avars)
  <2> DEFINE p == patch.pod
  <2>0. p \in Pods
    BY DEF Patches
  <2>1. /\ \A q \in Pods \ {p} : used'[q] = used[q]
        /\ acquired' = acquired
        /\ \/ strayed' = strayed /\ used' = used
           \/ strayed' = strayed \cup {p}
    BY <1>0, <1>4, <2>0 DEF ApplyLate, TypeOK
  <2>2. CASE strayed' = strayed /\ used' = used
    BY <2>1, <2>2, Unseen
  <2>3. CASE strayed' = strayed \cup {p}
    <3>1. /\ IfSettled(used)' = [IfSettled(used) EXCEPT ![p] = NoIP]
          /\ IfSettled(acquired)' = [IfSettled(acquired) EXCEPT ![p] = NoIP]
      BY <2>0, <2>1, <2>3 DEF IfSettled
    <3>2. Alloc!Release(p)
      BY <3>1 DEF Alloc!Release
    <3> QED
      BY <2>0, <3>2 DEF Alloc!ANext
  <2> QED
    BY <2>1, <2>2, <2>3
<1> QED
  BY <1>1, <1>2, <1>3, <1>4 DEF Next, Environment

\* The brokers implement the allocation of IPAllocation: an address belongs
\* to one pod from the moment it is marked until the pod is gone or a late
\* patch has changed its entry, and nothing else is ever configured
\* (broker.go AcquireIP).
THEOREM ImplementsAllocation == Spec => AllocSpec
<1>1. Init => Alloc!AInit
  BY DEF Init, Alloc!AInit, IfSettled
<1>2. IndInv /\ [Next]_vars => [Alloc!ANext]_(Alloc!avars)
  <2>1. UNCHANGED vars => UNCHANGED Alloc!avars
    BY Unseen DEF vars, network
  <2> QED
    BY <2>1, BrokerSimulation, EnvironmentSimulation
<1> QED
  BY <1>1, <1>2, InductiveInvariant, PTL DEF Spec, AllocSpec, Alloc!ASpec

-----------------------------------------------------------------------------
\* The addresses that the last lookup of p found in the hands of other pods.
Seen(p) == result[p].ForeignUsed \cup result[p].ForeignReserved

\* They are not more than the other pods of the selector, as every pod counts
\* with its used address or with its reservation, never with both.
SeenBounded ==
    \A p \in Selected : pc[p] = "reserve" =>
        /\ IsFiniteSet(Seen(p))
        /\ Cardinality(Seen(p)) <= Cardinality(Selected \ {p})

\* A lookup finds at most one address per other pod.
LEMMA LookupBounded ==
    ASSUME TypeOK, NEW p \in Selected
    PROVE  LET seen == UsageLookup(p).ForeignUsed \cup UsageLookup(p).ForeignReserved
           IN  /\ IsFiniteSet(seen)
               /\ Cardinality(seen) <= Cardinality(Selected \ {p})
<1> DEFINE seen == UsageLookup(p).ForeignUsed \cup UsageLookup(p).ForeignReserved
           others == Selected \ {p}
           holders == {q \in others : Entry(q) \in seen}
           entry == [q \in holders |-> Entry(q)]
<1>1. IsFiniteSet(others)
  BY FS_RemoveElement, IPPoolAssumption
<1>2. IsFiniteSet(holders) /\ Cardinality(holders) <= Cardinality(others)
  BY <1>1, FS_Subset
<1>3. \A ip \in seen : \E q \in others : Entry(q) = ip
  BY DEF UsageLookup, Foreign, Listed, Entry
<1>4. entry \in Surjection(holders, seen)
  BY <1>3 DEF Surjection
<1>5. IsFiniteSet(seen) /\ Cardinality(seen) <= Cardinality(holders)
  BY <1>2, <1>4, FS_Surjection
<1>6. /\ Cardinality(seen) \in Nat /\ Cardinality(holders) \in Nat
      /\ Cardinality(others) \in Nat
  BY <1>1, <1>2, <1>5, FS_CardinalityType
<1> QED
  BY <1>2, <1>5, <1>6

\* A step keeps a broker that is about to reserve and what it has seen, or is
\* the lookup of that broker.
LEMMA SeenStep ==
    ASSUME TypeOK, Next, NEW p \in Pods, pc'[p] = "reserve"
    PROVE  \/ pc[p] = "reserve" /\ result'[p] = result[p]
           \/ result'[p] = UsageLookup(p)
<1>1. ASSUME NEW q \in Pods, BrokerStep(q)
      PROVE  \/ pc[p] = "reserve" /\ result'[p] = result[p]
             \/ result'[p] = UsageLookup(p)
  BY <1>1 DEF BrokerStep, Lookup, Reserve, Verify, Use, Exit, TypeOK
<1>2. ASSUME NEW q \in Pods, Environment(q)
      PROVE  pc[p] = "reserve" /\ result'[p] = result[p]
  BY <1>2 DEF Environment, Abort, Restart, CreatePod, DeletePod, Exit, TypeOK
<1>3. ASSUME NEW patch \in Patches, AbortLate(patch.pod, patch) \/ ApplyLate(patch)
      PROVE  pc[p] = "reserve" /\ result'[p] = result[p]
  <2>1. patch.pod \in Pods
    BY DEF Patches
  <2> QED
    BY <1>3, <2>1 DEF AbortLate, ApplyLate, Exit, TypeOK
<1> QED
  BY <1>1, <1>2, <1>3 DEF Next

LEMMA NextSeenBounded ==
    ASSUME TypeOK, SeenBounded, [Next]_vars
    PROVE  SeenBounded'
<1> SUFFICES ASSUME NEW p \in Selected, pc'[p] = "reserve"
             PROVE  /\ IsFiniteSet(Seen(p)')
                    /\ Cardinality(Seen(p)') <= Cardinality(Selected \ {p})
  BY DEF SeenBounded
<1>1. p \in Pods
  BY IPPoolAssumption
<1>2. \/ pc[p] = "reserve" /\ result'[p] = result[p]
      \/ result'[p] = UsageLookup(p)
  BY <1>1, SeenStep DEF vars
<1>3. CASE pc[p] = "reserve" /\ result'[p] = result[p]
  BY <1>3 DEF SeenBounded, Seen
<1>4. CASE result'[p] = UsageLookup(p)
  <2>1. Seen(p)' = UsageLookup(p).ForeignUsed \cup UsageLookup(p).ForeignReserved
    BY <1>4 DEF Seen
  <2> QED
    BY <2>1, LookupBounded
<1> QED
  BY <1>2, <1>3, <1>4

\* While no more pods are selected than there are addresses, a broker that is
\* about to reserve has one to draw, whatever reservations crashed or refused
\* brokers have left behind (manager.go UsageLookup, broker.go
\* findFreeIPAddress).
THEOREM FreeIPAvailableTheorem == Spec => []FreeIPAvailable
<1>1. Init => SeenBounded
  BY IPPoolAssumption DEF Init, SeenBounded
<1>2. IndInv => TypeOK
  BY DEF IndInv
<1>3. SeenBounded => FreeIPAvailable
  <2> SUFFICES ASSUME SeenBounded, NEW p \in Selected, pc[p] = "reserve",
                      Cardinality(Selected) <= Cardinality(IPs)
               PROVE  \E ip \in IPs : ip \in findFreeIPAddress(result[p])
    BY DEF FreeIPAvailable
  <2>1. /\ IsFiniteSet(Seen(p))
        /\ Cardinality(Seen(p)) <= Cardinality(Selected \ {p})
    BY DEF SeenBounded
  <2>2. Cardinality(Selected \ {p}) = Cardinality(Selected) - 1
    BY FS_RemoveElement, IPPoolAssumption
  <2>3. /\ Cardinality(Selected) \in Nat /\ Cardinality(IPs) \in Nat
        /\ Cardinality(Seen(p)) \in Nat
    BY <2>1, FS_CardinalityType, IPPoolAssumption
  <2>4. ~ (IPs \subseteq Seen(p))
    <3> SUFFICES ASSUME IPs \subseteq Seen(p) PROVE FALSE
      OBVIOUS
    <3>1. Cardinality(IPs) <= Cardinality(Seen(p))
      BY <2>1, FS_Subset
    <3> QED
      BY <2>1, <2>2, <2>3, <3>1
  <2> QED
    BY <2>4 DEF findFreeIPAddress, Seen
<1> QED
  BY <1>1, <1>2, <1>3, NextSeenBounded, InductiveInvariant, PTL DEF Spec
=============================================================================
