----------------------- MODULE TunnelController_proofs -----------------------
(***************************************************************************)
(* Proofs about TunnelController for every set of addresses, pod IPs and   *)
(* objects and every number of kernel failures: the readiness probe does   *)
(* not lie about an entry.                                                 *)
(***************************************************************************)
EXTENDS TunnelController, TLAPS

LEMMA NewDataType ==
    ASSUME NEW k \in Keys \cup {NoKey}, NEW ip \in PodIPs \cup {NoIP}
    PROVE  NewData(k, ip) \in Data
<1>1. NoPending \in [PodIPs -> 0 .. MaxPending]
  BY TunnelAssumption DEF NoPending
<1>2. Expiration + 1 \in 0 .. Expiration + 1 /\ 0 \in 0 .. Backoff + 1
  BY TunnelAssumption
<1> QED
  BY <1>1, <1>2 DEF NewData, Data

LEMMA BlankType == Blank \in Data
  BY NewDataType DEF Blank

LEMMA SetFailedType ==
    ASSUME NEW d \in Data PROVE SetFailed(d) \in Data
<1>1. 0 \in 0 .. Backoff + 1
  BY TunnelAssumption
<1> QED
  BY <1>1 DEF SetFailed, Data

LEMMA DoneType ==
    ASSUME NEW d \in Data PROVE Done(d) \in Data
<1>1. 0 \in 0 .. Backoff + 1
  BY TunnelAssumption
<1> QED
  BY <1>1 DEF Done, Data

LEMMA DeleteLinkType ==
    ASSUME TypeOK, NEW k, DeleteLink(k)
    PROVE  link' \subseteq Keys /\ route' \in [PodIPs -> Keys \cup {NoKey}]
  BY DEF TypeOK, DeleteLink

LEMMA FaultType ==
    ASSUME TypeOK, Fault \/ UNCHANGED faults
    PROVE  faults' \in 0 .. MaxFaults
  BY TunnelAssumption DEF TypeOK, Fault

LEMMA EnqueueType ==
    ASSUME NEW d \in Data, NEW ip \in PodIPs, d.pending[ip] < MaxPending
    PROVE  Enqueue(d, ip) \in Data
<1>1. d.pending \in [PodIPs -> 0 .. MaxPending]
  BY DEF Data
<1>2. d.pending[ip] + 1 \in 0 .. MaxPending
  BY <1>1, TunnelAssumption
<1>3. [d.pending EXCEPT ![ip] = @ + 1] \in [PodIPs -> 0 .. MaxPending]
  BY <1>1, <1>2
<1> QED
  BY <1>3 DEF Enqueue, Data

LEMMA DequeueType ==
    ASSUME NEW d \in Data, NEW ip \in PodIPs, d.pending[ip] > 0
    PROVE  Dequeue(d, ip) \in Data
<1>1. d.pending \in [PodIPs -> 0 .. MaxPending]
  BY DEF Data
<1>2. d.pending[ip] - 1 \in 0 .. MaxPending
  BY <1>1, TunnelAssumption
<1>3. [d.pending EXCEPT ![ip] = @ - 1] \in [PodIPs -> 0 .. MaxPending]
  BY <1>1, <1>2
<1> QED
  BY <1>3 DEF Dequeue, Data

LEMMA TypeStep ==
    ASSUME TunnelInv, Next
    PROVE  TypeOK'
<1> USE DEF TunnelInv, history
<1>1. ASSUME NEW k \in Keys, Receive(k) PROVE TypeOK'
  <2>1. podOf[k] \in PodIPs \cup {NoIP}
    BY DEF TypeOK
  <2>2. NewData(k, podOf[k]) \in Data
    BY <2>1, NewDataType
  <2> QED
    BY <1>1, <2>1, <2>2 DEF Receive, TypeOK, kernel, cleaner
<1>2. CASE SetLastSeen
  <2>1. data \in Objs => [obj[data] EXCEPT !.seen = 0] \in Data
    <3>1. 0 \in 0 .. Expiration + 1
      BY TunnelAssumption
    <3> QED
      BY <3>1 DEF TypeOK, Data
  <2> QED
    BY <1>2, <2>1 DEF SetLastSeen, TypeOK, kernel, cleaner
<1>3. CASE CheckUpdate
  <2>1. data \in Objs /\ msg \in PodIPs /\ obj[data] \in Data
    BY <1>3 DEF CheckUpdate, InUse, TypeOK
  <2>2. obj[data].pending[msg] < MaxPending => Enqueue(obj[data], msg) \in Data
    BY <2>1, EnqueueType
  <2>3. obj' \in [Objs -> Data]
    BY <1>3, <2>1, <2>2 DEF CheckUpdate, TypeOK
  <2>4. nextClean' \in 0 .. CleanUpPeriod /\ cleaners' \in 0 .. MaxCleaners
    BY <1>3, TunnelAssumption DEF CheckUpdate, TypeOK
  <2>5. orphaned' \subseteq Keys
    BY <1>3, <2>1 DEF CheckUpdate, TypeOK, InUse
  <2> QED
    BY <1>3, <2>3, <2>4, <2>5 DEF CheckUpdate, TypeOK, kernel, cleaner
<1>4. ASSUME NEW o \in Objs, NEW ip \in PodIPs, UpdateDelete(o, ip)
      PROVE  TypeOK'
  <2> DEFINE d == Dequeue(obj[o], ip)
  <2>1. d \in Data
    BY <1>4, DequeueType DEF UpdateDelete, TypeOK
  <2>2. obj' = [obj EXCEPT ![o] = [d EXCEPT !.step = "create"]]
          \/ obj' = [obj EXCEPT ![o] = SetFailed(d)]
    BY <1>4 DEF UpdateDelete
  <2> HIDE DEF d
  <2>3. [d EXCEPT !.step = "create"] \in Data
    BY <2>1 DEF Data
  <2>4. SetFailed(d) \in Data
    BY <2>1, SetFailedType
  <2>5. obj' \in [Objs -> Data]
    BY <2>2, <2>3, <2>4 DEF TypeOK
  <2>6. link' \subseteq Keys /\ route' \in [PodIPs -> Keys \cup {NoKey}]
    BY <1>4, DeleteLinkType DEF UpdateDelete, TypeOK, kernel
  <2>7. faults' \in 0 .. MaxFaults
    BY <1>4, FaultType DEF UpdateDelete
  <2> QED
    BY <1>4, <2>5, <2>6, <2>7 DEF UpdateDelete, TypeOK, loop, cleaner
<1>5. ASSUME NEW o \in Objs, UpdateCreate(o) PROVE TypeOK'
  <2>0. obj[o].key \in Keys
    BY <1>5 DEF UpdateCreate, InUse, TypeOK, Data, Blank, NewData
  <2>1. [obj[o] EXCEPT !.step = "route"] \in Data
    BY SMTT(30) DEF TypeOK, Data
  <2>2. SetFailed(obj[o]) \in Data
    BY SetFailedType DEF TypeOK
  <2>3. obj' \in [Objs -> Data]
    BY <1>5, <2>1, <2>2 DEF UpdateCreate, TypeOK
  <2>4. faults' \in 0 .. MaxFaults
    BY <1>5, FaultType DEF UpdateCreate
  <2>5. link' \subseteq Keys
    BY <1>5, <2>0 DEF UpdateCreate, TypeOK
  <2> QED
    BY <1>5, <2>3, <2>4, <2>5 DEF UpdateCreate, TypeOK, loop, cleaner
<1>6. ASSUME NEW o \in Objs, UpdateRoute(o) PROVE TypeOK'
  <2>0. obj[o].key \in Keys
    BY <1>6 DEF UpdateRoute, InUse, TypeOK, Data, Blank, NewData
  <2>1. obj[o] \in Data /\ obj[o].podIP \in PodIPs
    BY <2>0, TunnelAssumption DEF TypeOK, InUse
  <2>2. SetFailed(obj[o]) \in Data /\ Done(obj[o]) \in Data
    BY <2>1, SetFailedType, DoneType
  <2>3. obj' \in [Objs -> Data]
    BY <1>6, <2>2 DEF UpdateRoute, TypeOK
  <2>4. faults' \in 0 .. MaxFaults
    BY <1>6, FaultType DEF UpdateRoute
  <2>5. route' \in [PodIPs -> Keys \cup {NoKey}]
    BY <1>6, <2>0, <2>1 DEF UpdateRoute, TypeOK
  <2>6. taken' \subseteq Keys
    BY <1>6 DEF UpdateRoute, TypeOK, Others, Entries
  <2> QED
    BY <1>6, <2>3, <2>4, <2>5, <2>6 DEF UpdateRoute, TypeOK, loop, cleaner
<1>7. ASSUME NEW o \in Objs, Collect(o) PROVE TypeOK'
  BY <1>7, BlankType DEF Collect, TypeOK, loop, cleaner, kernel
<1>8. CASE CleanStart
  <2>1. cleaners' \in 0 .. MaxCleaners
    BY <1>8, TunnelAssumption DEF CleanStart, TypeOK
  <2> QED
    BY <1>8, <2>1 DEF CleanStart, TypeOK, Entries, loop, kernel
<1>9. ASSUME NEW k \in Keys, CleanCheck(k) PROVE TypeOK'
  BY <1>9 DEF CleanCheck, TypeOK, loop, kernel
<1>10. CASE CleanDelete
  <2>1. faults' \in 0 .. MaxFaults
    BY <1>10, FaultType DEF CleanDelete
  <2>2. link' \subseteq Keys /\ route' \in [PodIPs -> Keys \cup {NoKey}]
    BY <1>10, DeleteLinkType DEF CleanDelete, TypeOK, kernel
  <2> QED
    BY <1>10, <2>1, <2>2 DEF CleanDelete, TypeOK, loop
<1>11. CASE CleanEnd
  BY <1>11 DEF CleanEnd, TypeOK, loop, kernel
<1>12. ASSUME NEW k \in Keys, NEW ip \in PodIPs \cup {NoIP}, ChangePod(k, ip)
       PROVE  TypeOK'
  <2> QED
    BY <1>12 DEF ChangePod, TypeOK, loop, cleaner, kernel
<1>13. CASE Tick
  <2>1. nextClean' \in 0 .. CleanUpPeriod
    <3>1. nextClean' = IF nextClean > 0 THEN nextClean - 1 ELSE 0
      BY <1>13 DEF Tick
    <3> QED
      BY <3>1, TunnelAssumption DEF TypeOK
  <2>2. ASSUME NEW o \in Objs PROVE obj'[o] \in Data
    <3>1. /\ obj[o] \in Data
          /\ obj[o].seen \in 0 .. Expiration + 1
          /\ obj[o].failed \in 0 .. Backoff + 1
      BY DEF TypeOK, Data
    <3>2. (IF obj[o].seen > Expiration THEN obj[o].seen ELSE obj[o].seen + 1)
            \in 0 .. Expiration + 1
      BY <3>1, TunnelAssumption
    <3>3. (IF obj[o].lastError /\ obj[o].failed <= Backoff
           THEN obj[o].failed + 1 ELSE obj[o].failed) \in 0 .. Backoff + 1
      BY <3>1, TunnelAssumption
    <3> QED
      BY <1>13, <3>1, <3>2, <3>3, BlankType DEF Tick, Data
  <2>3. obj' \in [Objs -> Data]
    BY <1>13, <2>2 DEF Tick
  <2> QED
    BY <1>13, <2>1, <2>3 DEF Tick, TypeOK, loop, cleaner, kernel
<1> QED
  BY <1>1, <1>2, <1>3, <1>4, <1>5, <1>6, <1>7, <1>8, <1>9, <1>10, <1>11,
     <1>12, <1>13 DEF Next, UpdateStep, CleanStep

-----------------------------------------------------------------------------
\* What relates the map, the goroutines and the kernel.
Links ==
    /\ EntriesMatch
    /\ InUse
    /\ CleanerHasLock
    /\ EntryUpdates
    /\ DeviceUnderLock
    /\ ReadyEntryRouted

LEMMA Fields ==
    ASSUME TypeOK, NEW o \in Objs
    PROVE  /\ obj[o].key \in Keys \cup {NoKey}
           /\ obj[o].podIP \in PodIPs \cup {NoIP}
           /\ obj[o].step \in {"unlocked", "create", "route"}
           /\ obj[o].pending \in [PodIPs -> 0 .. MaxPending]
  BY DEF TypeOK, Data

LEMMA BlankFields ==
    /\ Blank.key = NoKey
    /\ Blank.step = "unlocked"
    /\ Blank.pending = NoPending
  BY DEF Blank, NewData

LEMMA SetFailedFields ==
    ASSUME NEW d \in Data
    PROVE  /\ SetFailed(d).key = d.key /\ SetFailed(d).podIP = d.podIP
           /\ SetFailed(d).pending = d.pending
           /\ SetFailed(d).step = "unlocked" /\ SetFailed(d).lastError = TRUE
  BY DEF SetFailed, Data

LEMMA DoneFields ==
    ASSUME NEW d \in Data
    PROVE  /\ Done(d).key = d.key /\ Done(d).podIP = d.podIP
           /\ Done(d).pending = d.pending /\ Done(d).step = "unlocked"
  BY DEF Done, Data

LEMMA StepFields ==
    ASSUME NEW d \in Data, NEW s
    PROVE  /\ [d EXCEPT !.step = s].key = d.key
           /\ [d EXCEPT !.step = s].podIP = d.podIP
           /\ [d EXCEPT !.step = s].pending = d.pending
           /\ [d EXCEPT !.step = s].step = s
  BY DEF Data

LEMMA EnqueueFields ==
    ASSUME NEW d \in Data, NEW ip \in PodIPs
    PROVE  LET e == Enqueue(d, ip)
           IN  /\ e.key = d.key /\ e.podIP = d.podIP /\ e.step = d.step
               /\ e.complete = d.complete /\ e.lastError = d.lastError
               /\ \A i \in PodIPs \ {ip} : e.pending[i] = d.pending[i]
<1>1. Enqueue(d, ip).pending = [d.pending EXCEPT ![ip] = @ + 1]
  BY DEF Enqueue, Data
<1>2. d.pending \in [PodIPs -> 0 .. MaxPending]
  BY DEF Data
<1>3. \A i \in PodIPs \ {ip} : Enqueue(d, ip).pending[i] = d.pending[i]
  BY <1>1, <1>2
<1> QED
  BY <1>3 DEF Enqueue, Data

LEMMA DequeueFields ==
    ASSUME NEW d \in Data, NEW ip \in PodIPs
    PROVE  /\ Dequeue(d, ip).key = d.key /\ Dequeue(d, ip).podIP = ip
           /\ Dequeue(d, ip).pending = [d.pending EXCEPT ![ip] = @ - 1]
  BY DEF Dequeue, Data

\* The entries have pod IPs.
LEMMA EntryPodIP ==
    ASSUME TypeOK, InUse, NEW o \in Objs, obj[o].key \in Keys
    PROVE  obj[o].podIP \in PodIPs
  BY TunnelAssumption DEF InUse

LEMMA BusyHasKey ==
    ASSUME TypeOK, InUse, NEW o \in Objs, Busy(o)
    PROVE  obj[o].key \in Keys
  BY Fields, BlankFields DEF InUse, Busy

\* An object is the entry of at most one key.
LEMMA EntryIsOwn ==
    ASSUME TypeOK, EntriesMatch, NEW k \in Entries
    PROVE  /\ kubeApiservers[k] \in Objs /\ k \in Keys
           /\ obj[kubeApiservers[k]].key = k
  BY DEF TypeOK, EntriesMatch, Entries

LEMMA ReceiveLinks ==
    ASSUME TunnelInv, NEW k \in Keys, Receive(k)
    PROVE  Links'
<1> USE TunnelAssumption DEF TunnelInv, history
<1>1. CASE kubeApiservers[k] # NoObj
  <2>1. /\ data' = kubeApiservers[k] /\ msg' = podOf[k] /\ pc' = "seen"
        /\ UNCHANGED <<podOf, kubeApiservers, obj, cleaner, kernel, orphaned, taken>>
    BY <1>1 DEF Receive
  <2>2. k \in Entries /\ podOf[k] \in PodIPs
    BY <1>1 DEF Entries, Receive, TypeOK
  <2>3. InUse'
    BY <2>1, <2>2, EntryIsOwn DEF InUse
  <2> QED
    BY <2>1, <2>3 DEF Links, EntriesMatch, CleanerHasLock,
       EntryUpdates, DeviceUnderLock, ReadyEntryRouted, Entries, Busy,
       EntryReady, Routed, cleaner, kernel
<1>2. CASE kubeApiservers[k] = NoObj
  <2>1. PICK o \in Objs :
           /\ obj[o] = Blank
           /\ data' = o
           /\ obj' = [obj EXCEPT ![o] = NewData(k, podOf[k])]
           /\ kubeApiservers' = [kubeApiservers EXCEPT ![k] = o]
    BY <1>2 DEF Receive
  <2>2. /\ msg' = podOf[k] /\ pc' = "seen" /\ ~cleaning
        /\ podOf[k] \in PodIPs
        /\ UNCHANGED <<podOf, cleaner, kernel, orphaned, taken>>
    BY <1>2 DEF Receive, TypeOK
  <2>3. /\ obj'[o].key = k /\ obj'[o].podIP = podOf[k]
        /\ obj'[o].step = "unlocked" /\ obj'[o].pending = NoPending
        /\ obj'[o].complete = FALSE
        /\ \A x \in Objs \ {o} : obj'[x] = obj[x]
    BY <2>1 DEF TypeOK, NewData
  <2>4. /\ kubeApiservers'[k] = o
        /\ \A j \in Keys \ {k} : kubeApiservers'[j] = kubeApiservers[j]
        /\ Entries' = Entries \cup {k}
        /\ k \notin Entries
    BY <1>2, <2>1 DEF TypeOK, Entries
  <2>5. \A j \in Entries : /\ kubeApiservers[j] \in Objs \ {o}
                           /\ j \in Keys \ {k}
    BY <2>1, <2>4, BlankFields, EntryIsOwn
  <2>6. EntriesMatch'
    BY <2>3, <2>4, <2>5, EntryIsOwn DEF EntriesMatch
  <2>8. InUse'
    BY <2>1, <2>2, <2>3 DEF InUse
  <2>9. CleanerHasLock'
    BY <2>2 DEF CleanerHasLock, cleaner
  <2>10. EntryUpdates'
    BY <1>2, <2>2, <2>3, <2>4 DEF EntryUpdates, Busy
  <2>11. DeviceUnderLock'
    BY <2>2, <2>3, <2>4, <2>5 DEF DeviceUnderLock, kernel
  <2>12. ReadyEntryRouted'
    BY <2>2, <2>3, <2>4, <2>5
       DEF ReadyEntryRouted, EntryReady, Routed, kernel
  <2> QED
    BY <2>6, <2>8, <2>9, <2>10, <2>11, <2>12 DEF Links
<1> QED
  BY <1>1, <1>2

LEMMA SetLastSeenLinks ==
    ASSUME TunnelInv, SetLastSeen
    PROVE  Links'
<1> USE DEF TunnelInv, history
<1>1. data \in Objs /\ obj[data].key \in Keys
  BY DEF SetLastSeen, InUse, TypeOK
<1>2. /\ UNCHANGED <<podOf, kubeApiservers, data, msg, cleaner, kernel, orphaned, taken>>
      /\ pc = "seen"
      /\ \A x \in Objs \ {data} : obj'[x] = obj[x]
      /\ \A x \in Objs : /\ obj'[x].key = obj[x].key
                         /\ obj'[x].podIP = obj[x].podIP
                         /\ obj'[x].step = obj[x].step
                         /\ obj'[x].pending = obj[x].pending
                         /\ obj'[x].complete = obj[x].complete
                         /\ obj'[x].lastError = obj[x].lastError
  BY <1>1 DEF SetLastSeen, TypeOK, Data
<1>3. Entries' = Entries /\ \A k \in Entries : kubeApiservers[k] \in Objs
  BY <1>2, EntryIsOwn DEF Entries
<1>4. EntriesMatch'
  BY <1>2, <1>3 DEF EntriesMatch
<1>5. InUse'
  BY <1>1, <1>2, TunnelAssumption DEF InUse
<1>6. CleanerHasLock'
  BY <1>2, <1>3 DEF CleanerHasLock, cleaner, TypeOK
<1>7. EntryUpdates' /\ DeviceUnderLock'
  BY <1>2, <1>3 DEF EntryUpdates, DeviceUnderLock, Busy, kernel
<1>8. ReadyEntryRouted'
  BY <1>2, <1>3 DEF ReadyEntryRouted, EntryReady, Routed, kernel
<1> QED
  BY <1>4, <1>5, <1>6, <1>7, <1>8 DEF Links

LEMMA CheckUpdateLinks ==
    ASSUME TunnelInv, CheckUpdate
    PROVE  Links'
<1> USE DEF TunnelInv, history
<1>1. /\ data \in Objs /\ obj[data] \in Data
      /\ obj[data].key \in Keys /\ msg \in PodIPs
      /\ obj[data].pending \in [PodIPs -> 0 .. MaxPending]
  BY Fields DEF CheckUpdate, InUse, TypeOK
<1>2. /\ UNCHANGED <<podOf, kubeApiservers, cleaner, kernel, taken>>
      /\ pc' = "read" /\ obj[data].step = "unlocked"
      /\ orphaned \subseteq orphaned'
  BY DEF CheckUpdate, Unlocked
<1>3. \/ obj' = obj
      \/ /\ obj' = [obj EXCEPT ![data] = Enqueue(obj[data], msg)]
         /\ \/ kubeApiservers[obj[data].key] = data
            \/ obj[data].key \in orphaned'
  BY DEF CheckUpdate
<1>4. /\ \A x \in Objs \ {data} : obj'[x] = obj[x]
      /\ \A x \in Objs : /\ obj'[x].key = obj[x].key
                         /\ obj'[x].podIP = obj[x].podIP
                         /\ obj'[x].step = obj[x].step
                         /\ obj'[x].complete = obj[x].complete
                         /\ obj'[x].lastError = obj[x].lastError
      /\ \A ip \in PodIPs \ {msg} :
            obj'[data].pending[ip] = obj[data].pending[ip]
  <2>1. CASE obj' = obj
    BY <2>1
  <2>2. CASE obj' = [obj EXCEPT ![data] = Enqueue(obj[data], msg)]
    <3>1. /\ obj'[data] = Enqueue(obj[data], msg)
          /\ \A x \in Objs \ {data} : obj'[x] = obj[x]
      BY <1>1, <2>2 DEF TypeOK
    <3> QED
      BY <1>1, <3>1, EnqueueFields
  <2> QED
    BY <1>3, <2>1, <2>2
<1>5. Entries' = Entries /\ \A k \in Entries : kubeApiservers[k] \in Objs
  BY <1>2, EntryIsOwn DEF Entries
<1>6. EntriesMatch'
  BY <1>2, <1>4, <1>5 DEF EntriesMatch
<1>8. InUse'
  BY <1>1, <1>2, <1>4, TunnelAssumption DEF InUse
<1>9. CleanerHasLock'
  BY <1>2, <1>4, <1>5 DEF CleanerHasLock, cleaner, TypeOK
<1>10. EntryUpdates'
  BY <1>1, <1>2, <1>3, <1>4 DEF EntryUpdates, Busy
<1>11. DeviceUnderLock'
  BY <1>2, <1>4, <1>5 DEF DeviceUnderLock, kernel
<1>12. ReadyEntryRouted'
  BY <1>2, <1>4, <1>5 DEF ReadyEntryRouted, EntryReady, Routed, kernel
<1> QED
  BY <1>6, <1>8, <1>9, <1>10, <1>11, <1>12 DEF Links

-----------------------------------------------------------------------------
\* A step of the update goroutine of o: it changes its own object only and
\* starts no other goroutine.
LEMMA UpdateFrame ==
    ASSUME TunnelInv, NEW o \in Objs, Busy(o),
           UNCHANGED <<podOf, kubeApiservers, loop, cleaner, orphaned>>,
           \A x \in Objs \ {o} : obj'[x] = obj[x],
           obj'[o].key = obj[o].key,
           obj'[o].podIP \in PodIPs,
           \A ip \in PodIPs : obj'[o].pending[ip] > 0 => obj[o].pending[ip] > 0
    PROVE  /\ obj[o].key \in Keys
           /\ obj[o].key \notin orphaned => kubeApiservers[obj[o].key] = o
           /\ Entries' = Entries
           /\ \A k \in Entries \ {obj[o].key} : kubeApiservers[k] \in Objs \ {o}
           /\ EntriesMatch' /\ InUse' /\ CleanerHasLock'
           /\ EntryUpdates'
<1> USE DEF TunnelInv, history
<1>1. obj[o].key \in Keys
  BY BusyHasKey
<1>2. obj[o].key \notin orphaned => kubeApiservers[obj[o].key] = o
  BY DEF EntryUpdates
<1>3. Entries' = Entries
  BY DEF Entries
<1>4. \A k \in Entries : kubeApiservers[k] \in Objs
                         /\ obj[kubeApiservers[k]].key = k
  BY EntryIsOwn
<1>5. EntriesMatch'
  BY <1>3, <1>4 DEF EntriesMatch
<1>7. InUse'
  BY <1>1, TunnelAssumption DEF InUse, loop, TypeOK
<1>8. CleanerHasLock'
  BY <1>3 DEF CleanerHasLock, cleaner, TypeOK
<1>9. EntryUpdates'
  BY <1>1, <1>2 DEF EntryUpdates, Busy
<1> QED
  BY <1>1, <1>2, <1>3, <1>4, <1>5, <1>7, <1>8, <1>9

LEMMA UpdateDeleteLinks ==
    ASSUME TunnelInv, NEW o \in Objs, NEW ip \in PodIPs, UpdateDelete(o, ip)
    PROVE  Links'
<1> USE DEF TunnelInv, history
<1> DEFINE k == obj[o].key
<1>1. /\ obj[o] \in Data /\ obj[o].pending \in [PodIPs -> 0 .. MaxPending]
      /\ obj[o].pending[ip] > 0
      /\ UNCHANGED <<podOf, kubeApiservers, loop, cleaner, orphaned, taken>>
  BY Fields DEF TypeOK, UpdateDelete
<1>2. Busy(o)
  BY <1>1 DEF Busy, NoPending
<1>3. k \in Keys /\ ip \in PodIPs
  BY <1>2, BusyHasKey, TunnelAssumption DEF InUse
<1>4. /\ \A x \in Objs \ {o} : obj'[x] = obj[x]
      /\ obj'[o].key = k /\ obj'[o].podIP = ip
      /\ obj'[o].pending = [obj[o].pending EXCEPT ![ip] = @ - 1]
      /\ \/ obj'[o].step = "create" /\ DeleteLink(k)
         \/ /\ obj'[o].step = "unlocked" /\ obj'[o].lastError = TRUE
            /\ UNCHANGED kernel
  <2> DEFINE d == Dequeue(obj[o], ip)
  <2>1. d \in Data
    BY <1>1, DequeueType
  <2>2. \/ obj' = [obj EXCEPT ![o] = [d EXCEPT !.step = "create"]] /\ DeleteLink(d.key)
        \/ obj' = [obj EXCEPT ![o] = SetFailed(d)] /\ UNCHANGED kernel
    BY DEF UpdateDelete
  <2>3. /\ d.key = k /\ d.podIP = ip
        /\ d.pending = [obj[o].pending EXCEPT ![ip] = @ - 1]
    BY <1>1, DequeueFields
  <2> HIDE DEF d
  <2>4. /\ \A x \in Objs \ {o} : obj'[x] = obj[x]
        /\ \/ obj'[o] = [d EXCEPT !.step = "create"] /\ DeleteLink(k)
           \/ obj'[o] = SetFailed(d) /\ UNCHANGED kernel
    BY <2>2, <2>3 DEF TypeOK
  <2>5. /\ SetFailed(d).key = d.key /\ SetFailed(d).podIP = d.podIP
        /\ SetFailed(d).pending = d.pending
        /\ SetFailed(d).step = "unlocked" /\ SetFailed(d).lastError = TRUE
    BY <2>1, SetFailedFields
  <2>6. CASE obj'[o] = SetFailed(d) /\ UNCHANGED kernel
    BY <2>3, <2>4, <2>5, <2>6
  <2>7. CASE obj'[o] = [d EXCEPT !.step = "create"] /\ DeleteLink(k)
    BY <2>1, <2>3, <2>4, <2>7, StepFields
  <2> QED
    BY <2>4, <2>6, <2>7
<1>5. \A i \in PodIPs : obj'[o].pending[i] > 0 => obj[o].pending[i] > 0
  BY <1>1, <1>4
<1>6. /\ k \notin orphaned => kubeApiservers[k] = o
      /\ Entries' = Entries
      /\ \A j \in Entries \ {k} : kubeApiservers[j] \in Objs \ {o}
      /\ EntriesMatch' /\ InUse' /\ CleanerHasLock'
      /\ EntryUpdates'
  BY <1>1, <1>2, <1>3, <1>4, <1>5, UpdateFrame
<1> HIDE DEF k
<1>7. DeviceUnderLock'
  BY <1>1, <1>4, <1>6 DEF DeviceUnderLock, DeleteLink, kernel
<1>8. ReadyEntryRouted'
  <2>1. \A j \in Entries \ {k} : obj[kubeApiservers[j]].podIP \in PodIPs
    BY EntryIsOwn, EntryPodIP
  <2> QED
    BY <1>1, <1>4, <1>6, <2>1
       DEF ReadyEntryRouted, EntryReady, Routed, DeleteLink, kernel, TypeOK
<1> QED
  BY <1>6, <1>7, <1>8 DEF Links

LEMMA UpdateCreateLinks ==
    ASSUME TunnelInv, NEW o \in Objs, UpdateCreate(o)
    PROVE  Links'
<1> USE DEF TunnelInv, history
<1> DEFINE k == obj[o].key
<1>1. /\ obj[o] \in Data /\ obj[o].step = "create"
      /\ UNCHANGED <<podOf, kubeApiservers, loop, cleaner, orphaned, taken, route>>
  BY DEF TypeOK, UpdateCreate
<1>2. Busy(o)
  BY <1>1 DEF Busy
<1>3. k \in Keys /\ obj[o].podIP \in PodIPs
  BY <1>2, BusyHasKey, TunnelAssumption DEF InUse
<1>4. /\ \A x \in Objs \ {o} : obj'[x] = obj[x]
      /\ obj'[o].key = k /\ obj'[o].podIP = obj[o].podIP
      /\ obj'[o].pending = obj[o].pending
      /\ \/ obj'[o].step = "route" /\ k \in link'
         \/ obj'[o].step = "unlocked" /\ obj'[o].lastError = TRUE
      /\ link' \in {link, link \cup {k}}
  <2>1. /\ \A x \in Objs \ {o} : obj'[x] = obj[x]
        /\ \/ obj'[o] = [obj[o] EXCEPT !.step = "route"] /\ k \in link'
           \/ obj'[o] = SetFailed(obj[o])
        /\ link' \in {link, link \cup {k}}
    BY DEF UpdateCreate, TypeOK
  <2>2. /\ SetFailed(obj[o]).key = obj[o].key /\ SetFailed(obj[o]).podIP = obj[o].podIP
        /\ SetFailed(obj[o]).pending = obj[o].pending
        /\ SetFailed(obj[o]).step = "unlocked" /\ SetFailed(obj[o]).lastError = TRUE
    BY <1>1, SetFailedFields
  <2>3. CASE obj'[o] = SetFailed(obj[o])
    BY <2>1, <2>2, <2>3
  <2>4. CASE obj'[o] = [obj[o] EXCEPT !.step = "route"] /\ k \in link'
    BY <1>1, <2>1, <2>4, StepFields
  <2> QED
    BY <2>1, <2>3, <2>4
<1>5. /\ k \notin orphaned => kubeApiservers[k] = o
      /\ Entries' = Entries
      /\ \A j \in Entries \ {k} : kubeApiservers[j] \in Objs \ {o}
      /\ EntriesMatch' /\ InUse' /\ CleanerHasLock'
      /\ EntryUpdates'
  BY <1>1, <1>2, <1>3, <1>4, UpdateFrame
<1> HIDE DEF k
<1>6. DeviceUnderLock'
  BY <1>1, <1>4, <1>5 DEF DeviceUnderLock
<1>7. ReadyEntryRouted'
  BY <1>1, <1>4, <1>5 DEF ReadyEntryRouted, EntryReady, Routed
<1> QED
  BY <1>5, <1>6, <1>7 DEF Links

\* The other entries keep the routes to their pod IPs, or they are taken.
LEMMA UpdateRouteLinks ==
    ASSUME TunnelInv, NEW o \in Objs, UpdateRoute(o)
    PROVE  Links'
<1> USE DEF TunnelInv, history
<1> DEFINE k == obj[o].key
           ip == obj[o].podIP
<1>1. /\ obj[o] \in Data /\ obj[o].step = "route"
      /\ UNCHANGED <<podOf, kubeApiservers, loop, cleaner, orphaned, link>>
  BY DEF TypeOK, UpdateRoute
<1>2. Busy(o)
  BY <1>1 DEF Busy
<1>3. k \in Keys /\ ip \in PodIPs
  BY <1>2, BusyHasKey, TunnelAssumption DEF InUse
<1>4. /\ \A x \in Objs \ {o} : obj'[x] = obj[x]
      /\ obj'[o].key = k /\ obj'[o].podIP = ip
      /\ obj'[o].pending = obj[o].pending /\ obj'[o].step = "unlocked"
      /\ \/ /\ k \in link /\ route' = [route EXCEPT ![ip] = k]
            /\ taken' = (taken \cup Others(k, ip)) \ {k}
         \/ obj'[o].lastError = TRUE /\ UNCHANGED <<route, taken>>
  <2>1. /\ \A x \in Objs \ {o} : obj'[x] = obj[x]
        /\ \/ obj'[o] = Done(obj[o]) /\ k \in link
              /\ route' = [route EXCEPT ![ip] = k]
              /\ taken' = (taken \cup Others(k, ip)) \ {k}
           \/ obj'[o] = SetFailed(obj[o]) /\ UNCHANGED <<route, taken>>
    BY DEF UpdateRoute, TypeOK
  <2>2. /\ SetFailed(obj[o]).key = obj[o].key /\ SetFailed(obj[o]).podIP = obj[o].podIP
        /\ SetFailed(obj[o]).pending = obj[o].pending
        /\ SetFailed(obj[o]).step = "unlocked" /\ SetFailed(obj[o]).lastError = TRUE
    BY <1>1, SetFailedFields
  <2>3. CASE obj'[o] = SetFailed(obj[o]) /\ UNCHANGED <<route, taken>>
    BY <2>1, <2>2, <2>3
  <2>4. CASE /\ obj'[o] = Done(obj[o]) /\ k \in link
             /\ route' = [route EXCEPT ![ip] = k]
             /\ taken' = (taken \cup Others(k, ip)) \ {k}
    BY <1>1, <2>1, <2>4, DoneFields
  <2> QED
    BY <2>1, <2>3, <2>4
<1>5. /\ k \notin orphaned => kubeApiservers[k] = o
      /\ Entries' = Entries
      /\ \A j \in Entries \ {k} : kubeApiservers[j] \in Objs \ {o}
      /\ EntriesMatch' /\ InUse' /\ CleanerHasLock'
      /\ EntryUpdates'
  BY <1>1, <1>2, <1>3, <1>4, UpdateFrame
<1>6. \A j \in Entries \ {k} :
         /\ obj[kubeApiservers[j]].podIP \in PodIPs
         /\ obj[kubeApiservers[j]].podIP = ip => j \in Others(k, ip)
  BY EntryIsOwn, EntryPodIP DEF Others
<1> HIDE DEF k, ip
<1>7. DeviceUnderLock'
  BY <1>1, <1>4, <1>5 DEF DeviceUnderLock
<1>8. ReadyEntryRouted'
  <2> SUFFICES ASSUME NEW j \in Entries, j \notin orphaned, j \notin taken',
                      EntryReady(j)'
               PROVE  Routed(j)'
    BY <1>1, <1>5 DEF ReadyEntryRouted
  <2>1. CASE j = k
    BY <1>1, <1>3, <1>4, <1>5, <2>1 DEF EntryReady, Routed, TypeOK
  <2>2. CASE j # k
    <3>1. j \notin taken /\ obj'[kubeApiservers[j]] = obj[kubeApiservers[j]]
      BY <1>4, <1>5, <2>2
    <3>2. j \in link /\ route[obj[kubeApiservers[j]].podIP] = j
      BY <1>1, <3>1 DEF ReadyEntryRouted, EntryReady, Routed
    <3>3. route'[obj[kubeApiservers[j]].podIP] = j
      BY <1>3, <1>4, <1>6, <2>2, <3>2 DEF TypeOK
    <3> QED
      BY <1>1, <3>1, <3>2, <3>3 DEF Routed
  <2> QED
    BY <2>1, <2>2
<1> QED
  BY <1>5, <1>7, <1>8 DEF Links

LEMMA CollectLinks ==
    ASSUME TunnelInv, NEW o \in Objs, Collect(o)
    PROVE  Links'
<1> USE DEF TunnelInv, history
<1>1. /\ UNCHANGED <<podOf, kubeApiservers, loop, cleaner, kernel, orphaned, taken>>
      /\ obj'[o] = Blank /\ \A x \in Objs \ {o} : obj'[x] = obj[x]
      /\ o # data /\ o # victim
      /\ \A k \in Keys : kubeApiservers[k] # o
  BY DEF Collect, TypeOK
<1>2. Entries' = Entries /\ \A k \in Entries : kubeApiservers[k] \in Objs \ {o}
  BY <1>1, EntryIsOwn DEF Entries
<1>3. EntriesMatch' /\ DeviceUnderLock'
  BY <1>1, <1>2 DEF EntriesMatch, DeviceUnderLock, kernel
<1>5. InUse'
  BY <1>1, BlankFields DEF InUse, loop, TypeOK
<1>6. CleanerHasLock'
  BY <1>1, <1>2 DEF CleanerHasLock, cleaner, TypeOK
<1>7. EntryUpdates'
  BY <1>1, BlankFields DEF EntryUpdates, Busy
<1>8. ReadyEntryRouted'
  BY <1>1, <1>2 DEF ReadyEntryRouted, EntryReady, Routed, kernel
<1> QED
  BY <1>3, <1>5, <1>6, <1>7, <1>8 DEF Links

-----------------------------------------------------------------------------
LEMMA CleanCheckLinks ==
    ASSUME TunnelInv, NEW k \in Keys, CleanCheck(k)
    PROVE  Links'
<1> USE DEF TunnelInv, history
<1> DEFINE o == kubeApiservers[k]
<1>1. k \in Entries /\ o \in Objs /\ obj[o].key = k /\ obj[o].step = "unlocked"
  BY EntryIsOwn DEF CleanCheck, CleanerHasLock, Unlocked
<1>2. CASE ~isOutdated(obj[o])
  <2>1. /\ todo' \subseteq todo
        /\ UNCHANGED <<podOf, obj, kubeApiservers, loop, cleaning, victim,
                       kernel, orphaned, taken>>
    BY <1>2 DEF CleanCheck
  <2> QED
    BY <2>1 DEF Links, EntriesMatch, InUse, CleanerHasLock,
       EntryUpdates, DeviceUnderLock, ReadyEntryRouted, Entries, Busy,
       EntryReady, Routed, loop, kernel
<1>3. CASE isOutdated(obj[o])
  <2>1. /\ todo' = todo \ {k} /\ victim' = o /\ cleaning
        /\ UNCHANGED <<podOf, obj, loop, cleaning, kernel, taken>>
        /\ kubeApiservers' = [kubeApiservers EXCEPT ![k] = NoObj]
        /\ orphaned \subseteq orphaned'
        /\ obj[o].pending # NoPending => k \in orphaned'
    BY <1>3 DEF CleanCheck
  <2>2. /\ Entries' = Entries \ {k} /\ Entries \subseteq Keys
        /\ kubeApiservers'[k] = NoObj
        /\ \A j \in Keys \ {k} : kubeApiservers'[j] = kubeApiservers[j]
    BY <2>1 DEF Entries, TypeOK
  <2>3. EntriesMatch'
    BY <2>1, <2>2 DEF EntriesMatch
  <2>4. InUse'
    BY <2>1 DEF InUse, loop
  <2>5. CleanerHasLock'
    BY <1>1, <2>1, <2>2 DEF CleanerHasLock
  <2>6. EntryUpdates'
    BY <1>1, <2>1, <2>2 DEF EntryUpdates, Busy
  <2>7. DeviceUnderLock' /\ ReadyEntryRouted'
    BY <2>1, <2>2
       DEF DeviceUnderLock, ReadyEntryRouted, EntryReady, Routed, kernel
  <2> QED
    BY <2>3, <2>4, <2>5, <2>6, <2>7 DEF Links
<1> QED
  BY <1>2, <1>3

LEMMA CleanDeleteLinks ==
    ASSUME TunnelInv, CleanDelete
    PROVE  Links'
<1> USE DEF TunnelInv, history
<1> DEFINE k == obj[victim].key
<1>1. k \in Keys /\ k \notin Entries
  BY DEF CleanDelete, CleanerHasLock, Entries
<1>2. /\ UNCHANGED <<podOf, kubeApiservers, obj, loop, todo, cleaning, orphaned, taken>>
      /\ victim' = NoObj
      /\ DeleteLink(k) \/ UNCHANGED kernel
  BY DEF CleanDelete
<1> HIDE DEF k
<1>3. Entries' = Entries
  BY <1>2 DEF Entries
<1>4. EntriesMatch' /\ InUse' /\ CleanerHasLock' /\ EntryUpdates'
  BY <1>2, <1>3 DEF EntriesMatch, InUse, CleanerHasLock,
     EntryUpdates, Busy, loop
<1>5. DeviceUnderLock'
  BY <1>1, <1>2, <1>3 DEF DeviceUnderLock, DeleteLink, kernel
<1>6. ReadyEntryRouted'
  <2>1. \A j \in Entries : obj[kubeApiservers[j]].podIP \in PodIPs
    BY EntryIsOwn, EntryPodIP
  <2> QED
    BY <1>1, <1>2, <1>3, <2>1
       DEF ReadyEntryRouted, EntryReady, Routed, DeleteLink, kernel, TypeOK
<1> QED
  BY <1>4, <1>5, <1>6 DEF Links

LEMMA TickLinks ==
    ASSUME TunnelInv, Tick
    PROVE  Links'
<1> USE DEF TunnelInv, history
<1>1. UNCHANGED <<podOf, kubeApiservers, loop, cleaner, kernel, orphaned, taken>>
  BY DEF Tick
<1>2. \A x \in Objs : /\ obj'[x].key = obj[x].key
                      /\ obj'[x].podIP = obj[x].podIP
                      /\ obj'[x].step = obj[x].step
                      /\ obj'[x].pending = obj[x].pending
                      /\ obj'[x].complete = obj[x].complete
                      /\ obj'[x].lastError = obj[x].lastError
                      /\ obj[x] = Blank => obj'[x] = Blank
  <2> SUFFICES ASSUME NEW x \in Objs
               PROVE  /\ obj'[x].key = obj[x].key
                      /\ obj'[x].podIP = obj[x].podIP
                      /\ obj'[x].step = obj[x].step
                      /\ obj'[x].pending = obj[x].pending
                      /\ obj'[x].complete = obj[x].complete
                      /\ obj'[x].lastError = obj[x].lastError
                      /\ obj[x] = Blank => obj'[x] = Blank
    OBVIOUS
  <2>1. CASE obj[x] = Blank
    BY <2>1 DEF Tick
  <2>2. CASE obj[x] # Blank
    BY <2>2, ZenonT(60) DEF Tick, TypeOK, Data
  <2> QED
    BY <2>1, <2>2
<1>3. Entries' = Entries /\ \A k \in Entries : kubeApiservers[k] \in Objs
  BY <1>1, EntryIsOwn DEF Entries
<1>4. EntriesMatch'
  BY <1>1, <1>2, <1>3 DEF EntriesMatch
<1>5. InUse'
  BY <1>1, <1>2 DEF InUse, loop, TypeOK
<1>6. CleanerHasLock'
  BY <1>1, <1>2, <1>3 DEF CleanerHasLock, cleaner, TypeOK
<1>7. EntryUpdates' /\ DeviceUnderLock'
  BY <1>1, <1>2, <1>3 DEF EntryUpdates, DeviceUnderLock, Busy, kernel
<1>8. ReadyEntryRouted'
  BY <1>1, <1>2, <1>3 DEF ReadyEntryRouted, EntryReady, Routed, kernel
<1> QED
  BY <1>4, <1>5, <1>6, <1>7, <1>8 DEF Links

LEMMA OtherLinks ==
    ASSUME TunnelInv,
           \/ CleanStart \/ CleanEnd
           \/ \E k \in Keys, ip \in PodIPs \cup {NoIP} : ChangePod(k, ip)
    PROVE  Links'
<1> USE DEF TunnelInv, history
<1>1. CASE CleanStart \/ CleanEnd
  <2>1. /\ UNCHANGED <<podOf, kubeApiservers, obj, loop, victim, kernel, orphaned, taken>>
        /\ todo' \in {todo, Entries} /\ (todo' # {} \/ victim # NoObj => cleaning')
    BY <1>1 DEF CleanStart, CleanEnd, CleanerHasLock
  <2> QED
    BY <2>1 DEF Links, EntriesMatch, InUse, CleanerHasLock,
       EntryUpdates, DeviceUnderLock, ReadyEntryRouted, Entries, Busy,
       EntryReady, Routed, loop, kernel
<1>2. ASSUME NEW k \in Keys, NEW ip \in PodIPs \cup {NoIP}, ChangePod(k, ip)
      PROVE  Links'
  <2>1. /\ UNCHANGED <<kubeApiservers, obj, loop, cleaner, kernel, orphaned, taken>>
        /\ podOf' = [podOf EXCEPT ![k] = ip]
    BY <1>2 DEF ChangePod
  <2> QED
    BY <2>1 DEF Links, EntriesMatch, InUse, CleanerHasLock,
       EntryUpdates, DeviceUnderLock, ReadyEntryRouted, Entries, Busy,
       EntryReady, Routed, loop, cleaner, kernel
<1> QED
  BY <1>1, <1>2

-----------------------------------------------------------------------------
\* An update leaves the key of every object as it is.
LEMMA KeysKept ==
    ASSUME TypeOK, NEW o \in Objs, UpdateStep(o), NEW x \in Objs
    PROVE  obj'[x].key = obj[x].key
<1>1. ASSUME NEW d \in Data, d.key = obj[o].key,
             \/ obj' = [obj EXCEPT ![o] = [d EXCEPT !.step = "create"]]
             \/ obj' = [obj EXCEPT ![o] = [d EXCEPT !.step = "route"]]
             \/ obj' = [obj EXCEPT ![o] = SetFailed(d)]
             \/ obj' = [obj EXCEPT ![o] = Done(d)]
      PROVE  obj'[x].key = obj[x].key
  <2>1. /\ [d EXCEPT !.step = "create"].key = d.key
        /\ [d EXCEPT !.step = "route"].key = d.key
        /\ SetFailed(d).key = d.key /\ Done(d).key = d.key
    BY StepFields, SetFailedFields, DoneFields
  <2> QED
    BY <1>1, <2>1 DEF TypeOK
<1>2. obj[o] \in Data
  BY DEF TypeOK
<1>3. ASSUME NEW ip \in PodIPs, UpdateDelete(o, ip)
      PROVE  obj'[x].key = obj[x].key
  <2>1. Dequeue(obj[o], ip) \in Data /\ Dequeue(obj[o], ip).key = obj[o].key
    BY <1>2, <1>3, DequeueType, DequeueFields DEF UpdateDelete
  <2> QED
    BY <1>1, <1>3, <2>1 DEF UpdateDelete
<1>4. CASE UpdateCreate(o) \/ UpdateRoute(o)
  BY <1>1, <1>2, <1>4 DEF UpdateCreate, UpdateRoute
<1> QED
  BY <1>3, <1>4 DEF UpdateStep

\* Before the first failure a device appears for an object that is updated,
\* stays with its entry, passes to the cleaner with the entry and is deleted.
LEMMA DevicesStep ==
    ASSUME TunnelInv, Next
    PROVE  DevicesKnown'
<1> USE DEF TunnelInv, history
<1> SUFFICES ASSUME faults' = MaxFaults,
                    NEW k \in link', k \notin Entries', k \notin orphaned'
             PROVE  victim' # NoObj /\ obj'[victim'].key = k
  BY DEF DevicesKnown
<1>1. faults = MaxFaults /\ ~Fault
  <2>1. faults \in 0 .. MaxFaults
    BY DEF TypeOK
  <2>2. ~Fault
    BY <2>1, TunnelAssumption DEF Fault
  <2>3. UNCHANGED faults
    BY <2>2 DEF Next, Receive, SetLastSeen, CheckUpdate, UpdateStep,
       UpdateDelete, UpdateCreate, UpdateRoute, Collect, CleanStep,
       CleanStart, CleanCheck, CleanDelete, CleanEnd, ChangePod, Tick
  <2> QED
    BY <2>2, <2>3
<1>2. ASSUME k \in link, k \notin Entries, k \notin orphaned
      PROVE  victim \in Objs /\ obj[victim].key = k
  BY <1>1, <1>2 DEF DevicesKnown, TypeOK
<1>3. k \in Keys
  BY TypeStep DEF TypeOK
\* Nothing the invariant speaks of changes to the worse.
<1> DEFINE Kept == /\ link' \subseteq link /\ Entries \subseteq Entries'
                   /\ orphaned \subseteq orphaned' /\ victim' = victim
                   /\ \A x \in Objs : obj[x].key \in Keys /\ x = victim
                                         => obj'[x].key = obj[x].key
<1>4. ASSUME Kept PROVE victim' # NoObj /\ obj'[victim'].key = k
  BY <1>2, <1>3, <1>4, TunnelAssumption
<1>5. ASSUME NEW j \in Keys, Receive(j) PROVE Kept
  <2>1. \A x \in Objs : obj[x].key \in Keys => obj'[x] = obj[x]
    BY <1>5, BlankFields, TunnelAssumption DEF Receive, TypeOK
  <2>2. Entries \subseteq Entries'
    BY <1>5, TunnelAssumption DEF Receive, Entries, TypeOK
  <2> QED
    BY <1>5, <2>1, <2>2 DEF Receive, kernel, cleaner
<1>6. ASSUME SetLastSeen PROVE Kept
  BY <1>6 DEF SetLastSeen, TypeOK, Data, Entries, kernel, cleaner
<1>7. ASSUME CheckUpdate PROVE Kept
  <2>1. \A x \in Objs : obj'[x].key = obj[x].key
    BY <1>7 DEF CheckUpdate, Enqueue, TypeOK, Data
  <2> QED
    BY <1>7, <2>1 DEF CheckUpdate, Entries, kernel, cleaner
<1>8. ASSUME NEW o \in Objs, NEW ip \in PodIPs, UpdateDelete(o, ip) PROVE Kept
  <2>1. \A x \in Objs : obj'[x].key = obj[x].key
    BY <1>8, KeysKept DEF UpdateStep
  <2> QED
    BY <1>8, <2>1 DEF UpdateDelete, DeleteLink, Entries, kernel, cleaner
<1>9. ASSUME NEW o \in Objs, UpdateCreate(o)
      PROVE  victim' # NoObj /\ obj'[victim'].key = k
  <2>1. \A x \in Objs : obj'[x].key = obj[x].key
    BY <1>9, KeysKept DEF UpdateStep
  <2>2. /\ link' \in {link, link \cup {obj[o].key}} /\ Busy(o)
        /\ UNCHANGED <<kubeApiservers, orphaned, victim>>
    BY <1>9 DEF UpdateCreate, Busy, cleaner
  <2>3. Entries' = Entries
    BY <2>2 DEF Entries
  <2>4. k # obj[o].key
    BY <2>2, <2>3, TunnelAssumption DEF EntryUpdates, Entries
  <2> QED
    BY <1>4, <2>1, <2>2, <2>3, <2>4, <1>2, TunnelAssumption
<1>10. ASSUME NEW o \in Objs, UpdateRoute(o) PROVE Kept
  <2>1. \A x \in Objs : obj'[x].key = obj[x].key
    BY <1>10, KeysKept DEF UpdateStep
  <2> QED
    BY <1>10, <2>1 DEF UpdateRoute, Entries, cleaner
<1>11. ASSUME NEW o \in Objs, Collect(o) PROVE Kept
  BY <1>11 DEF Collect, TypeOK, Entries, kernel, cleaner
<1>12. ASSUME NEW j \in Keys, CleanCheck(j)
       PROVE  victim' # NoObj /\ obj'[victim'].key = k
  <2>1. victim = NoObj /\ UNCHANGED <<link, obj>> /\ orphaned \subseteq orphaned'
    BY <1>12 DEF CleanCheck, kernel
  <2>2. k \in Entries
    BY <1>2, <2>1, TunnelAssumption
  <2>3. k = j /\ victim' = kubeApiservers[k]
    BY <1>3, <1>12, <2>2 DEF CleanCheck, Entries, TypeOK
  <2> QED
    BY <2>1, <2>2, <2>3, EntryIsOwn, TunnelAssumption
<1>13. CASE CleanDelete
  <2>1. /\ DeleteLink(obj[victim].key)
        /\ UNCHANGED <<kubeApiservers, orphaned>>
    BY <1>1, <1>13 DEF CleanDelete
  <2> QED
    BY <1>2, <2>1 DEF DeleteLink, Entries
<1>14. ASSUME CleanStart \/ CleanEnd PROVE Kept
  BY <1>14 DEF CleanStart, CleanEnd, Entries, kernel
<1>15. ASSUME NEW j \in Keys, NEW ip \in PodIPs \cup {NoIP}, ChangePod(j, ip)
       PROVE  Kept
  BY <1>15 DEF ChangePod, Entries, kernel, cleaner
<1>16. ASSUME Tick PROVE Kept
  <2>1. \A x \in Objs : obj'[x].key = obj[x].key
    <3> SUFFICES ASSUME NEW x \in Objs PROVE obj'[x].key = obj[x].key
      OBVIOUS
    <3>1. CASE obj[x] = Blank
      BY <1>16, <3>1 DEF Tick
    <3>2. CASE obj[x] # Blank
      BY <1>16, <3>2 DEF Tick, TypeOK, Data
    <3> QED
      BY <3>1, <3>2
  <2> QED
    BY <1>16, <2>1 DEF Tick, Entries, kernel, cleaner
<1> HIDE DEF Kept
<1> QED
  BY <1>4, <1>5, <1>6, <1>7, <1>8, <1>9, <1>10, <1>11, <1>12, <1>13, <1>14,
     <1>15, <1>16 DEF Next, UpdateStep, CleanStep

LEMMA InitTunnelInv == Init => TunnelInv
<1> SUFFICES ASSUME Init PROVE TunnelInv
  OBVIOUS
<1>1. \A o \in Objs : obj[o] = Blank
  BY DEF Init
<1>2. Entries = {}
  BY DEF Init, Entries
<1>3. TypeOK
  <2>1. /\ CleanUpPeriod \in 0 .. CleanUpPeriod /\ 0 \in 0 .. MaxCleaners
        /\ MaxFaults \in 0 .. MaxFaults
    BY TunnelAssumption
  <2>2. obj \in [Objs -> Data] /\ msg \in PodIPs \cup {NoIP}
    BY BlankType DEF Init
  <2>3. route \in [PodIPs -> Keys \cup {NoKey}]
    BY DEF Init
  <2> QED
    BY <2>1, <2>2, <2>3 DEF Init, TypeOK
<1>5. InUse /\ CleanerHasLock
  BY <1>1, BlankFields DEF Init, InUse, CleanerHasLock
<1>6. EntryUpdates
  BY <1>1, BlankFields DEF EntryUpdates, Busy
<1>7. DevicesKnown
  BY DEF Init, DevicesKnown
<1> QED
  BY <1>2, <1>3, <1>5, <1>6, <1>7
     DEF TunnelInv, EntriesMatch, DeviceUnderLock, ReadyEntryRouted

\* The inductive invariant of the tunnel controller holds in every reachable
\* state (tunnel.go Run, update, clean).
THEOREM TunnelInvariant == Spec => []TunnelInv
<1>1. TunnelInv /\ Next => TunnelInv'
  <2> SUFFICES ASSUME TunnelInv, Next PROVE TunnelInv'
    OBVIOUS
  <2>1. TypeOK'
    BY TypeStep
  <2>2. Links'
    BY ReceiveLinks, SetLastSeenLinks, CheckUpdateLinks, UpdateDeleteLinks,
       UpdateCreateLinks, UpdateRouteLinks, CollectLinks, CleanCheckLinks,
       CleanDeleteLinks, TickLinks, OtherLinks
       DEF Next, UpdateStep, CleanStep
  <2>3. DevicesKnown'
    BY DevicesStep
  <2> QED
    BY <2>1, <2>2, <2>3 DEF TunnelInv, Links
<1>2. TunnelInv /\ UNCHANGED vars => TunnelInv'
  BY DEF vars, TunnelInv, TypeOK, EntriesMatch, InUse,
     CleanerHasLock, EntryUpdates, DeviceUnderLock, ReadyEntryRouted,
     DevicesKnown, Entries, Busy, EntryReady, Routed
<1> QED
  BY InitTunnelInv, <1>1, <1>2, PTL DEF Spec

\* The readiness probe does not lie about an entry: unless an object outside
\* the map updated its address or another address announced its pod IP later,
\* an entry that passes has its device and its route (readiness.go IsReady,
\* tunnel.go update).
THEOREM ReadyEntryRoutedTheorem == Spec => []ReadyEntryRouted
<1>1. TunnelInv => ReadyEntryRouted
  BY DEF TunnelInv
<1> QED
  BY <1>1, TunnelInvariant, PTL

\* An address whose entry was removed leaves no device behind, unless a
\* kernel call failed or a removed object was updated (tunnel.go clean,
\* delete).
THEOREM ForgottenIsGoneTheorem == Spec => []ForgottenIsGone
<1>1. TunnelInv => ForgottenIsGone
  BY DEF TunnelInv, ForgottenIsGone, DevicesKnown, CleanerHasLock
<1> QED
  BY <1>1, TunnelInvariant, PTL
=============================================================================
