-------------------------- MODULE TunnelController --------------------------
(***************************************************************************)
(* pkg/shoot_client/tunnel: the controller beside the VPN shoot client     *)
(* that keeps one ip6tnl device and one host route for every kube-         *)
(* apiserver pod.  The pods' path controllers send their pod IP in UDP     *)
(* datagrams from their bond address (the key).  A main loop reads them    *)
(* (Controller.Run), update goroutines talk to the kernel, clean           *)
(* goroutines forget pods that fell silent, and the readiness probe looks  *)
(* at the entries (IsReady).                                               *)
(*                                                                         *)
(* A step of the model ends where a goroutine releases or waits for a      *)
(* lock, or returns from the kernel.  Time advances in ticks and only      *)
(* while no goroutine has work to do: the durations of the code are half a *)
(* minute to a quarter of an hour, the work between them milliseconds.     *)
(***************************************************************************)
EXTENDS Naturals, FiniteSets

CONSTANTS
    Keys,             \* bond addresses of kube-apiserver pods
    PodIPs,           \* addresses the pods announce
    Objs,             \* identities of kubeApiserverData objects
    NoObj, NoKey, NoIP,
    Backoff,          \* creationFailureBackoff, in ticks
    Expiration,       \* expirationDuration, in ticks
    CleanUpPeriod,    \* cleanUpPeriod, in ticks
    MaxPending,       \* bound: waiting updates of an object and pod IP
    MaxCleaners,      \* bound: waiting clean goroutines
    MaxFaults         \* bound: kernel calls that fail for no visible reason

ASSUME TunnelAssumption ==
    /\ NoObj \notin Objs /\ NoKey \notin Keys /\ NoIP \notin PodIPs
    /\ Backoff \in Nat /\ Expiration \in Nat /\ CleanUpPeriod \in Nat
    /\ Backoff < Expiration /\ Expiration < CleanUpPeriod
    /\ MaxPending \in Nat \ {0} /\ MaxCleaners \in Nat \ {0}
    /\ MaxFaults \in Nat

VARIABLES
    podOf,            \* environment: the pod IP behind each bond address,
                      \* NoIP when there is no pod
    kubeApiservers,   \* the map of entries
    obj,              \* the kubeApiserverData objects and their goroutines
    pc, data, msg,    \* main loop: position, current object, received pod IP
    nextClean,        \* ticks until c.nextClean, 0 when it has passed
    cleaners,         \* clean goroutines that wait for c.lock
    todo, victim,     \* the cleaner in c.lock: keys to visit, object to delete
    cleaning,         \* a cleaner holds c.lock
    link, route,      \* kernel: tunnel devices by key, device of each pod IP
    faults,           \* kernel failures still to come
    orphaned,         \* history: keys that an object outside the map updated
    taken             \* history: keys whose route another key has taken over

vars == <<podOf, kubeApiservers, obj, pc, data, msg, nextClean, cleaners,
          todo, victim, cleaning, link, route, faults, orphaned, taken>>
loop == <<pc, data, msg>>
cleaner == <<todo, victim, cleaning>>
kernel == <<link, route>>
history == <<orphaned, taken>>

NoPending == [ip \in PodIPs |-> 0]

\* lastSeen is the zero time, the error and its time are nil, no goroutine.
NewData(k, ip) ==
    [key |-> k, podIP |-> ip, seen |-> Expiration + 1, complete |-> FALSE,
     lastError |-> FALSE, failed |-> 0, step |-> "unlocked",
     pending |-> NoPending]

\* An object that is not allocated.
Blank == NewData(NoKey, NoIP)

Entries == {k \in Keys : kubeApiservers[k] # NoObj}

Init ==
    /\ podOf = [k \in Keys |-> NoIP]
    /\ kubeApiservers = [k \in Keys |-> NoObj]
    /\ obj = [o \in Objs |-> Blank]
    /\ pc = "read" /\ data = NoObj /\ msg = NoIP
    /\ nextClean = CleanUpPeriod
    /\ cleaners = 0
    /\ todo = {} /\ victim = NoObj /\ cleaning = FALSE
    /\ link = {}
    /\ route = [ip \in PodIPs |-> NoKey]
    /\ faults = MaxFaults
    /\ orphaned = {} /\ taken = {}

-----------------------------------------------------------------------------
\* The kernel.  A kernel call may fail while there are faults left.
Fault == faults > 0 /\ faults' = faults - 1

\* Deleting a device takes its routes along; a missing device is no error.
DeleteLink(k) ==
    /\ link' = link \ {k}
    /\ route' = [ip \in PodIPs |-> IF route[ip] = k THEN NoKey ELSE route[ip]]

\* _setFailed.  (Mutant: the error is not stored.)
SetFailedSilently(d) == [d EXCEPT !.failed = 0, !.step = "unlocked"]
SetFailed(d) == [d EXCEPT !.lastError = TRUE, !.failed = 0, !.step = "unlocked"]

\* The lock of an object is free.
Unlocked(d) == d.step = "unlocked"

-----------------------------------------------------------------------------
\* The main loop of Controller.Run.

\* A datagram is read; its entry is looked up or inserted under c.lock.
Receive(k) ==
    /\ pc = "read"
    /\ ~cleaning
    /\ podOf[k] # NoIP
    /\ msg' = podOf[k]
    /\ \/ /\ kubeApiservers[k] # NoObj
          /\ data' = kubeApiservers[k]
          /\ UNCHANGED <<kubeApiservers, obj>>
       \/ /\ kubeApiservers[k] = NoObj
          /\ \E o \in {x \in Objs : obj[x] = Blank} :
                /\ data' = o
                /\ obj' = [obj EXCEPT ![o] = NewData(k, podOf[k])]
                /\ kubeApiservers' = [kubeApiservers EXCEPT ![k] = o]
    /\ pc' = "seen"
    /\ UNCHANGED <<podOf, nextClean, cleaners, cleaner, kernel, faults,
                   history>>

\* data.setLastSeen().
SetLastSeen ==
    /\ pc = "seen"
    /\ Unlocked(obj[data])
    /\ obj' = [obj EXCEPT ![data].seen = 0]
    /\ pc' = "check"
    /\ UNCHANGED <<podOf, kubeApiservers, data, msg, nextClean, cleaners,
                   cleaner, kernel, faults, history>>

\* (Mutants: a changed pod IP goes unnoticed; a failure is final.)
NeedsFirstUpdate(d, ip) ==
    ~d.complete /\ (d.lastError => d.failed > Backoff)
NeverRetries(d, ip) ==
    d.podIP # ip \/ (~d.complete /\ ~d.lastError)
needsUpdate(d, ip) ==
    \/ d.podIP # ip
    \/ ~d.complete /\ (d.lastError => d.failed > Backoff)

\* c.nextClean.After(time.Now()), the test before go c.clean().
CleanNow == nextClean > 0

\* go data.update(podIP): a goroutine that waits for the lock of the object.
Enqueue(d, ip) ==
    [d EXCEPT !.pending = [d.pending EXCEPT ![ip] = @ + 1]]

\* data.needsUpdate(podIP), the start of an update, the start of a cleaner.
CheckUpdate ==
    LET d == obj[data]
        start == needsUpdate(d, msg)
    IN  /\ pc = "check"
        /\ Unlocked(d)
        /\ start => d.pending[msg] < MaxPending
        /\ CleanNow => cleaners < MaxCleaners
        /\ obj' = IF start THEN [obj EXCEPT ![data] = Enqueue(d, msg)]
                           ELSE obj
        /\ orphaned' = IF start /\ kubeApiservers[d.key] # data
                       THEN orphaned \cup {d.key} ELSE orphaned
        /\ nextClean' = IF CleanNow THEN CleanUpPeriod ELSE nextClean
        /\ cleaners' = IF CleanNow THEN cleaners + 1 ELSE cleaners
        /\ pc' = "read" /\ data' = NoObj /\ msg' = NoIP
        /\ UNCHANGED <<podOf, kubeApiservers, cleaner, kernel, faults, taken>>

-----------------------------------------------------------------------------
\* The update goroutine: it keeps the lock of its object until it ends.

\* The goroutine has the lock and stores its pod IP.
Dequeue(d, ip) ==
    [d EXCEPT !.podIP = ip, !.pending = [d.pending EXCEPT ![ip] = @ - 1]]

\* The lock is taken, the pod IP stored, the old device deleted.
UpdateDelete(o, ip) ==
    LET d == Dequeue(obj[o], ip)
    IN  /\ obj[o].pending[ip] > 0
        /\ Unlocked(obj[o])
        /\ \/ /\ DeleteLink(d.key)
              /\ obj' = [obj EXCEPT ![o] = [d EXCEPT !.step = "create"]]
              /\ UNCHANGED faults
           \/ /\ Fault
              /\ obj' = [obj EXCEPT ![o] = SetFailed(d)]
              /\ UNCHANGED kernel
        /\ UNCHANGED <<podOf, kubeApiservers, loop, nextClean, cleaners,
                       cleaner, history>>

\* CreateTunnel adds the device and sets it up.  Adding fails when a device
\* of that name is there.
UpdateCreate(o) ==
    LET d == obj[o]
    IN  /\ d.step = "create"
        /\ \/ /\ d.key \notin link
              /\ link' = link \cup {d.key}
              /\ obj' = [obj EXCEPT ![o].step = "route"]
              /\ UNCHANGED faults
           \/ /\ d.key \in link
              /\ obj' = [obj EXCEPT ![o] = SetFailed(d)]
              /\ UNCHANGED <<link, faults>>
           \/ /\ Fault
              /\ link' \in {link, link \cup {d.key}}
              /\ obj' = [obj EXCEPT ![o] = SetFailed(d)]
        /\ UNCHANGED <<podOf, kubeApiservers, loop, nextClean, cleaners,
                       cleaner, route, history>>

\* What a successful update leaves in its object.
Done(d) == [d EXCEPT !.complete = TRUE, !.lastError = FALSE, !.failed = 0,
                     !.step = "unlocked"]

\* The other entries that have a route to this pod IP.
Others(k, ip) == {j \in Entries \ {k} : obj[kubeApiservers[j]].podIP = ip}

\* The device is looked up and the route to the pod IP replaced, whatever
\* device it leads to.
UpdateRoute(o) ==
    LET d == obj[o]
    IN  /\ d.step = "route"
        /\ \/ /\ d.key \in link
              /\ route' = [route EXCEPT ![d.podIP] = d.key]
              /\ obj' = [obj EXCEPT ![o] = Done(d)]
              /\ taken' = (taken \cup Others(d.key, d.podIP)) \ {d.key}
              /\ UNCHANGED faults
           \/ /\ d.key \notin link
              /\ obj' = [obj EXCEPT ![o] = SetFailed(d)]
              /\ UNCHANGED <<route, faults, taken>>
           \/ /\ Fault
              /\ obj' = [obj EXCEPT ![o] = SetFailed(d)]
              /\ UNCHANGED <<route, taken>>
        /\ UNCHANGED <<podOf, kubeApiservers, loop, nextClean, cleaners,
                       cleaner, link, orphaned>>

-----------------------------------------------------------------------------
\* The clean goroutine: it keeps c.lock until it ends.

CleanStart ==
    /\ cleaners > 0
    /\ ~cleaning
    /\ cleaners' = cleaners - 1
    /\ cleaning' = TRUE
    /\ todo' = Entries
    /\ UNCHANGED <<podOf, kubeApiservers, obj, loop, nextClean, victim,
                   kernel, faults, history>>

isOutdated(d) == d.seen > Expiration

\* isOutdated, and the entry leaves the map.
CleanCheck(k) ==
    LET o == kubeApiservers[k]
    IN  /\ cleaning /\ victim = NoObj
        /\ k \in todo
        /\ Unlocked(obj[o])
        /\ todo' = todo \ {k}
        /\ IF isOutdated(obj[o])
           THEN /\ kubeApiservers' = [kubeApiservers EXCEPT ![k] = NoObj]
                /\ victim' = o
                /\ orphaned' = IF obj[o].pending # NoPending
                               THEN orphaned \cup {k} ELSE orphaned
           ELSE UNCHANGED <<kubeApiservers, victim, orphaned>>
        /\ UNCHANGED <<podOf, obj, loop, nextClean, cleaners, cleaning,
                       kernel, faults, taken>>

\* (Mutant: the device is not deleted.)
CleanForget ==
    /\ victim # NoObj
    /\ victim' = NoObj
    /\ UNCHANGED <<podOf, kubeApiservers, obj, loop, nextClean, cleaners,
                   todo, cleaning, kernel, faults, history>>

\* data.delete(): the device is deleted; a failure is only logged.
CleanDelete ==
    /\ victim # NoObj
    /\ Unlocked(obj[victim])
    /\ \/ DeleteLink(obj[victim].key) /\ UNCHANGED faults
       \/ Fault /\ UNCHANGED kernel
    /\ victim' = NoObj
    /\ UNCHANGED <<podOf, kubeApiservers, obj, loop, nextClean, cleaners,
                   todo, cleaning, history>>

CleanEnd ==
    /\ cleaning /\ todo = {} /\ victim = NoObj
    /\ cleaning' = FALSE
    /\ UNCHANGED <<podOf, kubeApiservers, obj, loop, nextClean, cleaners,
                   todo, victim, kernel, faults, history>>

-----------------------------------------------------------------------------
\* The environment.

\* The pod behind an address goes, comes or is another one.  Two pods that
\* exist have different pod IPs, but a pod may get the one of an earlier pod
\* behind another address.  It matters to the next datagram only, so it
\* happens when that can be read.
ChangePod(k, ip) ==
    /\ pc = "read" /\ ~cleaning
    /\ ip # podOf[k]
    /\ ip # NoIP => \A j \in Keys : podOf[j] # ip
    /\ podOf' = [podOf EXCEPT ![k] = ip]
    /\ UNCHANGED <<kubeApiservers, obj, loop, nextClean, cleaners, cleaner,
                   kernel, faults, history>>

Busy(o) == obj[o].step # "unlocked" \/ obj[o].pending # NoPending

Idle ==
    /\ pc = "read" /\ ~cleaning /\ cleaners = 0
    /\ \A o \in Objs : ~Busy(o)

Tick ==
    /\ Idle
    /\ obj' = [o \in Objs |->
                 IF obj[o] = Blank THEN Blank
                 ELSE [obj[o] EXCEPT
                        !.seen = IF @ > Expiration THEN @ ELSE @ + 1,
                        !.failed = IF obj[o].lastError /\ @ <= Backoff
                                   THEN @ + 1 ELSE @]]
    /\ nextClean' = IF nextClean > 0 THEN nextClean - 1 ELSE 0
    /\ UNCHANGED <<podOf, kubeApiservers, loop, cleaners, cleaner, kernel,
                   faults, history>>

\* The Go runtime frees an object that nothing refers to.
Collect(o) ==
    /\ obj[o] # Blank
    /\ o \notin {kubeApiservers[k] : k \in Keys} \cup {data, victim}
    /\ ~Busy(o)
    /\ obj' = [obj EXCEPT ![o] = Blank]
    /\ UNCHANGED <<podOf, kubeApiservers, loop, nextClean, cleaners, cleaner,
                   kernel, faults, history>>

UpdateStep(o) ==
    \/ \E ip \in PodIPs : UpdateDelete(o, ip)
    \/ UpdateCreate(o)
    \/ UpdateRoute(o)

CleanStep ==
    \/ CleanStart
    \/ \E k \in Keys : CleanCheck(k)
    \/ CleanDelete
    \/ CleanEnd

Next ==
    \/ \E k \in Keys : Receive(k)
    \/ SetLastSeen
    \/ CheckUpdate
    \/ \E o \in Objs : UpdateStep(o) \/ Collect(o)
    \/ CleanStep
    \/ \E k \in Keys, ip \in PodIPs \cup {NoIP} : ChangePod(k, ip)
    \/ Tick

Spec == Init /\ [][Next]_vars

\* Goroutines are scheduled and a mutex does not starve those that wait for
\* it; there are pods again and again behind the addresses Live and they send,
\* every two seconds (constants.PathControllerUpdateInterval), so that the
\* work of a datagram is done again and again before the next one and time
\* passes.
Fairness(Live) ==
    /\ \A k \in Live : SF_vars(Receive(k)) /\ []<>(podOf[k] # NoIP)
    /\ SF_vars(SetLastSeen)
    /\ SF_vars(CheckUpdate)
    /\ \A o \in Objs : WF_vars(UpdateStep(o)) /\ WF_vars(Collect(o))
    /\ SF_vars(CleanStep)
    /\ []<>Idle
    /\ SF_vars(Tick)

-----------------------------------------------------------------------------
Data ==
    [key : Keys \cup {NoKey}, podIP : PodIPs \cup {NoIP}, seen : 0 .. Expiration + 1,
     complete : BOOLEAN, lastError : BOOLEAN, failed : 0 .. Backoff + 1,
     step : {"unlocked", "create", "route"},
     pending : [PodIPs -> 0 .. MaxPending]]

TypeOK ==
    /\ podOf \in [Keys -> PodIPs \cup {NoIP}]
    /\ kubeApiservers \in [Keys -> Objs \cup {NoObj}]
    /\ obj \in [Objs -> Data]
    /\ pc \in {"read", "seen", "check"}
    /\ data \in Objs \cup {NoObj} /\ msg \in PodIPs \cup {NoIP}
    /\ nextClean \in 0 .. CleanUpPeriod
    /\ cleaners \in 0 .. MaxCleaners
    /\ todo \subseteq Keys /\ victim \in Objs \cup {NoObj}
    /\ cleaning \in BOOLEAN
    /\ link \subseteq Keys /\ route \in [PodIPs -> Keys \cup {NoKey}]
    /\ faults \in 0 .. MaxFaults
    /\ orphaned \subseteq Keys /\ taken \subseteq Keys

\* The entry of k passes the test of the readiness probe.
EntryReady(k) ==
    LET d == obj[kubeApiservers[k]]
    IN  d.step = "unlocked" /\ d.complete /\ ~d.lastError

\* The kernel sends packets for the pod of entry k through its own device.
Routed(k) == k \in link /\ route[obj[kubeApiservers[k]].podIP] = k

IsReady == ~cleaning /\ Entries # {} /\ \A k \in Entries : EntryReady(k)

-----------------------------------------------------------------------------
\* The readiness probe does not lie about an entry: if it passes, the kernel
\* routes the pod IP of the entry through the device of the entry, whatever
\* updates, failures and changes of the pod came before.  Also when the pod IP
\* came from a pod behind another address, neither the updates nor the removal
\* of that other entry take it away.  Excepted are the addresses that an object
\* outside the map has updated, and the entries whose pod IP another address
\* has announced later: their pod is gone, or the route is lost for good when
\* the pod IP comes back (readiness.go IsReady, tunnel.go update, delete).
ReadyEntryRouted ==
    \A k \in Entries \ (orphaned \cup taken) : EntryReady(k) => Routed(k)

\* An address whose entry was removed leaves no device behind, unless a
\* kernel call failed or a removed object was updated (tunnel.go clean,
\* delete: the device is deleted before c.lock is released).
ForgottenIsGone ==
    faults = MaxFaults /\ ~cleaning =>
        link \subseteq Entries \cup orphaned

\* The parts of the inductive invariant of TunnelController_proofs.

\* An entry is the object of its key.
EntriesMatch ==
    \A k \in Entries : obj[kubeApiservers[k]].key = k

\* A free object has no key and no goroutine, others have a pod IP; the main
\* loop holds an object.
InUse ==
    /\ \A o \in Objs : IF obj[o].key = NoKey THEN obj[o] = Blank
                                            ELSE obj[o].podIP \in PodIPs
    /\ pc # "read" => /\ data # NoObj
                      /\ obj[data].key \in Keys
                      /\ msg \in PodIPs

\* The cleaner works under c.lock, on an object that has left the map.
CleanerHasLock ==
    /\ todo # {} => cleaning /\ todo \subseteq Entries
    /\ victim # NoObj => /\ cleaning
                         /\ obj[victim].key \in Keys
                         /\ kubeApiservers[obj[victim].key] = NoObj

\* Unless an address is orphaned, the entry alone updates its device ...
EntryUpdates ==
    \A o \in Objs : Busy(o) /\ obj[o].key \notin orphaned =>
        obj[o].key \in Keys /\ kubeApiservers[obj[o].key] = o

\* ... and knows whether it is there while an update is under way.
DeviceUnderLock ==
    \A k \in Entries \ orphaned :
        /\ obj[kubeApiservers[k]].step = "create" => k \notin link
        /\ obj[kubeApiservers[k]].step = "route" => k \in link

\* While no kernel call has failed, every device belongs to an entry or is
\* about to be deleted.
DevicesKnown ==
    faults = MaxFaults =>
        \A k \in link \ (Entries \cup orphaned) :
            victim # NoObj /\ obj[victim].key = k

TunnelInv ==
    /\ TypeOK
    /\ EntriesMatch
    /\ InUse
    /\ CleanerHasLock
    /\ EntryUpdates
    /\ DeviceUnderLock
    /\ ReadyEntryRouted
    /\ DevicesKnown

-----------------------------------------------------------------------------
\* IsReady as its comment has it: routes to all kube-apiservers.  An entry
\* whose pod IP another address has announced later stands for no kube-apiserver
\* any more and is left out.
ReadyMeansRouted == IsReady => \A k \in Entries \ taken : Routed(k)

\* The last update of the entry of k failed.
Failed(k) == kubeApiservers[k] # NoObj /\ obj[kubeApiservers[k]].lastError

\* When the pod behind an address keeps its pod IP and keeps sending, the
\* route to this pod IP is there for good, even if updates for older pod IPs
\* are still waiting; the only exceptions are an update that failed for good,
\* an address that an object outside the map has updated, and a pod IP that
\* another address has announced in between (tunnel.go needsUpdate, update).
PodFollowed(k) ==
    \A ip \in PodIPs :
        <>[](podOf[k] = ip) =>
            \/ <>[](route[ip] = k /\ k \in link)
            \/ <>[]Failed(k)
            \/ <>(k \in orphaned)
            \/ <>[](k \in taken)

\* An entry without a device is retried after kernel failures until the
\* device and its route are complete (tunnel.go needsUpdate, the backoff).
CreationRetried(k) ==
    kubeApiservers[k] # NoObj /\ ~obj[kubeApiservers[k]].complete
        ~> kubeApiservers[k] # NoObj /\ obj[kubeApiservers[k]].complete

\* "if creation of tunnel device or update of route failed, retry again only
\* after a backoff" (tunnel.go needsUpdate): an update that failed is repeated
\* until it succeeds.
FailureRetried(k) == Failed(k) ~> ~Failed(k)

\* The entry of a pod that fell silent is removed (tunnel.go clean).
OutdatedRemoved(k) ==
    kubeApiservers[k] # NoObj /\ isOutdated(obj[kubeApiservers[k]])
        ~> kubeApiservers[k] = NoObj
           \/ ~isOutdated(obj[kubeApiservers[k]])
=============================================================================
