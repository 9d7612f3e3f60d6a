------------------------------- MODULE Health -------------------------------
(***************************************************************************)
(* pkg/openvpn/health: the liveness and readiness probes of a VPN server   *)
(* judge it by the status file that its OpenVPN rewrites every Interval    *)
(* seconds.  OpenVPN writes over the old lines and cuts the file off at    *)
(* the end, so a probe in between reads new lines followed by whatever is  *)
(* left of the old ones; OpenVPN may hang at any point, also there.  Its   *)
(* table of clients is itself late: a client that vanished is dropped      *)
(* after Keepalive seconds.                                                *)
(*                                                                         *)
(* A tick is a second.  All ages are counted in ticks and capped.          *)
(***************************************************************************)
EXTENDS Naturals

CONSTANTS
    Interval,    \* OpenVPNStatusUpdateInterval
    Slack,       \* what isUp adds to it
    Delay,       \* ticks by which OpenVPN may be late with a rewrite
    Keepalive,   \* ticks after which OpenVPN drops a silent client
    MaxFaults    \* bound: hangs and restarts of OpenVPN

\* OpenVPN is late by less than the slack; a second of it is spent because
\* the TIME line has whole seconds only.
ASSUME HealthAssumption ==
    /\ Interval \in Nat \ {0} /\ Slack \in Nat /\ Delay \in Nat
    /\ Keepalive \in Nat /\ MaxFaults \in Nat
    /\ Delay + 1 <= Slack

\* Clients by the prefix of their common name: SeedClientPrefix and
\* ShootClientPrefix.
Kinds == {"seed", "shoot"}

\* The common name UNDEF of clients that have not finished their handshake.
Undef == "undef"

VARIABLES
    isHA,        \* Config.IsHA
    proc,        \* OpenVPN: "starting", "running" or "hung"
    present,     \* the clients that are really there
    gone,        \* gone[k]: ticks since client k was there
    table,       \* the clients OpenVPN believes to be connected
    timer,       \* ticks since the last rewrite began
    rewriting,   \* OpenVPN is in the middle of a rewrite
    todo,        \* the clients it still has to write
    time,        \* the file: age of its TIME line,
    listed,      \* its CLIENT_LIST lines from the last rewrite begun,
    left,        \* those left of the rewrite before,
    torn,        \* a line of it is cut, or there is no file
    written,     \* history: a rewrite was finished since OpenVPN started
    lastFail,    \* history: ticks since IsAlive failed for a healthy server
    faults       \* hangs and restarts still to come

openvpn == <<proc, table, timer, rewriting, todo, written>>
clients == <<present, gone>>
file == <<time, listed, left, torn>>
vars == <<isHA, openvpn, clients, file, lastFail, faults>>

\* The age at which isUp gives up; older files look the same.
MaxAge == Interval + Slack

\* A file without a TIME line has the zero time.
NoTime == MaxAge + 1

\* No client seen for longer than this may count for readiness.
MaxLag == Keepalive + Interval + Delay + MaxAge

Init ==
    /\ isHA \in BOOLEAN
    /\ proc = "starting" /\ table = {} /\ timer = 0
    /\ rewriting = FALSE /\ todo = {} /\ written = FALSE
    /\ present = {}
    /\ gone = [k \in Kinds |-> MaxLag + 1]
    /\ time = NoTime /\ listed = {} /\ left = {} /\ torn = TRUE
    /\ lastFail = Interval
    /\ faults = MaxFaults

-----------------------------------------------------------------------------
\* The probes.

\* The forms in which OpenVPN 2.6 and 2.7 print the address of a client;
\* each kind of client stands for one of them.
AddressForm(k) ==
    CASE k = "seed" -> [family |-> 4, bracket |-> FALSE, port |-> TRUE]
      [] k = "shoot" -> [family |-> 6, bracket |-> FALSE, port |-> FALSE]
      [] k = Undef -> [family |-> 6, bracket |-> TRUE, port |-> TRUE]

\* parseRealClientAddress succeeds: brackets are for IPv6 addresses that a
\* port follows; without them any address will do (a port after an IPv6 address
\* is taken for a part of it).  (Mutant: only addresses with a port.)
HasPort(a) == a.port
parseRealClientAddress(a) == a.bracket => a.family = 6 /\ a.port

\* ParseOpenVPNStatus.  A cut line has an unknown type, and so has a file that
\* cannot be opened no status; a file without TIME or END is accepted.
Clients == listed \cup left

ParseFails ==
    torn \/ \E k \in Clients : ~parseRealClientAddress(AddressForm(k))

\* (Mutants: the age is not looked at; nothing is added to the interval.)
NeverStale == TRUE
NoSlack == time <= Interval
isUp == time <= Interval + Slack

IsAlive == ~ParseFails /\ isUp

\* (Mutant: without HA any client will do, with HA a shoot client.)
AnyClient == Clients # {} /\ (isHA => "shoot" \in Clients)
\* Two prefixes are two clients, so the first test of their number adds nothing.
isReady ==
    IF isHA THEN {"seed", "shoot"} \subseteq Clients
    ELSE Clients = {} \/ "shoot" \in Clients

IsReady == ~ParseFails /\ isReady

-----------------------------------------------------------------------------
\* OpenVPN.

Fault == faults > 0 /\ faults' = faults - 1

\* The file is created empty, or emptied.
Start ==
    /\ proc = "starting"
    /\ proc' = "running" /\ timer' = 0
    /\ time' = NoTime /\ listed' = {} /\ left' = {} /\ torn' = FALSE
    /\ UNCHANGED <<isHA, table, rewriting, todo, written, clients, lastFail,
                   faults>>

\* A line is written over the rest of the old file.  Old lines are longer or
\* shorter, so any of them may be left, and the first may be cut.
Overwrite(old) == left' \in SUBSET old /\ torn' \in BOOLEAN

\* The next rewrite is due.  TIME is cut off to seconds, so the line may look
\* a second older than it is; a client may be in its handshake.
BeginRewrite ==
    /\ proc = "running" /\ ~rewriting
    /\ timer >= Interval
    /\ rewriting' = TRUE /\ timer' = 0
    /\ todo' \in {table, table \cup {Undef}}
    /\ time' \in {0, 1} /\ listed' = {}
    /\ Overwrite(listed)
    /\ UNCHANGED <<isHA, proc, table, written, clients, lastFail, faults>>

WriteClient(k) ==
    /\ proc = "running" /\ k \in todo
    /\ todo' = todo \ {k} /\ listed' = listed \cup {k}
    /\ Overwrite(left)
    /\ UNCHANGED <<isHA, proc, table, timer, rewriting, written, clients,
                   time, lastFail, faults>>

\* After the last line the file is cut off.
EndRewrite ==
    /\ proc = "running" /\ rewriting /\ todo = {}
    /\ rewriting' = FALSE /\ written' = TRUE
    /\ left' = {} /\ torn' = FALSE
    /\ UNCHANGED <<isHA, proc, table, timer, todo, clients, time, listed,
                   lastFail, faults>>

Hang ==
    /\ proc = "running" /\ Fault
    /\ proc' = "hung"
    /\ UNCHANGED <<isHA, table, timer, rewriting, todo, written, clients,
                   file, lastFail>>

\* The container is restarted, always when OpenVPN hangs.  Its file is gone,
\* unless it is on a volume.
Restart ==
    /\ \/ proc = "hung" /\ UNCHANGED faults
       \/ proc = "running" /\ Fault
    /\ proc' = "starting" /\ table' = {} /\ timer' = 0
    /\ rewriting' = FALSE /\ todo' = {} /\ written' = FALSE
    /\ \/ UNCHANGED file
       \/ time' = NoTime /\ listed' = {} /\ left' = {} /\ torn' = TRUE
    /\ UNCHANGED <<isHA, clients, lastFail>>

\* A client connects; one that is listed may connect anew.
Connect(k) ==
    /\ proc = "running" /\ k \notin present
    /\ present' = present \cup {k} /\ table' = table \cup {k}
    /\ gone' = [gone EXCEPT ![k] = 0]
    /\ UNCHANGED <<isHA, proc, timer, rewriting, todo, written, file, lastFail,
                   faults>>

\* A client that lost its OpenVPN server connects again.
Reconnect(k) ==
    /\ proc = "running" /\ k \in present \ table
    /\ table' = table \cup {k}
    /\ UNCHANGED <<isHA, proc, timer, rewriting, todo, written, clients,
                   file, lastFail, faults>>

\* A client leaves and says so, or is not heard of any more.
Leave(k) ==
    /\ k \in present
    /\ present' = present \ {k}
    /\ table' \in IF proc = "running" THEN {table, table \ {k}} ELSE {table}
    /\ UNCHANGED <<isHA, proc, timer, rewriting, todo, written, gone, file,
                   lastFail, faults>>

\* OpenVPN notices that a client is silent.
Overdue(k) == k \in table \ present /\ gone[k] >= Keepalive

Drop(k) ==
    /\ proc = "running" /\ Overdue(k)
    /\ table' = table \ {k}
    /\ UNCHANGED <<isHA, proc, timer, rewriting, todo, written, clients,
                   file, lastFail, faults>>

-----------------------------------------------------------------------------
\* A running OpenVPN finishes a rewrite within the second, starts it in time
\* and drops silent clients in time.
InTime ==
    proc = "running" =>
        /\ ~rewriting
        /\ timer < Interval + Delay
        /\ \A k \in Kinds : ~Overdue(k)

CappedInc(n, cap) == IF n < cap THEN n + 1 ELSE cap

Tick ==
    /\ InTime
    /\ timer' = CappedInc(timer, Interval + Delay)
    /\ gone' = [k \in Kinds |->
                   IF k \in present THEN 0 ELSE CappedInc(gone[k], MaxLag + 1)]
    /\ time' = CappedInc(time, NoTime)
    /\ lastFail' = CappedInc(lastFail, Interval)
    /\ UNCHANGED <<isHA, proc, table, rewriting, todo, written, present,
                   listed, left, torn, faults>>

Healthy == proc = "running" /\ written

\* The kubelet runs a liveness probe and it fails.
ProbeFails ==
    /\ Healthy /\ ~IsAlive
    /\ lastFail' = 0
    /\ UNCHANGED <<isHA, openvpn, clients, file, faults>>

OpenVPNStep ==
    \/ Start \/ BeginRewrite \/ EndRewrite
    \/ \E k \in Kinds \cup {Undef} : WriteClient(k)

Next ==
    \/ OpenVPNStep
    \/ Hang
    \/ Restart
    \/ \E k \in Kinds : Connect(k) \/ Reconnect(k) \/ Leave(k) \/ Drop(k)
    \/ Tick
    \/ ProbeFails

Spec == Init /\ [][Next]_vars

\* OpenVPN and the clock go on, clients without a connection try again.
FairSpec ==
    /\ Spec
    /\ WF_vars(OpenVPNStep)
    /\ WF_vars(Tick)
    /\ \A k \in Kinds : WF_vars(Reconnect(k)) /\ WF_vars(Drop(k))

-----------------------------------------------------------------------------
TypeOK ==
    /\ isHA \in BOOLEAN
    /\ proc \in {"starting", "running", "hung"}
    /\ present \subseteq Kinds /\ table \subseteq Kinds
    /\ gone \in [Kinds -> 0 .. MaxLag + 1]
    /\ timer \in 0 .. Interval + Delay
    /\ rewriting \in BOOLEAN /\ written \in BOOLEAN /\ torn \in BOOLEAN
    /\ todo \cup listed \cup left \subseteq Kinds \cup {Undef}
    /\ time \in 0 .. NoTime
    /\ lastFail \in 0 .. Interval
    /\ faults \in 0 .. MaxFaults

\* What both probes accept is not out of date: with HA, a seed and a shoot
\* client have been there within MaxLag seconds, however old the table of
\* OpenVPN was when it wrote it, and even if it hung half way through a
\* rewrite and the clients come from the lines of the one before.  Readiness
\* alone promises nothing, since isReady does not look at UpdatedAt
\* (status.go isUp, isReady).
ReadyIsCurrent ==
    isHA /\ IsAlive /\ IsReady =>
        \A k \in Kinds : gone[k] <= MaxLag

\* A server that works is alive whenever its file is complete: the slack of
\* isUp covers a late rewrite and the seconds that TIME cuts off, and no form
\* of a client's address makes the file unreadable (status.go isUp,
\* parseRealClientAddress).
SteadyIsAlive == Healthy /\ ~rewriting => IsAlive

\* A file that is read while it is rewritten costs a working server a single
\* liveness probe: another one less than an interval later, but not within
\* the same rewrite, succeeds (readiness.go IsAlive, status.go
\* ParseOpenVPNStatus).
FailuresApart == [][ProbeFails => lastFail = 0 \/ lastFail >= Interval]_vars

\* The clients that a server needs to be ready; without HA it is ready "as the
\* shoot will connect later" when there is none at all.
Enough(P) ==
    IF isHA THEN P = Kinds
    ELSE "shoot" \in P \/ (P = {} /\ Undef \notin listed)

\* Once OpenVPN keeps running and the clients no longer change, readiness
\* reports what they are, whatever hangs, restarts and half-written files
\* came before.  Clients that hang in their handshake do no harm, except that
\* without HA a server that has no other client is not ready (status.go
\* isReady).
ReadyFollows ==
    \A P \in SUBSET Kinds :
        <>[](proc = "running" /\ present = P) =>
            <>[](~rewriting => (IsReady <=> Enough(P)))

-----------------------------------------------------------------------------
\* The parts of the inductive invariant of Health_proofs.

\* OpenVPN is in time: it rewrites within the tick in which it begins, and a
\* client in its table was there Keepalive ticks ago.
OpenVPNInTime ==
    /\ proc = "starting" =>
          table = {} /\ ~rewriting /\ ~written
    /\ todo # {} => rewriting
    /\ proc = "running" =>
          /\ rewriting => timer = 0
          /\ \A k \in (table \cup todo) \cap Kinds : gone[k] <= Keepalive
          /\ \A k \in listed \cap Kinds : gone[k] <= Keepalive + timer
    /\ \A k \in present : gone[k] = 0

\* A running OpenVPN has a readable file of its last rewrite.
FileOfLastRewrite ==
    proc = "running" =>
        /\ ~rewriting => ~torn
        /\ written \/ rewriting => time <= timer + 1

\* How old the lines of the file may be.
LinesByAge ==
    time <= MaxAge =>
        /\ \A k \in listed \cap Kinds : gone[k] <= Keepalive + time
        /\ \A k \in left \cap Kinds :
              gone[k] <= Keepalive + Interval + Delay + time

\* A failed probe is as old as the last rewrite, at least.
FailuresFollowRewrites ==
    /\ timer <= lastFail \/ lastFail = Interval
    /\ proc = "running" /\ rewriting => lastFail = 0 \/ lastFail = Interval

HealthInv ==
    /\ TypeOK
    /\ OpenVPNInTime
    /\ FileOfLastRewrite
    /\ LinesByAge
    /\ FailuresFollowRewrites
=============================================================================
