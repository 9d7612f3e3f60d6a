------------------------------ MODULE Watchdog ------------------------------
(***************************************************************************)
(* pkg/shoot_client/tunnel/watchdog.go and the way Controller.Run feeds    *)
(* it: a read timeout of the UDP socket is a failure, a datagram from a    *)
(* path controller a success.  When a ring buffer of the last events holds *)
(* too many failures, the OpenVPN clients of the pod are restarted through *)
(* their management ports, one after the other; the first that cannot be   *)
(* reached ends the loop with an error.                                    *)
(***************************************************************************)
EXTENDS Naturals, FiniteSets

CONSTANTS
    WindowSize, Threshold, Cooldown,   \* parameters of NewWatchdog
    HAVPNClients                       \* clients the action restarts

\* The values NewWatchdog accepts.
ASSUME WatchdogAssumption ==
    /\ WindowSize \in Nat \ {0}
    /\ Threshold \in 1 .. WindowSize
    /\ Cooldown \in Nat \ {0}
    /\ HAVPNClients \in Nat

VARIABLES
    window, windowPos, cooldownCount,   \* the fields of Watchdog
    fired,        \* the last record called the action
    signalled,    \* clients that the last record restarted
    sinceFired,   \* history: events since the action was called last, capped
    failRun       \* history: failures without a success or an action between

vars == <<window, windowPos, cooldownCount, fired, signalled,
          sinceFired, failRun>>

Slots == 0 .. WindowSize - 1

EmptyWindow == [i \in Slots |-> FALSE]

\* Events from one call of the action to the next, at least.
Spacing == Cooldown + Threshold

Init ==
    /\ window = EmptyWindow
    /\ windowPos = 0
    /\ cooldownCount = 0
    /\ fired = FALSE
    /\ signalled = 0
    /\ sinceFired = Spacing
    /\ failRun = 0

-----------------------------------------------------------------------------
\* (Mutant: the position sticks to the last slot.)
StickyPos == IF windowPos + 1 < WindowSize THEN windowPos + 1 ELSE windowPos
NextPos == (windowPos + 1) % WindowSize

Failures(w) == Cardinality({i \in Slots : w[i]})

\* (Mutant: the threshold must be exceeded.)
BreachedLate(w) == Failures(w) > Threshold
Breached(w) == Failures(w) >= Threshold

\* wd.reset().  (Mutant: the window keeps its failures.)
KeepWindow(w) == w
reset(w) == EmptyWindow

\* (Mutant: no event is ignored after the action.)
NoCooldown == 0
StartCooldown == Cooldown

History(failure) ==
    /\ sinceFired' = IF fired' THEN 0
                     ELSE IF sinceFired < Spacing THEN sinceFired + 1
                     ELSE Spacing
    /\ failRun' = IF failure /\ ~fired' THEN failRun + 1 ELSE 0

\* record(failure) while the cooldown is active.
RecordInCooldown(failure) ==
    /\ cooldownCount > 0
    /\ cooldownCount' = cooldownCount - 1
    /\ fired' = FALSE
    /\ signalled' = 0
    /\ UNCHANGED <<window, windowPos>>
    /\ History(failure)

\* record(failure) otherwise; reached is the number of clients the action can
\* dial and write to before it meets one it cannot.
Record(failure, reached) ==
    /\ cooldownCount = 0
    /\ LET w == [window EXCEPT ![windowPos] = failure]
       IN  IF Breached(w)
           THEN /\ window' = reset(w)
                /\ windowPos' = 0
                /\ cooldownCount' = StartCooldown
                /\ fired' = TRUE
                /\ signalled' = reached
           ELSE /\ window' = w
                /\ windowPos' = NextPos
                /\ fired' = FALSE
                /\ signalled' = 0
                /\ UNCHANGED cooldownCount
    /\ History(failure)

\* The read of Controller.Run times out (failure) or returns a datagram.
Next ==
    \E failure \in BOOLEAN :
        \/ RecordInCooldown(failure)
        \/ \E reached \in 0 .. HAVPNClients : Record(failure, reached)

Spec == Init /\ [][Next]_vars

-----------------------------------------------------------------------------
TypeOK ==
    /\ window \in [Slots -> BOOLEAN]
    /\ windowPos \in Slots
    /\ cooldownCount \in 0 .. Cooldown
    /\ fired \in BOOLEAN
    /\ signalled \in 0 .. HAVPNClients
    /\ sinceFired \in 0 .. Spacing
    /\ failRun \in Nat

\* The restarts of the OpenVPN clients do not come in bursts: from one call of
\* the action to the next there are at least Cooldown events that are ignored
\* and Threshold failures that are recorded anew, also when an action failed
\* at some client (watchdog.go record: cooldownCount, reset).
FiresApart == [][fired' => sinceFired + 1 >= Spacing]_vars

\* Silence does not go unnoticed: no run of Cooldown + Threshold timeouts goes
\* by without a call of the action, wherever in the ring it begins and however
\* the call before it ended (watchdog.go record).
SilenceNoticed == failRun < Spacing

\* The ring buffer is a sliding window over the events in their order, with
\* the oldest event in the slot that is overwritten next (watchdog.go).
Window == INSTANCE SlidingWindow WITH
    events <- [i \in 1 .. WindowSize |->
                  window[(windowPos + i - 1) % WindowSize]],
    ignore <- cooldownCount,
    alarm <- fired
WindowSpec == Window!SSpec

-----------------------------------------------------------------------------
\* The inductive invariant of Watchdog_proofs.

\* What is left of the cooldown is known from the events since the action.
CooldownTracksFired ==
    cooldownCount > 0 =>
        /\ cooldownCount + sinceFired = Cooldown
        /\ window = EmptyWindow

\* Only events after the cooldown have left failures in the window.
FailuresAreRecent ==
    /\ Failures(window) < Threshold
    /\ cooldownCount = 0 =>
        /\ sinceFired >= Cooldown
        /\ Failures(window) + Cooldown <= sinceFired

CountersInv == TypeOK /\ CooldownTracksFired /\ FailuresAreRecent

\* The failures of the current run that were not ignored are the newest events
\* of the window.
RunIsNewest ==
    /\ cooldownCount > 0 => failRun + cooldownCount <= Cooldown
    /\ cooldownCount = 0 =>
        \A i \in 1 .. WindowSize :
            i + failRun > WindowSize + Cooldown =>
                window[(windowPos + i - 1) % WindowSize]

WatchdogInv == CountersInv /\ RunIsNewest
=============================================================================
