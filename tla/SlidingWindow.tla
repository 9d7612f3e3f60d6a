--------------------------- MODULE SlidingWindow ---------------------------
(***************************************************************************)
(* What the watchdog of the tunnel controller promises: it remembers the   *)
(* last events in the order in which they came, raises an alarm as soon as *)
(* enough of them are failures, and then starts afresh and ignores a       *)
(* number of events.                                                       *)
(***************************************************************************)
EXTENDS Naturals, FiniteSets

CONSTANTS
    WindowSize,   \* remembered events
    Threshold,    \* failures among them that raise an alarm
    Cooldown      \* events that are ignored after an alarm

VARIABLES
    events,   \* events[1] is the oldest remembered event; TRUE is a failure
    ignore,   \* events still to be ignored
    alarm     \* the last event has raised an alarm

svars == <<events, ignore, alarm>>

NoFailures == [i \in 1 .. WindowSize |-> FALSE]

SInit == events = NoFailures /\ ignore = 0 /\ alarm = FALSE

Ignore ==
    /\ ignore > 0
    /\ ignore' = ignore - 1
    /\ alarm' = FALSE
    /\ UNCHANGED events

\* The newest event pushes the oldest one out.
Seen(failure) ==
    [i \in 1 .. WindowSize |->
        IF i < WindowSize THEN events[i + 1] ELSE failure]

Breach(seen) == Cardinality({i \in 1 .. WindowSize : seen[i]}) >= Threshold

Remember(failure) ==
    /\ ignore = 0
    /\ alarm' = Breach(Seen(failure))
    /\ events' = IF Breach(Seen(failure)) THEN NoFailures ELSE Seen(failure)
    /\ ignore' = IF Breach(Seen(failure)) THEN Cooldown ELSE 0

SNext == Ignore \/ \E failure \in BOOLEAN : Remember(failure)

SSpec == SInit /\ [][SNext]_svars
=============================================================================
