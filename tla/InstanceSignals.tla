-------------------------- MODULE InstanceSignals --------------------------
(***************************************************************************)
(* What InstanceManager promises to those who listen to its signals (the   *)
(* scheduler, the event bus): of every instance the outcome of its start   *)
(* is announced, and then its end, once.  A start that was reported failed *)
(* may still be followed by started (the process came up after the 5 s     *)
(* start timer), never the other way round.                                *)
(***************************************************************************)
EXTENDS Naturals

CONSTANTS Projects, Slots

VARIABLES
    alive,  \* alive[p][s]: the instance is in the table
    sig     \* sig[p][s]: how often each signal was emitted for it

NoSignals == [started |-> 0, startFailed |-> 0, finished |-> 0]

Init ==
    /\ alive = [p \in Projects |-> [s \in Slots |-> FALSE]]
    /\ sig = [p \in Projects |-> [s \in Slots |-> NoSignals]]

Create(p, s) ==
    /\ ~alive[p][s]
    /\ alive' = [alive EXCEPT ![p][s] = TRUE]
    /\ sig' = [sig EXCEPT ![p][s] = NoSignals]

AnnounceStarted(p, s) ==
    /\ alive[p][s]
    /\ sig[p][s].started = 0
    /\ sig' = [sig EXCEPT ![p][s].started = 1]
    /\ UNCHANGED alive

AnnounceStartFailed(p, s) ==
    /\ alive[p][s]
    /\ sig[p][s].started = 0
    /\ sig[p][s].startFailed = 0
    /\ sig' = [sig EXCEPT ![p][s].startFailed = 1]
    /\ UNCHANGED alive

(* The end of an instance whose start had no outcome yet announces both. *)
Finish(p, s) ==
    /\ alive[p][s]
    /\ alive' = [alive EXCEPT ![p][s] = FALSE]
    /\ sig' = [sig EXCEPT ![p][s] =
                 [started |-> @.started,
                  startFailed |-> IF @.started = 0 THEN 1 ELSE @.startFailed,
                  finished |-> 1]]

Next ==
    \E p \in Projects, s \in Slots :
        \/ Create(p, s)
        \/ AnnounceStarted(p, s)
        \/ AnnounceStartFailed(p, s)
        \/ Finish(p, s)

Spec == Init /\ [][Next]_<<alive, sig>>
=============================================================================
