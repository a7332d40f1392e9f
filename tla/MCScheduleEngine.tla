-------------------------- MODULE MCScheduleEngine --------------------------
(***************************************************************************)
(* One project with two slots, two services, arbitrary callers.  The       *)
(* projects of the engine interact only through startAll and stopAll,      *)
(* which treat each of them alike.                                         *)
(***************************************************************************)
EXTENDS ScheduleEngine

CONSTANTS p1, s1, s2, v1, v2

MCProjects == {p1}
MCSlots == {s1, s2}
MCServices == {v1, v2}

Config(type, enabled, svc, n) ==
    [type |-> type, enabled |-> enabled, valid |-> TRUE, service |-> svc,
     maxConcurrent |-> n, maxConsecutiveFailures |-> n,
     runTimeout |-> svc = v2]

\* A fixed_rate project that moves from one service to the other, and a daemon
\* whose limit changes and which is disabled on the way.
MCConfigs ==
    {Config("manual", TRUE, v1, 1),
     Config("fixed_rate", TRUE, v1, 2),
     Config("fixed_rate", TRUE, v2, 1),
     Config("daemon", TRUE, v1, 2),
     Config("daemon", FALSE, v1, 1)}
=============================================================================
