-------------------------- MODULE MCServerServices --------------------------
(* One project, its service coming and going, and the server's shutdown.   *)
EXTENDS ServerControl, TLC

CONSTANTS p1, s1, s2, v1

MCProjects == {p1}
MCSlots == {s1, s2}
MCServices == {v1}

Daemon ==
    [type |-> "daemon", enabled |-> TRUE, valid |-> TRUE, service |-> v1,
     maxConcurrent |-> 1, maxConsecutiveFailures |-> 2, runTimeout |-> TRUE]

MCConfigs == {[Daemon EXCEPT !.enabled = e, !.valid = v] : e, v \in BOOLEAN}
MCSubmitted == p1 :> {Daemon}
MCInitialMaps == {p1 :> Daemon}
MCEndpoints == p1 :> {"create", "update", "delete", "start", "terminate"}
=============================================================================
