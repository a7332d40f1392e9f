-------------------------- MODULE MCServerLiveness --------------------------
(* A daemon that crashes while it and a second project are being updated.  *)
EXTENDS ServerControl, TLC

CONSTANTS p1, p2, s1, v1

MCProjects == {p1, p2}
MCSlots == {s1}
MCServices == {v1}

Config(type, n) ==
    [type |-> type, enabled |-> TRUE, valid |-> TRUE, service |-> v1,
     maxConcurrent |-> 1, maxConsecutiveFailures |-> n, runTimeout |-> FALSE]

MCConfigs ==
    {[c EXCEPT !.enabled = e, !.valid = v] :
        c \in {Config("daemon", 3), Config("manual", 1)}, e, v \in BOOLEAN}
MCSubmitted == (p1 :> {Config("daemon", 3)}) @@ (p2 :> {Config("manual", 1)})
MCInitialMaps == {(p1 :> Config("daemon", 3)) @@ (p2 :> Config("manual", 1))}
MCEndpoints == (p1 :> {"update", "start", "stop"}) @@ (p2 :> {"update", "start"})
=============================================================================
