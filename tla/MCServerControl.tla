-------------------------- MODULE MCServerControl --------------------------
(* Small servers: one project that matters and one that gets in its way.   *)
EXTENDS ServerControl, TLC

CONSTANTS p1, p2, s1, s2, v1

MCProjects == {p1, p2}
MCSlots == {s1, s2}
MCServices == {v1}

Config(type, n) ==
    [type |-> type, enabled |-> TRUE, valid |-> TRUE, service |-> v1,
     maxConcurrent |-> 1, maxConsecutiveFailures |-> n, runTimeout |-> FALSE]

Manual == Config("manual", 1)
FixedRate == [Config("fixed_rate", 1) EXCEPT !.maxConcurrent = 2]
Daemon == Config("daemon", 2)

MCConfigs ==
    {[c EXCEPT !.enabled = e, !.valid = v] :
        c \in {Manual, FixedRate, Daemon}, e, v \in BOOLEAN}

\* p1 starts as a project that may run twice and becomes a daemon; p2, a manual
\* project, is started and updated beside it.
MCSubmitted == (p1 :> {Daemon}) @@ (p2 :> {Manual})
MCInitialMaps == {(p1 :> FixedRate) @@ (p2 :> Manual)}

\* For the disagreements with the documents: p1 starts as a daemon.
MCSubmittedAny == (p1 :> {Manual, FixedRate, Daemon}) @@ (p2 :> {Manual})
MCInitialDaemon == {(p1 :> Daemon) @@ (p2 :> Manual)}
MCEndpoints ==
    (p1 :> {"create", "update", "delete", "reload", "start", "stop", "enabled"})
    @@ (p2 :> {"start", "update"})
=============================================================================
