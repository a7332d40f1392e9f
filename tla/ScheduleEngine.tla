--------------------------- MODULE ScheduleEngine ---------------------------
(***************************************************************************)
(* ScheduleEngine (manager/schedule_engine.cpp) over the instance table:   *)
(* fixed-rate timers, daemon restarts, crash-loop suppression, shutdown.   *)
(*                                                                         *)
(* The engine works on its own copy of the projects and services, handed   *)
(* over by its callers (ServerManager, ApiRouter).  Here the callers are   *)
(* arbitrary: any method may be called at any time with any arguments.     *)
(* What is shown here therefore holds whatever the API does; ServerControl *)
(* puts the real callers in their place.                                   *)
(*                                                                         *)
(* startInstance may give up early (missing directory or program, no temp  *)
(* file, ...): the parameter ok of an action says for which projects it    *)
(* does not.  A restart is a QTimer::singleShot that cannot be taken back, *)
(* so restarts counts the pending ones.                                    *)
(***************************************************************************)
EXTENDS InstanceTable

CONSTANTS
    Configs,     \* the project configurations clients submit
    MaxRestarts  \* bound: restart timers pending for one project and service

\* The part of a Project (model/project.h, model/schedule.h) that control depends on.
Project ==
    [type : {"none", "manual", "fixed_rate", "daemon"},
     enabled : BOOLEAN, valid : BOOLEAN,
     service : Services \cup {NoService},
     maxConcurrent : Nat \ {0}, maxConsecutiveFailures : Nat \ {0},
     runTimeout : BOOLEAN]

\* A key that is not in the QMap.
NoProject ==
    [type |-> "none", enabled |-> FALSE, valid |-> FALSE, service |-> NoService,
     maxConcurrent |-> 1, maxConsecutiveFailures |-> 1, runTimeout |-> FALSE]

ASSUME ConfigsAssumption ==
    /\ Configs \subseteq Project
    /\ \A c \in Configs : c.type # "none"
    /\ NoService \notin Services
    /\ MaxRestarts \in Nat

VARIABLES
    inst,          \* InstanceManager's table
    projects,      \* m_projects: the engine's copy
    services,      \* m_services: the engine's copy, as the set of known services
    timers,        \* m_timers: the service whose directory the timer captured
    ticking,       \* the QTimer objects that run, by project and captured service
    failures,      \* m_consecutiveFailures
    suppressed,    \* m_restartSuppressed
    shuttingDown,  \* m_shuttingDown
    restarts       \* pending restart timers, by project and captured service

engineVars == <<projects, services, timers, ticking, failures, suppressed,
                shuttingDown, restarts>>
vars == <<inst, projects, services, timers, ticking, failures, suppressed,
          shuttingDown, restarts>>

NoFailures == [p \in Projects |-> 0]

TypeOK ==
    /\ inst \in Tables
    /\ projects \in [Projects -> Project]
    /\ services \in SUBSET Services
    /\ timers \in [Projects -> Services \cup {NoService}]
    /\ ticking \in [Projects -> [Services -> Nat]]
    /\ failures \in [Projects -> Nat]
    /\ suppressed \in SUBSET Projects
    /\ shuttingDown \in BOOLEAN
    /\ restarts \in [Projects -> [Services -> Nat]]

Init ==
    /\ inst = EmptyTable
    /\ projects = [p \in Projects |-> NoProject]
    /\ services = {}
    /\ timers = [p \in Projects |-> NoService]
    /\ ticking = [p \in Projects |-> [v \in Services |-> 0]]
    /\ failures = NoFailures
    /\ suppressed = {}
    /\ shuttingDown = FALSE
    /\ restarts = [p \in Projects |-> [v \in Services |-> 0]]

-----------------------------------------------------------------------------
(* Starting instances. *)

Schedulable(c, svcs) == c.enabled /\ c.valid /\ c.service \in svcs

(* The entry for a new instance of p goes into a free slot of p. *)
StartInstance(t, p, c, svc, origin) ==
    LET s == CHOOSE x \in FreeSlots(t, p) : TRUE
    IN  Emplace(t, p, s, NewInstance(c.runTimeout, svc, origin))

(***************************************************************************)
(* startDaemon, called for each project of P (a table can only gain one    *)
(* instance per project here, so the order of the calls does not matter).  *)
(***************************************************************************)
StartDaemons(t, P, ps) ==
    [p \in Projects |->
        IF p \in P
        THEN StartInstance(t, p, ps[p], ps[p].service, "daemon")[p]
        ELSE t[p]]

\* Mutant: m_shuttingDown is not tested.
DaemonsDueAlways(t, ps, svcs) ==
    {p \in Projects :
        /\ Schedulable(ps[p], svcs)
        /\ ps[p].type = "daemon"
        /\ instanceCount(t, p) = 0}

(* The daemons for which startDaemon gets as far as startInstance. *)
DaemonsDue(t, ps, svcs) ==
    {p \in Projects :
        /\ ~shuttingDown
        /\ Schedulable(ps[p], svcs)
        /\ ps[p].type = "daemon"
        /\ instanceCount(t, p) = 0}

(* The timer a project is given by startAll or startProject, if any. *)
TimerFor(c, svcs) ==
    IF Schedulable(c, svcs) /\ c.type = "fixed_rate" THEN c.service ELSE NoService

(* The running QTimers of a project when timer old is stopped and new started. *)
Retimed(row, old, new) ==
    [v \in Services |-> (row[v] - (IF v = old THEN 1 ELSE 0)) + (IF v = new THEN 1 ELSE 0)]

-----------------------------------------------------------------------------
(* The methods of ScheduleEngine, with what their callers do in the same turn. *)

(***************************************************************************)
(* startAll.  K is what the caller killed just before: rescanServices      *)
(* stops and terminates the projects that became invalid.                  *)
(***************************************************************************)
StartAll(ps, svcs, K, ok) ==
    LET killed == KillProjects(inst, K)
    IN  /\ projects' = ps
        /\ services' = svcs
        /\ timers' = [p \in Projects |-> TimerFor(ps[p], svcs)]
        /\ ticking' = [p \in Projects |->
                          Retimed(ticking[p], timers[p], TimerFor(ps[p], svcs))]
        /\ failures' = NoFailures
        /\ suppressed' = {}
        /\ inst' = StartDaemons(killed, DaemonsDue(killed, ps, svcs) \cap ok, ps)
        /\ UNCHANGED <<shuttingDown, restarts>>

\* Mutants: a timer that already runs is forgotten; a project that is not to be
\* scheduled keeps its timer.
StartProjectKeepsOldTimer(p, c, svcs, ok) ==
    LET ps  == [projects EXCEPT ![p] = c]
        new == IF shuttingDown THEN NoService ELSE TimerFor(c, svcs)
    IN  /\ projects' = ps
        /\ services' = svcs
        /\ timers' = [timers EXCEPT ![p] = new]
        /\ ticking' = [ticking EXCEPT ![p] = Retimed(@, NoService, new)]
        /\ failures' = [failures EXCEPT ![p] = 0]
        /\ suppressed' = suppressed \ {p}
        /\ inst' = StartDaemons(inst, DaemonsDue(inst, ps, svcs) \cap ok \cap {p}, ps)
        /\ UNCHANGED <<shuttingDown, restarts>>
StartProjectReturnsEarly(p, c, svcs, ok) ==
    /\ projects' = [projects EXCEPT ![p] = c]
    /\ services' = svcs
    /\ suppressed' = suppressed \ {p}
    /\ failures' = [failures EXCEPT ![p] = 0]
    /\ UNCHANGED <<inst, timers, ticking, shuttingDown, restarts>>

(* startProject: during shutdown only the bookkeeping is done. *)
StartProject(p, c, svcs, ok) ==
    LET ps  == [projects EXCEPT ![p] = c]
        new == IF shuttingDown THEN NoService ELSE TimerFor(c, svcs)
    IN  /\ projects' = ps
        /\ services' = svcs
        /\ timers' = [timers EXCEPT ![p] = new]
        /\ ticking' = [ticking EXCEPT ![p] = Retimed(@, timers[p], new)]
        /\ failures' = [failures EXCEPT ![p] = 0]
        /\ suppressed' = suppressed \ {p}
        /\ inst' = StartDaemons(inst, DaemonsDue(inst, ps, svcs) \cap ok \cap {p}, ps)
        /\ UNCHANGED <<shuttingDown, restarts>>

\* Mutant: the stopped timer stays in m_timers and is stopped again.
StopProjectsKeepsEntry(P) ==
    /\ ticking' = [p \in Projects |->
                      IF p \in P THEN Retimed(ticking[p], timers[p], NoService)
                                 ELSE ticking[p]]
    /\ suppressed' = suppressed \cup P
    /\ failures' = [p \in Projects |-> IF p \in P THEN 0 ELSE failures[p]]
    /\ inst' = KillProjects(inst, P)
    /\ UNCHANGED <<projects, services, timers, shuttingDown, restarts>>

(* stopProject followed by terminateByProject, for each project of P. *)
StopProjects(P) ==
    /\ timers' = [p \in Projects |-> IF p \in P THEN NoService ELSE timers[p]]
    /\ ticking' = [p \in Projects |->
                      IF p \in P THEN Retimed(ticking[p], timers[p], NoService)
                                 ELSE ticking[p]]
    /\ suppressed' = suppressed \cup P
    /\ failures' = [p \in Projects |-> IF p \in P THEN 0 ELSE failures[p]]
    /\ inst' = KillProjects(inst, P)
    /\ UNCHANGED <<projects, services, shuttingDown, restarts>>

(***************************************************************************)
(* resumeProject, then startInstance with the caller's own view c of the   *)
(* project (POST /api/projects/{id}/start).                                *)
(***************************************************************************)
ResumeAndStart(p, c, ok) ==
    /\ suppressed' = suppressed \ {p}
    /\ failures' = [failures EXCEPT ![p] = 0]
    /\ FreeSlots(inst, p) # {}
    /\ inst' = IF ok THEN StartInstance(inst, p, c, c.service, "api") ELSE inst
    /\ UNCHANGED <<projects, services, timers, ticking, shuttingDown, restarts>>

(* setShuttingDown(true), stopAll and terminateAll: ServerManager::shutdown. *)
Shutdown ==
    /\ shuttingDown' = TRUE
    /\ timers' = [p \in Projects |-> NoService]
    /\ ticking' = [p \in Projects |-> Retimed(ticking[p], timers[p], NoService)]
    /\ failures' = NoFailures
    /\ suppressed' = {}
    /\ inst' = KillProjects(inst, Projects)
    /\ UNCHANGED <<projects, services, restarts>>

(* terminateInstance, and the kills at the end of a grace period. *)
TerminateInstance(p, s) ==
    /\ IsLive(inst, p, s)
    /\ inst' = [inst EXCEPT ![p][s] = Kill(@)]
    /\ UNCHANGED engineVars

TerminateByProject(P) ==
    /\ inst' = KillProjects(inst, P)
    /\ UNCHANGED engineVars

-----------------------------------------------------------------------------
(* Timers of the engine. *)

(* A tick that starts an instance; any other tick changes nothing. *)
FixedRateTick(p, svc) ==
    /\ ticking[p][svc] > 0
    /\ ~shuttingDown
    /\ projects[p].type = "fixed_rate"
    /\ projects[p].enabled
    /\ projects[p].valid
    /\ instanceCount(inst, p) < projects[p].maxConcurrent
    /\ FreeSlots(inst, p) # {}
    /\ inst' = StartInstance(inst, p, projects[p], svc, "fixed_rate")
    /\ UNCHANGED engineVars

\* Mutant: m_restartSuppressed is not tested.
RestartFiresAnyway(p, svc, ok) ==
    /\ restarts[p][svc] > 0
    /\ restarts' = [restarts EXCEPT ![p][svc] = @ - 1]
    /\ inst' = IF /\ ~shuttingDown
                  /\ projects[p].valid
                  /\ instanceCount(inst, p) = 0
                  /\ ok
               THEN StartInstance(inst, p, projects[p], svc, "daemon")
               ELSE inst
    /\ UNCHANGED <<projects, services, timers, ticking, failures, suppressed,
                   shuttingDown>>

(***************************************************************************)
(* The lambda of a restart timer.  It looks at shuttingDown, suppressed    *)
(* and the presence of the project, then calls startDaemon, which checks   *)
(* that no instance runs; valid is checked by startInstance.  The type and *)
(* enabled of the project are not looked at again.                         *)
(***************************************************************************)
RestartFires(p, svc, ok) ==
    LET due == /\ ~shuttingDown
               /\ p \notin suppressed
               /\ projects[p].valid
               /\ instanceCount(inst, p) = 0
               /\ ok
    IN  /\ restarts[p][svc] > 0
        /\ restarts' = [restarts EXCEPT ![p][svc] = @ - 1]
        /\ inst' = IF due THEN StartInstance(inst, p, projects[p], svc, "daemon") ELSE inst
        /\ UNCHANGED <<projects, services, timers, ticking, failures, suppressed,
                       shuttingDown>>

-----------------------------------------------------------------------------
(* Events of the processes and of their timers (see InstanceManager). *)

ProcessStarted(p, s) ==
    /\ inst[p][s].status = "starting"
    /\ inst' = [inst EXCEPT ![p][s] = Started(@)]
    /\ UNCHANGED engineVars

StartTimeout(p, s) ==
    /\ StartTimerPending(inst[p][s])
    /\ inst' = [inst EXCEPT ![p][s] = StartTimedOut(@)]
    /\ UNCHANGED engineVars

RunTimeout(p, s) ==
    /\ inst[p][s].watchdog = "armed"
    /\ inst' = [inst EXCEPT ![p][s] = WatchdogExpired(@)]
    /\ UNCHANGED engineVars

(* onInstanceFinished acts only on the projects it keeps alive. *)
KeepsAlive(p) ==
    /\ ~shuttingDown
    /\ p \notin suppressed
    /\ projects[p].type = "daemon"
    /\ projects[p].enabled
    /\ projects[p].valid

\* Mutant: one crash too many.
CrashLoopTooLate(p) == failures[p] + 1 > projects[p].maxConsecutiveFailures
CrashLoop(p) == failures[p] + 1 >= projects[p].maxConsecutiveFailures

\* Mutant: the restart is not scheduled.
ScheduleRestartLost(p) == p \in Projects /\ UNCHANGED restarts

(* The singleShot that will restart the daemon, unless its service is unknown. *)
ScheduleRestart(p) ==
    LET svc == projects[p].service
    IN  \/ /\ svc \in services
           /\ restarts[p][svc] < MaxRestarts
           /\ restarts' = [restarts EXCEPT ![p][svc] = @ + 1]
        \/ /\ svc \notin services
           /\ UNCHANGED restarts

OnInstanceFinished(p, abnormal) ==
    \/ /\ ~KeepsAlive(p)
       /\ UNCHANGED <<failures, suppressed, restarts>>
    \/ /\ KeepsAlive(p)
       /\ ~abnormal
       /\ failures' = [failures EXCEPT ![p] = 0]
       /\ UNCHANGED <<suppressed, restarts>>
    \/ /\ KeepsAlive(p)
       /\ abnormal
       /\ failures' = [failures EXCEPT ![p] = @ + 1]
       /\ \/ /\ CrashLoop(p)
             /\ suppressed' = suppressed \cup {p}
             /\ UNCHANGED restarts
          \/ /\ ~CrashLoop(p)
             /\ ScheduleRestart(p)
             /\ UNCHANGED suppressed

(* finished() in any state, or errorOccurred(FailedToStart) while starting: *)
(* the latter reports exit code -1 and a crash.                             *)
ProcessFinished(p, s, abnormal) ==
    /\ IsLive(inst, p, s)
    /\ inst' = Erase(inst, p, s)
    /\ OnInstanceFinished(p, abnormal)
    /\ UNCHANGED <<projects, services, timers, ticking, shuttingDown>>

ProcessEvent(p, s) ==
    \/ ProcessStarted(p, s)
    \/ StartTimeout(p, s)
    \/ RunTimeout(p, s)
    \/ \E abnormal \in BOOLEAN : ProcessFinished(p, s, abnormal)

-----------------------------------------------------------------------------
ProjectMaps == [Projects -> Configs \cup {NoProject}]

CallerStep ==
    \/ \E ps \in ProjectMaps, svcs \in SUBSET Services, K, ok \in SUBSET Projects :
          StartAll(ps, svcs, K, ok)
    \/ \E p \in Projects, c \in Configs, svcs \in SUBSET Services, ok \in SUBSET Projects :
          StartProject(p, c, svcs, ok)
    \/ \E P \in SUBSET Projects : StopProjects(P)
    \/ \E p \in Projects, c \in Configs, ok \in BOOLEAN : ResumeAndStart(p, c, ok)
    \/ \E p \in Projects, s \in Slots : TerminateInstance(p, s)
    \/ \E P \in SUBSET Projects : TerminateByProject(P)
    \/ Shutdown

TimerStep ==
    \E p \in Projects, svc \in Services :
        \/ FixedRateTick(p, svc)
        \/ \E ok \in BOOLEAN : RestartFires(p, svc, ok)

Next ==
    \/ CallerStep
    \/ TimerStep
    \/ \E p \in Projects, s \in Slots : ProcessEvent(p, s)

Spec == Init /\ [][Next]_vars

-----------------------------------------------------------------------------
(***************************************************************************)
(* A daemon is given up in time: while its restarts are not suppressed the *)
(* count of consecutive failures is below the limit of the configuration   *)
(* the engine now has, so a change of configuration never leaves a count   *)
(* that the check for a crash loop would step over.                        *)
(***************************************************************************)
FailuresBelowLimit ==
    \A p \in Projects :
        p \notin suppressed => failures[p] < projects[p].maxConsecutiveFailures

(***************************************************************************)
(* No timer runs that m_timers does not know: whatever sequence of start,  *)
(* stop and resume calls is made, a project has at most one running        *)
(* fixed-rate timer, so it is never triggered at twice its rate, and the   *)
(* next stop reaches the timer.                                            *)
(***************************************************************************)
NoOrphanTimer ==
    \A p \in Projects, v \in Services :
        ticking[p][v] = IF timers[p] = v THEN 1 ELSE 0

(***************************************************************************)
(* A fixed-rate timer belongs to an enabled and valid fixed_rate project,  *)
(* has captured the directory of the service the project names now, and    *)
(* is gone while the project is stopped.                                   *)
(***************************************************************************)
TimerServesItsProject ==
    \A p \in Projects : timers[p] # NoService =>
        /\ projects[p].type = "fixed_rate"
        /\ projects[p].enabled
        /\ projects[p].valid
        /\ projects[p].service = timers[p]
        /\ p \notin suppressed

\* In this step the scheduler, not the API, starts an instance of p.
ScheduledStart(p) ==
    \E s \in Slots :
        /\ ~IsLive(inst, p, s)
        /\ IsLive(inst', p, s)
        /\ inst'[p][s].origin # "api"

(***************************************************************************)
(* Once shutdown has begun the scheduler starts nothing, although startAll *)
(* and startProject may still be called and timers and restarts may still  *)
(* be pending (setShuttingDown comes before stopAll in shutdown()).        *)
(***************************************************************************)
ShutdownStartsNothing ==
    [][shuttingDown' => \A p \in Projects : ~ScheduledStart(p)]_vars

(***************************************************************************)
(* A project that was stopped, or given up after a crash loop, is not      *)
(* started by the scheduler until a call lifts the suppression: neither by *)
(* a tick nor by a restart timer that was already pending.                 *)
(***************************************************************************)
StoppedStaysDown ==
    [][\A p \in Projects : p \in suppressed /\ p \in suppressed' => ~ScheduledStart(p)]_vars
=============================================================================
