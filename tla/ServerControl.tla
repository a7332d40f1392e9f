--------------------------- MODULE ServerControl ---------------------------
(***************************************************************************)
(* ServerManager and the project and service handlers of ApiRouter         *)
(* (server_manager.cpp, http/api_router.cpp) on top of ScheduleEngine and  *)
(* the instance table: what clients, processes, timers and a shutdown do   *)
(* to one running stdiolink_server.                                        *)
(*                                                                         *)
(* There is one thread.  A handler that stops a project calls              *)
(* waitProjectFinished, which runs a nested event loop: until it returns,  *)
(* every other event, further HTTP requests included, is handled on top of *)
(* it on the C++ stack.  stack holds the handlers suspended in that loop;  *)
(* only the topmost can go on.  A handler whose project has no instance    *)
(* does not wait and is one step.                                          *)
(*                                                                         *)
(* Requests the code rejects (unknown project, operation in progress,      *)
(* invalid body, ...) and requests whose saveProject fails change nothing  *)
(* and are not steps.  Configuration data and schemas are left out: a      *)
(* project is valid iff its service is known.                              *)
(***************************************************************************)
EXTENDS ScheduleEngine, Sequences

CONSTANTS
    Submitted,      \* Submitted[p]: the configurations clients submit for p
    InitialMaps,    \* the project maps the server may find on disk when it starts
    Endpoints,      \* Endpoints[p]: the endpoints clients use on project p
    ServerEvents,   \* requests about services, changes of their files, a shutdown
    StartErrors,    \* whether startInstance may give up for other reasons than a
                    \* missing service directory
    MaxDepth        \* bound: handlers suspended in nested event loops

\* What clients may submit and loadProject may read; Configs also has what the
\* server itself makes of it by changing enabled and valid.
ValidConfigs == {c \in Configs : c.valid}

ASSUME ServerAssumption ==
    /\ \A c \in Configs, e, v \in BOOLEAN :
          [c EXCEPT !.enabled = e, !.valid = v] \in Configs
    /\ Submitted \in [Projects -> SUBSET ValidConfigs]
    /\ InitialMaps \subseteq [Projects -> ValidConfigs \cup {NoProject}]
    /\ StartErrors \in BOOLEAN
    /\ MaxDepth \in Nat

VARIABLES
    mgr,          \* ServerManager::m_projects
    mgrServices,  \* ServerManager::m_services
    disk,         \* projects/<id>/{config,param}.json as loadProject would read them
    serviceDirs,  \* the services whose directory exists
    inFlight,     \* ApiRouter::m_projectMutationsInFlight
    stack,        \* the suspended handlers, the topmost last
    phase,        \* the server process: "boot", "serving", "closing", "draining",
                  \* "exited"
    unsynced      \* history: projects for which a client was told that storage failed

\* vars are the variables of ScheduleEngine, the instance table included.
controlVars == <<mgr, mgrServices, disk, serviceDirs, inFlight, stack, phase, unsynced>>
serverVars == <<inst, projects, services, timers, ticking, failures, suppressed,
                shuttingDown, restarts, mgr, mgrServices, disk, serviceDirs, inFlight,
                stack, phase, unsynced>>

\* A handler suspended in waitProjectFinished, with the project it will install.
Frame ==
    [op : {"update", "delete", "reload", "disable"}, p : Projects, new : Project,
     wait : {"grace", "drain"}]

ServerTypeOK ==
    /\ TypeOK
    /\ mgr \in [Projects -> Project]
    /\ mgrServices \in SUBSET Services
    /\ disk \in [Projects -> Project]
    /\ serviceDirs \in SUBSET Services
    /\ inFlight \in SUBSET Projects
    /\ stack \in Seq(Frame)
    /\ phase \in {"boot", "serving", "closing", "draining", "exited"}
    /\ unsynced \in SUBSET Projects

(* ServerManager::initialize has loaded the services and the projects. *)
ServerInit ==
    /\ Init
    /\ mgr \in InitialMaps
    /\ mgrServices = Services
    /\ disk = mgr
    /\ serviceDirs = Services
    /\ inFlight = {}
    /\ stack = <<>>
    /\ phase = "boot"
    /\ unsynced = {}

-----------------------------------------------------------------------------
(* What the code sees. *)

Exists(p) == mgr[p] # NoProject
Idle(p) == instanceCount(inst, p) = 0

\* Requests are handled by the main loop, by any nested loop, and by the loop
\* of waitAllFinished while the server shuts down.
Listening == phase \in {"serving", "closing", "draining"}
Accepts(endpoint, p) == endpoint \in Endpoints[p] /\ Listening

\* validateProject(c, services)
Validated(c, svcs) == [c EXCEPT !.valid = c.service \in svcs]

\* What saveProject writes and loadProject reads back: valid is not stored and is
\* TRUE after a load.  (Schedule::toJson also drops the fields that the schedule
\* type does not use; nobody reads those.)
Stored(c) == [c EXCEPT !.valid = TRUE]

\* The projects for which startInstance gets past its early returns.
HasDir(ps) == {p \in Projects : ps[p].service \in serviceDirs}
StartOutcomes(ps) == IF StartErrors THEN SUBSET HasDir(ps) ELSE {HasDir(ps)}

\* ServerManager::startScheduling, after ps became the manager's map.
StartScheduling(ps, svcs, K) ==
    \E ok \in StartOutcomes(ps) : StartAll(ps, svcs, K, ok)

\* Limit on the instances of a project that handleProjectStart applies.
Limit(c) == IF c.type = "fixed_rate" THEN c.maxConcurrent ELSE 1

(* main(): startScheduling, then the server listens. *)
Boot ==
    /\ phase = "boot"
    /\ phase' = "serving"
    /\ StartScheduling(mgr, mgrServices, {})
    /\ UNCHANGED <<mgr, mgrServices, disk, serviceDirs, inFlight, stack, unsynced>>

-----------------------------------------------------------------------------
(* Project handlers that end without waiting. *)

handleProjectCreate(p, c) ==
    /\ Accepts("create", p)
    /\ ~Exists(p)
    /\ c.service \in mgrServices
    /\ mgr' = [mgr EXCEPT ![p] = c]
    /\ disk' = [disk EXCEPT ![p] = Stored(c)]
    /\ unsynced' = unsynced \ {p}
    /\ StartScheduling(mgr', mgrServices, {})
    /\ UNCHANGED <<mgrServices, serviceDirs, inFlight, stack, phase>>

\* Mutant: one instance more than the limit.
handleProjectStartOverLimit(p) ==
    /\ Accepts("start", p)
    /\ p \notin inFlight
    /\ mgr[p].valid
    /\ mgr[p].service \in mgrServices
    /\ instanceCount(inst, p) <= Limit(mgr[p])
    /\ \E ok \in StartOutcomes(mgr) : ResumeAndStart(p, mgr[p], p \in ok)
    /\ UNCHANGED controlVars

handleProjectStart(p) ==
    /\ Accepts("start", p)
    /\ p \notin inFlight
    /\ mgr[p].valid
    /\ mgr[p].service \in mgrServices
    /\ instanceCount(inst, p) < Limit(mgr[p])
    /\ \E ok \in StartOutcomes(mgr) : ResumeAndStart(p, mgr[p], p \in ok)
    /\ UNCHANGED controlVars

handleProjectStop(p) ==
    /\ Accepts("stop", p)
    /\ Exists(p)
    /\ p \notin inFlight
    /\ StopProjects({p})
    /\ UNCHANGED controlVars

(* handleProjectEnabled with enabled = true. *)
handleProjectEnable(p) ==
    /\ Accepts("enabled", p)
    /\ Exists(p)
    /\ p \notin inFlight
    /\ mgr' = [mgr EXCEPT ![p].enabled = TRUE]
    /\ disk' = [disk EXCEPT ![p] = Stored(mgr'[p])]
    /\ unsynced' = unsynced \ {p}
    /\ \E ok \in StartOutcomes(mgr') : StartProject(p, mgr'[p], mgrServices, ok)
    /\ UNCHANGED <<mgrServices, serviceDirs, inFlight, stack, phase>>

handleInstanceTerminate(p, s) ==
    /\ Accepts("terminate", p)
    /\ TerminateInstance(p, s)
    /\ UNCHANGED controlVars

-----------------------------------------------------------------------------
(* Project handlers that stop the project and wait for its instances. *)

(***************************************************************************)
(* The end of a handler whose project is idle.  stored is what storage     *)
(* holds by then; stopping is {p} when stopProject is part of this very    *)
(* step (the handler did not wait), {} when it was done before the wait.   *)
(* removeProject may fail, perhaps with config.json already gone.          *)
(***************************************************************************)
Complete(op, p, new, stored, stopping) ==
    \/ /\ op \in {"update", "reload"}
       /\ mgr' = [mgr EXCEPT ![p] = new]
       /\ disk' = stored
       /\ unsynced' = unsynced \ {p}
       /\ StartScheduling(mgr', mgrServices, {})
    \/ /\ op = "disable"
       /\ mgr' = [mgr EXCEPT ![p] = new]
       /\ disk' = stored
       /\ unsynced' = unsynced \ {p}
       /\ StopProjects(stopping)
    \/ /\ op = "delete"
       /\ mgr' = [mgr EXCEPT ![p] = NoProject]
       /\ disk' = [stored EXCEPT ![p] = NoProject]
       /\ unsynced' = unsynced \ {p}
       /\ StopProjects(stopping)
    \/ /\ op = "delete"
       /\ \E left \in {stored[p], NoProject} : disk' = [stored EXCEPT ![p] = left]
       /\ unsynced' = unsynced \cup {p}
       /\ UNCHANGED mgr
       /\ StartScheduling(mgr, mgrServices, {})

\* Mutant: storage is not rolled back.
GiveUpNoRollback(op, p) ==
    /\ op \in {"update", "disable", "delete", "reload"}
    /\ p \in Projects
    /\ UNCHANGED <<mgr, disk, unsynced>>
    /\ StartScheduling(mgr, mgrServices, {})

(***************************************************************************)
(* The end of a handler whose project still has instances: storage is      *)
(* rolled back if the handler had written to it (which may fail as well,   *)
(* and is then reported), scheduling resumes, the answer is 409.           *)
(***************************************************************************)
GiveUp(op, p) ==
    /\ \/ /\ op \in {"update", "disable"}
          /\ disk' = [disk EXCEPT ![p] = Stored(mgr[p])]
          /\ UNCHANGED unsynced
       \/ /\ op \in {"update", "disable"}
          /\ unsynced' = unsynced \cup {p}
          /\ UNCHANGED disk
       \/ /\ op \in {"delete", "reload"}
          /\ UNCHANGED <<disk, unsynced>>
    /\ UNCHANGED mgr
    /\ StartScheduling(mgr, mgrServices, {})

(* stopProjectAndWait and, when there is nothing to wait for, what follows. *)
StopAndWait(op, p, new, stored) ==
    \/ /\ Idle(p)
       /\ Complete(op, p, new, stored, {p})
       /\ UNCHANGED <<inFlight, stack>>
    \/ /\ ~Idle(p)
       /\ Len(stack) < MaxDepth
       /\ StopProjects({p})
       /\ disk' = stored
       /\ inFlight' = inFlight \cup {p}
       /\ stack' = Append(stack, [op |-> op, p |-> p, new |-> new, wait |-> "grace"])
       /\ UNCHANGED <<mgr, unsynced>>

handleProjectUpdate(p, c) ==
    /\ Accepts("update", p)
    /\ Exists(p)
    /\ p \notin inFlight
    /\ c.service \in mgrServices
    /\ StopAndWait("update", p, c, [disk EXCEPT ![p] = Stored(c)])
    /\ UNCHANGED <<mgrServices, serviceDirs, phase>>

handleProjectDelete(p) ==
    /\ Accepts("delete", p)
    /\ Exists(p)
    /\ p \notin inFlight
    /\ StopAndWait("delete", p, NoProject, disk)
    /\ UNCHANGED <<mgrServices, serviceDirs, phase>>

\* Mutant: an operation in progress on the project is not noticed.
handleProjectReloadUnguarded(p) ==
    /\ Accepts("reload", p)
    /\ disk[p] # NoProject
    /\ disk[p].service \in mgrServices
    /\ StopAndWait("reload", p, disk[p], disk)
    /\ UNCHANGED <<mgrServices, serviceDirs, phase>>

(* The project is read back from storage, known to the manager or not. *)
handleProjectReload(p) ==
    /\ Accepts("reload", p)
    /\ p \notin inFlight
    /\ disk[p] # NoProject
    /\ disk[p].service \in mgrServices
    /\ StopAndWait("reload", p, disk[p], disk)
    /\ UNCHANGED <<mgrServices, serviceDirs, phase>>

\* Mutant: the handler waits under an operation its end does not know.
handleProjectDisableMistagged(p) ==
    /\ Accepts("enabled", p)
    /\ Exists(p)
    /\ p \notin inFlight
    /\ LET updated == [mgr[p] EXCEPT !.enabled = FALSE]
       IN  StopAndWait("enabled", p, updated, [disk EXCEPT ![p] = Stored(updated)])
    /\ UNCHANGED <<mgrServices, serviceDirs, phase>>

(* handleProjectEnabled with enabled = false. *)
handleProjectDisable(p) ==
    /\ Accepts("enabled", p)
    /\ Exists(p)
    /\ p \notin inFlight
    /\ LET updated == [mgr[p] EXCEPT !.enabled = FALSE]
       IN  StopAndWait("disable", p, updated, [disk EXCEPT ![p] = Stored(updated)])
    /\ UNCHANGED <<mgrServices, serviceDirs, phase>>

-----------------------------------------------------------------------------
(* waitProjectFinished, in the topmost suspended handler. *)

Top == stack[Len(stack)]
\* Mutant: the project is not released.
PopKeepsProject ==
    /\ stack' = SubSeq(stack, 1, Len(stack) - 1)
    /\ UNCHANGED <<inFlight, mgrServices, serviceDirs, phase>>
Pop ==
    /\ stack' = SubSeq(stack, 1, Len(stack) - 1)
    /\ inFlight' = inFlight \ {Top.p}
    /\ UNCHANGED <<mgrServices, serviceDirs, phase>>

(* The loop finds the project idle (it looks only between two batches of events). *)
WaitSucceeds ==
    /\ stack # <<>>
    /\ Idle(Top.p)
    /\ Complete(Top.op, Top.p, Top.new, disk, {})
    /\ Pop

(* 5 s have passed: kill() once more, then drain for another second. *)
GraceExpires ==
    /\ stack # <<>>
    /\ Top.wait = "grace"
    /\ TerminateByProject({Top.p})
    /\ stack' = [stack EXCEPT ![Len(stack)].wait = "drain"]
    /\ UNCHANGED <<mgr, mgrServices, disk, serviceDirs, inFlight, phase, unsynced>>

WaitFails ==
    /\ stack # <<>>
    /\ Top.wait = "drain"
    /\ ~Idle(Top.p)
    /\ GiveUp(Top.op, Top.p)
    /\ Pop

-----------------------------------------------------------------------------
(* Services. *)

(* rescanServices with its three flags (POST /api/services/scan). *)
rescanServices(revalidate, restart, stopInvalid) ==
    LET ps == IF revalidate
              THEN [p \in Projects |-> IF Exists(p) THEN Validated(mgr[p], serviceDirs)
                                                    ELSE NoProject]
              ELSE mgr
        K  == IF revalidate /\ stopInvalid
              THEN {p \in Projects : Exists(p) /\ ~ps[p].valid}
              ELSE {}
    IN  /\ Listening /\ "scan" \in ServerEvents
        /\ mgrServices' = serviceDirs
        /\ mgr' = ps
        /\ \/ restart /\ StartScheduling(ps, serviceDirs, K)
           \/ ~restart /\ StopProjects(K)
        /\ UNCHANGED <<disk, serviceDirs, inFlight, stack, phase, unsynced>>

(* deleteService; removed tells whether removeRecursively succeeds. *)
deleteService(v, force, removed) ==
    LET users == {p \in Projects : Exists(p) /\ mgr[p].service = v}
    IN  /\ Listening /\ "delete_service" \in ServerEvents
        /\ v \in mgrServices
        /\ users = {} \/ force
        /\ mgr' = [p \in Projects |-> IF p \in users THEN [mgr[p] EXCEPT !.valid = FALSE]
                                                     ELSE mgr[p]]
        /\ StopProjects(users)
        /\ serviceDirs' = IF removed THEN serviceDirs \ {v} ELSE serviceDirs
        /\ mgrServices' = IF removed THEN mgrServices \ {v} ELSE mgrServices
        /\ UNCHANGED <<disk, inFlight, stack, phase, unsynced>>

createService(v) ==
    /\ Listening /\ "create_service" \in ServerEvents
    /\ v \notin mgrServices
    /\ v \notin serviceDirs
    /\ mgrServices' = mgrServices \cup {v}
    /\ serviceDirs' = serviceDirs \cup {v}
    /\ UNCHANGED vars
    /\ UNCHANGED <<mgr, disk, inFlight, stack, phase, unsynced>>

(* An operator adds or removes a service directory; a scan will notice. *)
ServiceDirChanges(v) ==
    /\ Listening /\ "files" \in ServerEvents
    /\ serviceDirs' = IF v \in serviceDirs THEN serviceDirs \ {v} ELSE serviceDirs \cup {v}
    /\ UNCHANGED vars
    /\ UNCHANGED <<mgr, mgrServices, disk, inFlight, stack, phase, unsynced>>

-----------------------------------------------------------------------------
(* Shutdown: aboutToQuit is emitted when the main loop has returned, so no *)
(* handler is suspended; its own wait serves requests again.               *)

\* Mutant: stopAll is forgotten.
ShutdownBeginsNoStop ==
    /\ "shutdown" \in ServerEvents
    /\ phase = "serving"
    /\ stack = <<>>
    /\ phase' = "closing"
    /\ shuttingDown' = TRUE
    /\ inst' = KillProjects(inst, Projects)
    /\ UNCHANGED <<projects, services, timers, ticking, failures, suppressed, restarts>>
    /\ UNCHANGED <<mgr, mgrServices, disk, serviceDirs, inFlight, stack, unsynced>>
ShutdownBegins ==
    /\ "shutdown" \in ServerEvents
    /\ phase = "serving"
    /\ stack = <<>>
    /\ phase' = "closing"
    /\ Shutdown
    /\ UNCHANGED <<mgr, mgrServices, disk, serviceDirs, inFlight, stack, unsynced>>

ShutdownGraceExpires ==
    /\ phase = "closing"
    /\ stack = <<>>
    /\ phase' = "draining"
    /\ TerminateByProject(Projects)
    /\ UNCHANGED <<mgr, mgrServices, disk, serviceDirs, inFlight, stack, unsynced>>

ServerExits ==
    /\ phase \in {"closing", "draining"}
    /\ stack = <<>>
    /\ phase = "draining" \/ \A p \in Projects : Idle(p)
    /\ phase' = "exited"
    /\ UNCHANGED vars
    /\ UNCHANGED <<mgr, mgrServices, disk, serviceDirs, inFlight, stack, unsynced>>

-----------------------------------------------------------------------------
(* Events of the engine and of the processes; none once the server is gone. *)

FixedRateTimer(p, svc) ==
    /\ phase # "exited"
    /\ svc \in serviceDirs
    /\ FixedRateTick(p, svc)
    /\ UNCHANGED controlVars

RestartTimer(p, svc) ==
    /\ phase # "exited"
    /\ \E ok \in BOOLEAN :
          /\ ok => svc \in serviceDirs
          /\ ~ok => StartErrors \/ svc \notin serviceDirs
          /\ RestartFires(p, svc, ok)
    /\ UNCHANGED controlVars

InstanceEvent(p, s) ==
    /\ phase # "exited"
    /\ ProcessEvent(p, s)
    /\ UNCHANGED controlVars

ProjectRequest(p) ==
    \/ \E c \in Submitted[p] : handleProjectCreate(p, c) \/ handleProjectUpdate(p, c)
    \/ handleProjectStart(p)
    \/ handleProjectStop(p)
    \/ handleProjectEnable(p)
    \/ handleProjectDisable(p)
    \/ handleProjectDelete(p)
    \/ handleProjectReload(p)
    \/ \E s \in Slots : handleInstanceTerminate(p, s)

ServiceRequest ==
    \/ \E revalidate, restart, stopInvalid \in BOOLEAN :
          rescanServices(revalidate, restart, stopInvalid)
    \/ \E v \in Services :
          \/ \E force, removed \in BOOLEAN : deleteService(v, force, removed)
          \/ createService(v)
          \/ ServiceDirChanges(v)

ServerNext ==
    \/ Boot
    \/ \E p \in Projects : ProjectRequest(p)
    \/ ServiceRequest
    \/ WaitSucceeds \/ GraceExpires \/ WaitFails
    \/ ShutdownBegins \/ ShutdownGraceExpires \/ ServerExits
    \/ \E p \in Projects, svc \in Services : FixedRateTimer(p, svc) \/ RestartTimer(p, svc)
    \/ \E p \in Projects, s \in Slots : InstanceEvent(p, s)

ServerSpec == ServerInit /\ [][ServerNext]_serverVars

(***************************************************************************)
(* Fairness.  Qt runs expired timers and the operating system ends killed  *)
(* processes (see InstanceManager).  waitProjectFinished looks at its      *)
(* condition and its clock after at most 100 ms of events, however many    *)
(* requests arrive: a handler that is topmost again and again goes on,     *)
(* which is strong fairness for the handler at each depth of the stack.    *)
(* Nothing says that a process exits by itself or that a request comes.    *)
(***************************************************************************)
WaitStep(d) == Len(stack) = d /\ (WaitSucceeds \/ GraceExpires \/ WaitFails)
KilledProcessEnds(p, s) ==
    /\ inst[p][s].killed
    /\ phase # "exited"
    /\ \E abnormal \in BOOLEAN : ProcessFinished(p, s, abnormal)
    /\ UNCHANGED controlVars
Fairness ==
    /\ \A d \in 1..MaxDepth : SF_serverVars(WaitStep(d))
    /\ \A p \in Projects, svc \in Services : WF_serverVars(RestartTimer(p, svc))
    /\ \A p \in Projects, s \in Slots : WF_serverVars(KilledProcessEnds(p, s))
FairSpec == ServerSpec /\ Fairness

-----------------------------------------------------------------------------
(***************************************************************************)
(* Handlers of one project never overlap: at most one suspended handler    *)
(* works on a project, and it is exactly the one recorded in               *)
(* m_projectMutationsInFlight, however requests nest and whichever way     *)
(* they end (server-lifecycle.md asks for mutual exclusion per project).   *)
(***************************************************************************)
MutationsExclusive ==
    /\ \A i, j \in DOMAIN stack : stack[i].p = stack[j].p => i = j
    /\ inFlight = {stack[i].p : i \in DOMAIN stack}

(***************************************************************************)
(* Storage and memory agree on every project that no handler is working    *)
(* on, unless a client was told that storage failed: an update or a        *)
(* disable that could not stop its project has rolled storage back, a      *)
(* deleted project is gone from both.                                      *)
(***************************************************************************)
DiskMatchesMemory ==
    \A p \in Projects \ (inFlight \cup unsynced) :
        disk[p] = IF Exists(p) THEN Stored(mgr[p]) ELSE NoProject

(***************************************************************************)
(* Whoever starts an instance of a project, the scheduler on its own copy  *)
(* of the project, a restart that was pending, or a client, leaves it with *)
(* no more instances than the configuration the manager has now allows.    *)
(* (The limit is not an invariant: a project created again while instances *)
(* of its deleted predecessor run may have more from the start; see        *)
(* DeletedHasNoInstance.)                                                  *)
(***************************************************************************)
StartsWithinLimit ==
    [][\A p \in Projects :
          /\ mgr'[p] # NoProject
          /\ instanceCount(inst', p) > instanceCount(inst, p)
          => instanceCount(inst', p) <= Limit(mgr'[p])]_serverVars

(* Every step of the server is a step of the engine under arbitrary callers. *)
ImplementsEngine == Spec

(***************************************************************************)
(* A handler that waits for its project ends, and releases the project for *)
(* other requests, even if requests keep being nested on top of it.        *)
(***************************************************************************)
MutationEnds ==
    \A p \in Projects : p \in inFlight ~> p \notin inFlight

(***************************************************************************)
(* A daemon whose last exit was a crash is started again, or given up, or  *)
(* stopped by someone: no interleaving of requests loses the restart.      *)
(***************************************************************************)
CrashedDaemonComesBack ==
    \A p \in Projects :
        failures[p] > 0 ~> \/ ~Idle(p)
                           \/ p \in suppressed
                           \/ failures[p] = 0
                           \/ phase = "exited"

(***************************************************************************)
(* The server leaves nothing behind that it started by itself: an instance *)
(* still there when it exits has been sent kill(), unless a client started *)
(* it while the server was shutting down.                                  *)
(***************************************************************************)
ExitLeavesNothingScheduled ==
    phase = "exited" =>
        \A p \in Projects, s \in Slots :
            IsLive(inst, p, s) => inst[p][s].killed \/ inst[p][s].origin = "api"

(***************************************************************************)
(* What the manual says of the schedule type manual: the scheduler never   *)
(* starts such a project.  (instance-and-schedule.md:76)                   *)
(***************************************************************************)
ManualNeverScheduled ==
    [][\A p \in Projects : ScheduledStart(p) => mgr'[p].type # "manual"]_serverVars

(***************************************************************************)
(* What the manual says of crash-loop suppression: a daemon given up after *)
(* maxConsecutiveFailures crashes stays down until someone deals with it.  *)
(* (instance-and-schedule.md:95-96)                                        *)
(***************************************************************************)
GivenUp(p) ==
    /\ p \in suppressed
    /\ failures[p] >= projects[p].maxConsecutiveFailures
CrashLoopStaysDown ==
    [][\A p \in Projects : GivenUp(p) /\ mgr'[p] = mgr[p] => ~ScheduledStart(p)]_serverVars

(***************************************************************************)
(* What the documentation says of delete: scheduling is stopped and the    *)
(* instances have exited before the project is removed, so a project that  *)
(* is gone has no instance.  (server-lifecycle.md:54)                      *)
(***************************************************************************)
DeletedHasNoInstance ==
    \A p \in Projects : ~Exists(p) => Idle(p)
=============================================================================
