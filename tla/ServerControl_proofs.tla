------------------------ MODULE ServerControl_proofs ------------------------
(***************************************************************************)
(* Proofs about ScheduleEngine, for any projects, slots, services and      *)
(* configurations and callers that call anything at any time; then, from   *)
(* its lemmas, about ServerControl, for any requests and any depth of      *)
(* nested event loops.                                                     *)
(***************************************************************************)
EXTENDS ServerControl, SequenceTheorems, FiniteSetTheorems, TLAPS

-----------------------------------------------------------------------------
(* ScheduleEngine *)

(***************************************************************************)
(* The three invariants need each other: that the count of running timers  *)
(* stays a natural number when one is stopped depends on NoOrphanTimer,    *)
(* and that giving up a daemon leaves no timer behind depends on           *)
(* TimerServesItsProject.                                                  *)
(***************************************************************************)
IInv ==
    /\ TypeOK
    /\ FailuresBelowLimit
    /\ NoOrphanTimer
    /\ TimerServesItsProject

-----------------------------------------------------------------------------
(* An absent entry, and one made by startInstance for any origin, is an entry. *)
LEMMA NewEntryTypes ==
    /\ NoInstance \in Instance
    /\ \A rt \in BOOLEAN, v \in Services \cup {NoService}, o \in Origins :
          NewInstance(rt, v, o) \in Instance
BY DEF NoInstance, Instance, NewInstance, Origins

(* The updates that the handlers make to an entry give an entry again. *)
LEMMA EntryTypes ==
    ASSUME NEW r \in Instance
    PROVE  /\ Kill(r) \in Instance
           /\ Started(r) \in Instance
           /\ StartTimedOut(r) \in Instance
           /\ WatchdogExpired(r) \in Instance
<1>1. Kill(r) \in Instance
    BY DEF Kill, Instance
<1>2. Started(r) \in Instance
    BY DEF Started, Instance
<1>3. StartTimedOut(r) \in Instance
    BY DEF StartTimedOut, Instance
<1>4. WatchdogExpired(r) \in Instance
    BY DEF WatchdogExpired, Instance
<1> QED
    BY <1>1, <1>2, <1>3, <1>4

(* Writing one entry of a table gives a table, whichever slot is written. *)
LEMMA WriteTypes ==
    ASSUME NEW t \in Tables, NEW p, NEW s, NEW r \in Instance
    PROVE  [t EXCEPT ![p][s] = r] \in Tables
BY DEF Tables

(* Killing the instances of some projects gives a table with the same entries. *)
LEMMA KillTypes ==
    ASSUME NEW t \in Tables, NEW P
    PROVE  /\ KillProjects(t, P) \in Tables
           /\ \A p \in Projects, s \in Slots :
                 IsLive(KillProjects(t, P), p, s) <=> IsLive(t, p, s)
<1>1. ASSUME NEW p \in Projects, NEW s \in Slots
      PROVE  /\ t[p][s] \in Instance
             /\ Kill(t[p][s]) \in Instance
             /\ Kill(t[p][s]).status = t[p][s].status
    <2>1. t[p][s] \in Instance
        BY DEF Tables
    <2> QED
        BY <2>1, EntryTypes DEF Kill, Instance
<1>2. KillProjects(t, P) \in Tables
    BY <1>1 DEF KillProjects, Tables
<1>3. ASSUME NEW p \in Projects, NEW s \in Slots
      PROVE  IsLive(KillProjects(t, P), p, s) <=> IsLive(t, p, s)
    BY <1>1 DEF KillProjects, IsLive
<1> QED
    BY <1>2, <1>3

(* Configurations clients submit, and the absent project, are projects. *)
LEMMA ProjectTypes ==
    /\ NoProject \in Project
    /\ \A c \in Configs : c \in Project
BY ConfigsAssumption DEF NoProject, Project

(* An instance started for a project goes into a table. *)
LEMMA StartTypes ==
    ASSUME NEW t \in Tables, NEW p, NEW c \in Project,
           NEW v \in Services \cup {NoService}, NEW o \in Origins
    PROVE  StartInstance(t, p, c, v, o) \in Tables
<1>1. c.runTimeout \in BOOLEAN
    BY DEF Project
<1>2. NewInstance(c.runTimeout, v, o) \in Instance
    BY <1>1, NewEntryTypes
<1> QED
    BY <1>2, WriteTypes DEF StartInstance, Emplace

(* startDaemon for some projects gives a table and leaves the others alone. *)
LEMMA StartDaemonsTypes ==
    ASSUME NEW t \in Tables, NEW P, NEW ps \in [Projects -> Project]
    PROVE  /\ StartDaemons(t, P, ps) \in Tables
           /\ \A p \in Projects : p \notin P => StartDaemons(t, P, ps)[p] = t[p]
<1>1. ASSUME NEW p \in Projects
      PROVE  StartInstance(t, p, ps[p], ps[p].service, "daemon") \in Tables
    BY StartTypes DEF Project, Origins
<1> QED
    BY <1>1 DEF StartDaemons, Tables

(* The timer a project is given is the one its configuration asks for. *)
LEMMA TimerForFacts ==
    ASSUME NEW c \in Project, NEW svcs \in SUBSET Services
    PROVE  /\ TimerFor(c, svcs) \in Services \cup {NoService}
           /\ TimerFor(c, svcs) # NoService =>
                 /\ c.type = "fixed_rate"
                 /\ c.enabled
                 /\ c.valid
                 /\ c.service = TimerFor(c, svcs)
BY DEF TimerFor, Schedulable, Project

(* Stopping the timer that m_timers knows and starting another is exact. *)
LEMMA RetimedFacts ==
    ASSUME NEW row \in [Services -> Nat],
           NEW old \in Services \cup {NoService},
           NEW new \in Services \cup {NoService},
           \A v \in Services : row[v] = IF old = v THEN 1 ELSE 0
    PROVE  /\ Retimed(row, old, new) \in [Services -> Nat]
           /\ \A v \in Services : Retimed(row, old, new)[v] = IF new = v THEN 1 ELSE 0
<1>1. ASSUME NEW v \in Services
      PROVE  Retimed(row, old, new)[v] = IF new = v THEN 1 ELSE 0
    BY DEF Retimed
<1>2. Retimed(row, old, new) = [v \in Services |-> IF new = v THEN 1 ELSE 0]
    BY <1>1 DEF Retimed
<1> QED
    BY <1>1, <1>2

-----------------------------------------------------------------------------
(* The engine starts with nothing. *)
LEMMA InitIInv == Init => IInv
<1> SUFFICES ASSUME Init PROVE IInv
    OBVIOUS
<1>1. inst \in Tables
    BY NewEntryTypes DEF Init, EmptyTable, Tables
<1>2. TypeOK
    BY <1>1, ProjectTypes DEF Init, TypeOK, NoFailures
<1>3. FailuresBelowLimit
    BY DEF Init, FailuresBelowLimit, NoFailures, NoProject
<1>4. NoOrphanTimer
    BY ConfigsAssumption DEF Init, NoOrphanTimer
<1>5. TimerServesItsProject
    BY DEF Init, TimerServesItsProject
<1> QED
    BY <1>2, <1>3, <1>4, <1>5 DEF IInv

(* startAll, with any maps and after any kills. *)
LEMMA StartAllIInv ==
    ASSUME IInv,
           NEW ps \in ProjectMaps, NEW svcs \in SUBSET Services, NEW K, NEW ok,
           StartAll(ps, svcs, K, ok)
    PROVE  IInv'
<1>1. ps \in [Projects -> Project]
    BY ProjectTypes DEF ProjectMaps
<1>2. inst' \in Tables
    BY <1>1, KillTypes, StartDaemonsTypes DEF StartAll, IInv, TypeOK
<1>3. ASSUME NEW p \in Projects
      PROVE  /\ timers'[p] = TimerFor(ps[p], svcs)
             /\ timers'[p] \in Services \cup {NoService}
             /\ ticking'[p] \in [Services -> Nat]
             /\ \A v \in Services : ticking'[p][v] = IF timers'[p] = v THEN 1 ELSE 0
    <2>1. /\ timers'[p] = TimerFor(ps[p], svcs)
          /\ ticking'[p] = Retimed(ticking[p], timers[p], timers'[p])
        BY DEF StartAll
    <2>2. timers'[p] \in Services \cup {NoService}
        BY <1>1, <2>1, TimerForFacts
    <2>3. /\ ticking[p] \in [Services -> Nat]
          /\ timers[p] \in Services \cup {NoService}
          /\ \A v \in Services : ticking[p][v] = IF timers[p] = v THEN 1 ELSE 0
        BY DEF IInv, TypeOK, NoOrphanTimer
    <2> DEFINE new == timers'[p]
    <2>4. new \in Services \cup {NoService}
        BY <2>2
    <2> HIDE DEF new
    <2>5. /\ Retimed(ticking[p], timers[p], new) \in [Services -> Nat]
          /\ \A v \in Services :
                Retimed(ticking[p], timers[p], new)[v] = IF new = v THEN 1 ELSE 0
        BY <2>3, <2>4, RetimedFacts
    <2> QED
        BY <2>1, <2>2, <2>5 DEF new
<1>4. TypeOK'
    <2>1. timers' \in [Projects -> Services \cup {NoService}]
        BY <1>3 DEF StartAll
    <2>2. ticking' \in [Projects -> [Services -> Nat]]
        BY <1>3 DEF StartAll
    <2> QED
        BY <1>1, <1>2, <2>1, <2>2 DEF StartAll, IInv, TypeOK, NoFailures
<1>5. FailuresBelowLimit'
    BY <1>1 DEF StartAll, FailuresBelowLimit, NoFailures, Project
<1>6. NoOrphanTimer'
    BY <1>3 DEF NoOrphanTimer
<1>7. TimerServesItsProject'
    BY <1>1, <1>3, TimerForFacts DEF StartAll, TimerServesItsProject
<1> QED
    BY <1>4, <1>5, <1>6, <1>7 DEF IInv

(* startProject, shutting down or not. *)
LEMMA StartProjectIInv ==
    ASSUME IInv,
           NEW p \in Projects, NEW c \in Configs, NEW svcs \in SUBSET Services, NEW ok,
           StartProject(p, c, svcs, ok)
    PROVE  IInv'
<1> DEFINE ps == [projects EXCEPT ![p] = c]
           new == IF shuttingDown THEN NoService ELSE TimerFor(c, svcs)
<1>1. c \in Project /\ ps \in [Projects -> Project]
    BY ProjectTypes DEF IInv, TypeOK
<1>2. inst' \in Tables
    BY <1>1, StartDaemonsTypes DEF StartProject, IInv, TypeOK
<1>3. /\ new \in Services \cup {NoService}
      /\ new # NoService =>
            c.type = "fixed_rate" /\ c.enabled /\ c.valid /\ c.service = new
    BY <1>1, TimerForFacts
<1> HIDE DEF new
<1>4. /\ timers' = [timers EXCEPT ![p] = new]
      /\ ticking' = [ticking EXCEPT ![p] = Retimed(ticking[p], timers[p], new)]
      /\ projects' = ps
      /\ services' = svcs
      /\ failures' = [failures EXCEPT ![p] = 0]
      /\ suppressed' = suppressed \ {p}
      /\ UNCHANGED <<shuttingDown, restarts>>
    BY DEF StartProject, new
<1>5. /\ Retimed(ticking[p], timers[p], new) \in [Services -> Nat]
      /\ \A v \in Services : Retimed(ticking[p], timers[p], new)[v] = IF new = v THEN 1 ELSE 0
    <2>1. /\ ticking[p] \in [Services -> Nat]
          /\ timers[p] \in Services \cup {NoService}
          /\ \A v \in Services : ticking[p][v] = IF timers[p] = v THEN 1 ELSE 0
        BY DEF IInv, TypeOK, NoOrphanTimer
    <2> QED
        BY <2>1, <1>3, RetimedFacts
<1>6. TypeOK'
    BY <1>1, <1>2, <1>3, <1>4, <1>5 DEF IInv, TypeOK
<1>7. FailuresBelowLimit'
    <2>1. c.maxConsecutiveFailures \in Nat \ {0}
        BY <1>1 DEF Project
    <2> QED
        BY <1>4, <2>1 DEF IInv, TypeOK, FailuresBelowLimit
<1>8. NoOrphanTimer'
    BY <1>3, <1>4, <1>5 DEF IInv, TypeOK, NoOrphanTimer
<1>9. TimerServesItsProject'
    BY <1>3, <1>4 DEF IInv, TypeOK, TimerServesItsProject
<1> QED
    BY <1>6, <1>7, <1>8, <1>9 DEF IInv

(***************************************************************************)
(* Stopping the timers of some projects: what stopProject and stopAll do   *)
(* to m_timers and to the timers that run.                                 *)
(***************************************************************************)
LEMMA StopTimersKeeps ==
    ASSUME IInv, NEW P \in SUBSET Projects,
           timers' = [p \in Projects |-> IF p \in P THEN NoService ELSE timers[p]],
           ticking' = [p \in Projects |->
                          IF p \in P THEN Retimed(ticking[p], timers[p], NoService)
                                     ELSE ticking[p]]
    PROVE  /\ timers' \in [Projects -> Services \cup {NoService}]
           /\ ticking' \in [Projects -> [Services -> Nat]]
           /\ NoOrphanTimer'
<1>1. ASSUME NEW p \in Projects
      PROVE  /\ timers'[p] \in Services \cup {NoService}
             /\ ticking'[p] \in [Services -> Nat]
             /\ \A v \in Services : ticking'[p][v] = IF timers'[p] = v THEN 1 ELSE 0
    <2>1. /\ ticking[p] \in [Services -> Nat]
          /\ timers[p] \in Services \cup {NoService}
          /\ \A v \in Services : ticking[p][v] = IF timers[p] = v THEN 1 ELSE 0
        BY DEF IInv, TypeOK, NoOrphanTimer
    <2>2. CASE p \in P
        <3>1. /\ Retimed(ticking[p], timers[p], NoService) \in [Services -> Nat]
              /\ \A v \in Services : Retimed(ticking[p], timers[p], NoService)[v]
                                      = IF NoService = v THEN 1 ELSE 0
            BY <2>1, RetimedFacts
        <3> QED
            BY <2>2, <3>1
    <2>3. CASE p \notin P
        BY <2>1, <2>3
    <2> QED
        BY <2>2, <2>3
<1> QED
    BY <1>1 DEF NoOrphanTimer

(* stopProject with terminateByProject, for some projects. *)
LEMMA StopProjectsIInv ==
    ASSUME IInv, NEW P \in SUBSET Projects, StopProjects(P)
    PROVE  IInv'
<1>1. /\ timers' \in [Projects -> Services \cup {NoService}]
      /\ ticking' \in [Projects -> [Services -> Nat]]
      /\ NoOrphanTimer'
    BY StopTimersKeeps DEF StopProjects
<1>2. inst' \in Tables
    BY KillTypes DEF StopProjects, IInv, TypeOK
<1>3. TypeOK'
    BY <1>1, <1>2 DEF StopProjects, IInv, TypeOK
<1>4. FailuresBelowLimit'
    BY DEF StopProjects, IInv, FailuresBelowLimit
<1>5. TimerServesItsProject'
    BY DEF StopProjects, IInv, TimerServesItsProject
<1> QED
    BY <1>1, <1>3, <1>4, <1>5 DEF IInv

(* shutdown: stopAll and terminateAll. *)
LEMMA ShutdownIInv ==
    ASSUME IInv, Shutdown
    PROVE  IInv'
<1>1. /\ timers' = [p \in Projects |-> IF p \in Projects THEN NoService ELSE timers[p]]
      /\ ticking' = [p \in Projects |->
                        IF p \in Projects THEN Retimed(ticking[p], timers[p], NoService)
                                          ELSE ticking[p]]
    BY DEF Shutdown
<1>2. /\ timers' \in [Projects -> Services \cup {NoService}]
      /\ ticking' \in [Projects -> [Services -> Nat]]
      /\ NoOrphanTimer'
    BY <1>1, StopTimersKeeps
<1>3. inst' \in Tables
    BY KillTypes DEF Shutdown, IInv, TypeOK
<1>4. TypeOK'
    BY <1>2, <1>3 DEF Shutdown, IInv, TypeOK, NoFailures
<1>5. FailuresBelowLimit'
    BY DEF Shutdown, IInv, TypeOK, Project, FailuresBelowLimit, NoFailures
<1>6. TimerServesItsProject'
    BY DEF Shutdown, TimerServesItsProject
<1> QED
    BY <1>2, <1>4, <1>5, <1>6 DEF IInv

(* resumeProject and startInstance. *)
LEMMA ResumeIInv ==
    ASSUME IInv,
           NEW p \in Projects, NEW c \in Configs, NEW ok, ResumeAndStart(p, c, ok)
    PROVE  IInv'
<1>1. c \in Project /\ c.service \in Services \cup {NoService}
    BY ProjectTypes DEF Project
<1>2. inst' \in Tables
    BY <1>1, StartTypes DEF ResumeAndStart, IInv, TypeOK, Origins
<1>3. TypeOK'
    BY <1>2 DEF ResumeAndStart, IInv, TypeOK
<1>4. FailuresBelowLimit'
    BY DEF ResumeAndStart, IInv, TypeOK, Project, FailuresBelowLimit
<1>5. NoOrphanTimer' /\ TimerServesItsProject'
    BY DEF ResumeAndStart, IInv, NoOrphanTimer, TimerServesItsProject
<1> QED
    BY <1>3, <1>4, <1>5 DEF IInv

(* A step that changes only the table keeps the invariant if it is a table. *)
LEMMA TableOnlyIInv ==
    ASSUME IInv, inst' \in Tables, UNCHANGED engineVars
    PROVE  IInv'
BY DEF IInv, TypeOK, FailuresBelowLimit, NoOrphanTimer, TimerServesItsProject, engineVars

(* A restart timer that fires, whether it starts the daemon or not. *)
LEMMA RestartIInv ==
    ASSUME IInv, NEW p \in Projects, NEW v \in Services, NEW ok, RestartFires(p, v, ok)
    PROVE  IInv'
<1>1. inst' \in Tables
    <2>1. StartInstance(inst, p, projects[p], v, "daemon") \in Tables
        BY StartTypes DEF IInv, TypeOK, Origins
    <2> QED
        BY <2>1 DEF RestartFires, IInv, TypeOK
<1>2. restarts' \in [Projects -> [Services -> Nat]]
    BY DEF RestartFires, IInv, TypeOK
<1> QED
    BY <1>1, <1>2 DEF RestartFires, IInv, TypeOK, FailuresBelowLimit, NoOrphanTimer,
                      TimerServesItsProject

(***************************************************************************)
(* onInstanceFinished: a crash is counted below the limit or the daemon is *)
(* given up, and a daemon has no fixed-rate timer.                         *)
(***************************************************************************)
LEMMA FinishedIInv ==
    ASSUME IInv, NEW p \in Projects, NEW s \in Slots, NEW abnormal \in BOOLEAN,
           ProcessFinished(p, s, abnormal)
    PROVE  IInv'
<1>1. inst' \in Tables
    BY WriteTypes, NewEntryTypes DEF ProcessFinished, Erase, IInv, TypeOK
<1>2. UNCHANGED <<projects, services, timers, ticking, shuttingDown>>
    BY DEF ProcessFinished
<1>3. /\ failures' \in [Projects -> Nat]
      /\ suppressed' \in SUBSET Projects
      /\ restarts' \in [Projects -> [Services -> Nat]]
    <2>1. \/ failures' = failures
          \/ failures' = [failures EXCEPT ![p] = 0]
          \/ failures' = [failures EXCEPT ![p] = failures[p] + 1]
        BY DEF ProcessFinished, OnInstanceFinished
    <2>2. suppressed' = suppressed \/ suppressed' = suppressed \cup {p}
        BY DEF ProcessFinished, OnInstanceFinished
    <2>3. restarts' = restarts \/ ScheduleRestart(p)
        BY DEF ProcessFinished, OnInstanceFinished
    <2>4. failures' \in [Projects -> Nat]
        BY <2>1 DEF IInv, TypeOK
    <2>5. restarts' \in [Projects -> [Services -> Nat]]
        <3>1. ASSUME NEW v \in Services, restarts' = [restarts EXCEPT ![p][v] = @ + 1]
              PROVE  restarts' \in [Projects -> [Services -> Nat]]
            BY <3>1 DEF IInv, TypeOK
        <3>2. services \subseteq Services /\ restarts \in [Projects -> [Services -> Nat]]
            BY DEF IInv, TypeOK
        <3> QED
            BY <2>3, <3>1, <3>2 DEF ScheduleRestart
    <2> QED
        BY <2>2, <2>4, <2>5 DEF IInv, TypeOK
<1>4. TypeOK'
    BY <1>1, <1>2, <1>3 DEF IInv, TypeOK
<1>5. FailuresBelowLimit'
    <2>1. /\ failures \in [Projects -> Nat]
          /\ \A q \in Projects : projects[q].maxConsecutiveFailures \in Nat \ {0}
        BY DEF IInv, TypeOK, Project
    <2> QED
        BY <1>2, <2>1 DEF ProcessFinished, OnInstanceFinished, CrashLoop, IInv,
                          FailuresBelowLimit
<1>6. NoOrphanTimer'
    BY <1>2 DEF IInv, NoOrphanTimer
<1>7. TimerServesItsProject'
    BY <1>2 DEF ProcessFinished, OnInstanceFinished, KeepsAlive, IInv, TimerServesItsProject
<1> QED
    BY <1>4, <1>5, <1>6, <1>7 DEF IInv

(* Events of one process. *)
LEMMA ProcessEventIInv ==
    ASSUME IInv, NEW p \in Projects, NEW s \in Slots, ProcessEvent(p, s)
    PROVE  IInv'
<1>1. inst \in Tables /\ inst[p][s] \in Instance
    BY DEF IInv, TypeOK, Tables
<1>2. CASE ProcessStarted(p, s)
    BY <1>1, <1>2, EntryTypes, WriteTypes, TableOnlyIInv DEF ProcessStarted
<1>3. CASE StartTimeout(p, s)
    BY <1>1, <1>3, EntryTypes, WriteTypes, TableOnlyIInv DEF StartTimeout
<1>4. CASE RunTimeout(p, s)
    BY <1>1, <1>4, EntryTypes, WriteTypes, TableOnlyIInv DEF RunTimeout
<1>5. CASE \E abnormal \in BOOLEAN : ProcessFinished(p, s, abnormal)
    BY <1>5, FinishedIInv
<1> QED
    BY <1>2, <1>3, <1>4, <1>5 DEF ProcessEvent

(* Calls of the engine's methods and of the instance manager's. *)
LEMMA CallerIInv ==
    ASSUME IInv, CallerStep
    PROVE  IInv'
<1>1. ASSUME NEW p \in Projects, NEW s \in Slots, TerminateInstance(p, s)
      PROVE  IInv'
    <2>1. inst \in Tables /\ inst[p][s] \in Instance
        BY DEF IInv, TypeOK, Tables
    <2> QED
        BY <1>1, <2>1, EntryTypes, WriteTypes, TableOnlyIInv DEF TerminateInstance
<1>2. ASSUME NEW P \in SUBSET Projects, TerminateByProject(P)
      PROVE  IInv'
    BY <1>2, KillTypes, TableOnlyIInv DEF TerminateByProject, IInv, TypeOK
<1>3. CASE \E ps \in ProjectMaps, svcs \in SUBSET Services, K, ok \in SUBSET Projects :
              StartAll(ps, svcs, K, ok)
    BY <1>3, StartAllIInv
<1>4. CASE \E p \in Projects, c \in Configs, svcs \in SUBSET Services,
              ok \in SUBSET Projects : StartProject(p, c, svcs, ok)
    BY <1>4, StartProjectIInv
<1>5. CASE \E p \in Projects, c \in Configs, ok \in BOOLEAN : ResumeAndStart(p, c, ok)
    BY <1>5, ResumeIInv
<1> QED
    BY <1>1, <1>2, <1>3, <1>4, <1>5, StopProjectsIInv, ShutdownIInv DEF CallerStep

(* A tick that starts an instance, or a restart. *)
LEMMA TimerIInv ==
    ASSUME IInv, TimerStep
    PROVE  IInv'
<1>1. ASSUME NEW p \in Projects, NEW v \in Services, FixedRateTick(p, v)
      PROVE  IInv'
    <2>1. inst \in Tables /\ projects[p] \in Project
        BY DEF IInv, TypeOK
    <2>2. inst' \in Tables
        BY <1>1, <2>1, StartTypes DEF FixedRateTick, Origins
    <2> QED
        BY <1>1, <2>2, TableOnlyIInv DEF FixedRateTick
<1> QED
    BY <1>1, RestartIInv DEF TimerStep

(* Every step takes a state of the invariant to one. *)
LEMMA NextIInv == IInv /\ [Next]_vars => IInv'
<1> SUFFICES ASSUME IInv, [Next]_vars PROVE IInv'
    OBVIOUS
<1>1. CASE UNCHANGED vars
    <2>1. inst' \in Tables /\ UNCHANGED engineVars
        BY <1>1 DEF vars, engineVars, IInv, TypeOK
    <2> QED
        BY <2>1, TableOnlyIInv
<1> QED
    BY <1>1, CallerIInv, TimerIInv, ProcessEventIInv DEF Next

(* IInv is an invariant. *)
LEMMA Invariance == Spec => []IInv
BY InitIInv, NextIInv, PTL DEF Spec

-----------------------------------------------------------------------------
(***************************************************************************)
(* The state of the engine keeps its types in every run.  In particular no *)
(* timer is stopped that does not run (Retimed never goes below zero).     *)
(***************************************************************************)
THEOREM TypeCorrect == Spec => []TypeOK
<1>1. IInv => TypeOK
    BY DEF IInv
<1> QED
    BY <1>1, Invariance, PTL

(***************************************************************************)
(* A crash loop is noticed: a daemon whose restarts go on has failed fewer *)
(* times than its present configuration allows, however often callers have *)
(* changed the configuration, stopped or resumed the project.              *)
(***************************************************************************)
THEOREM CrashLoopsEnd == Spec => []FailuresBelowLimit
<1>1. IInv => FailuresBelowLimit
    BY DEF IInv
<1> QED
    BY <1>1, Invariance, PTL

(***************************************************************************)
(* The timers that run are exactly those of m_timers: no sequence of calls *)
(* leaves a timer that ticks and that no stop can reach.                   *)
(***************************************************************************)
THEOREM TimersAreKnown == Spec => []NoOrphanTimer
<1>1. IInv => NoOrphanTimer
    BY DEF IInv
<1> QED
    BY <1>1, Invariance, PTL

(***************************************************************************)
(* A timer belongs to an enabled, valid and not stopped fixed_rate project *)
(* and captured the directory of the service the project has now.          *)
(***************************************************************************)
THEOREM TimersAreCurrent == Spec => []TimerServesItsProject
<1>1. IInv => TimerServesItsProject
    BY DEF IInv
<1> QED
    BY <1>1, Invariance, PTL

-----------------------------------------------------------------------------
(* Steps that start nothing for a project: no entry of it appears. *)
LEMMA NoNewEntry ==
    ASSUME NEW p \in Projects,
           \A s \in Slots : IsLive(inst', p, s) => IsLive(inst, p, s)
    PROVE  ~ScheduledStart(p)
BY DEF ScheduledStart

(* A change of one entry that is there already is no start. *)
LEMMA UpdateStartsNothing ==
    ASSUME TypeOK, NEW p \in Projects, NEW s \in Slots, NEW r,
           IsLive(inst, p, s), inst' = [inst EXCEPT ![p][s] = r],
           NEW q \in Projects
    PROVE  ~ScheduledStart(q)
BY DEF TypeOK, Tables, ScheduledStart, IsLive

(* kill() is no start. *)
LEMMA KillStartsNothing ==
    ASSUME TypeOK, NEW P, inst' = KillProjects(inst, P), NEW q \in Projects
    PROVE  ~ScheduledStart(q)
BY KillTypes, NoNewEntry DEF TypeOK

(* startInstance for one project adds no entry to another, and none of the *)
(* scheduler's if the API asked for it.                                    *)
LEMMA StartStartsOne ==
    ASSUME TypeOK, NEW p \in Projects, NEW c, NEW v, NEW o,
           inst' = StartInstance(inst, p, c, v, o),
           NEW q \in Projects, q # p \/ o = "api"
    PROVE  ~ScheduledStart(q)
<1> DEFINE x == CHOOSE y \in FreeSlots(inst, p) : TRUE
           new == NewInstance(c.runTimeout, v, o)
<1>1. inst' = [inst EXCEPT ![p][x] = new]
    BY DEF StartInstance, Emplace
<1>2. new.origin = o
    BY DEF NewInstance
<1> HIDE DEF x, new
<1> QED
    BY <1>1, <1>2 DEF TypeOK, Tables, ScheduledStart, IsLive

(***************************************************************************)
(* No step starts an instance of q for the scheduler while the server is   *)
(* shutting down, or while q is and stays suppressed.                      *)
(***************************************************************************)
LEMMA NextStartsNothing ==
    ASSUME IInv, [Next]_vars, NEW q \in Projects,
           shuttingDown' \/ (q \in suppressed /\ q \in suppressed')
    PROVE  ~ScheduledStart(q)
<1>1. TypeOK
    BY DEF IInv
<1>2. ASSUME NEW t \in Tables, NEW D, NEW ps \in [Projects -> Project],
             \A s \in Slots : IsLive(t, q, s) <=> IsLive(inst, q, s),
             inst' = StartDaemons(t, D, ps), q \notin D
      PROVE  ~ScheduledStart(q)
    <2>1. inst'[q] = t[q]
        BY <1>2, StartDaemonsTypes
    <2> QED
        BY <1>2, <2>1, NoNewEntry DEF IsLive
<1>3. ASSUME NEW ps \in ProjectMaps, NEW svcs \in SUBSET Services,
             NEW K \in SUBSET Projects, NEW ok \in SUBSET Projects,
             StartAll(ps, svcs, K, ok)
      PROVE  ~ScheduledStart(q)
    <2> DEFINE killed == KillProjects(inst, K)
               D == DaemonsDue(killed, ps, svcs) \cap ok
    <2>1. ps \in [Projects -> Project]
        BY ProjectTypes DEF ProjectMaps
    <2>2. killed \in Tables /\ \A s \in Slots : IsLive(killed, q, s) <=> IsLive(inst, q, s)
        BY <1>1, KillTypes DEF TypeOK
    <2>3. shuttingDown
        BY <1>3 DEF StartAll
    <2>4. inst' = StartDaemons(killed, D, ps) /\ q \notin D
        BY <1>3, <2>3 DEF StartAll, DaemonsDue
    <2> HIDE DEF killed, D
    <2> QED
        BY <1>2, <2>1, <2>2, <2>4
<1>4. ASSUME NEW p \in Projects, NEW c \in Configs, NEW svcs \in SUBSET Services,
             NEW ok \in SUBSET Projects, StartProject(p, c, svcs, ok)
      PROVE  ~ScheduledStart(q)
    <2> DEFINE ps == [projects EXCEPT ![p] = c]
               D == DaemonsDue(inst, ps, svcs) \cap ok \cap {p}
    <2>1. ps \in [Projects -> Project]
        BY <1>1, ProjectTypes DEF TypeOK
    <2>2. shuttingDown \/ q # p
        BY <1>4 DEF StartProject
    <2>3. inst' = StartDaemons(inst, D, ps) /\ q \notin D
        BY <1>4, <2>2 DEF StartProject, DaemonsDue
    <2> HIDE DEF ps, D
    <2> QED
        BY <1>1, <1>2, <2>1, <2>3 DEF TypeOK
<1>5. ASSUME NEW P \in SUBSET Projects,
             StopProjects(P) \/ TerminateByProject(P) \/ Shutdown
      PROVE  ~ScheduledStart(q)
    BY <1>1, <1>5, KillStartsNothing DEF StopProjects, TerminateByProject, Shutdown
<1>6. ASSUME NEW p \in Projects, NEW c \in Configs, NEW ok \in BOOLEAN,
             ResumeAndStart(p, c, ok)
      PROVE  ~ScheduledStart(q)
    <2>1. CASE inst' = inst
        BY <2>1, NoNewEntry
    <2>2. CASE inst' = StartInstance(inst, p, c, c.service, "api")
        BY <1>1, <2>2, StartStartsOne
    <2> QED
        BY <1>6, <2>1, <2>2 DEF ResumeAndStart
<1>7. ASSUME NEW p \in Projects, NEW s \in Slots, TerminateInstance(p, s)
      PROVE  ~ScheduledStart(q)
    BY <1>1, <1>7, UpdateStartsNothing DEF TerminateInstance
<1>8. ASSUME NEW p \in Projects, NEW v \in Services, FixedRateTick(p, v)
      PROVE  ~ScheduledStart(q)
    <2>1. ~shuttingDown' /\ p \notin suppressed
        <3>1. ticking[p][v] > 0 /\ v # NoService
            BY <1>8, ConfigsAssumption DEF FixedRateTick
        <3>2. timers[p] = v
            BY <3>1 DEF IInv, NoOrphanTimer
        <3> QED
            BY <1>8, <3>1, <3>2 DEF IInv, TimerServesItsProject, FixedRateTick, engineVars
    <2>2. q # p
        BY <2>1
    <2> QED
        BY <1>1, <1>8, <2>2, StartStartsOne DEF FixedRateTick
<1>9. ASSUME NEW p \in Projects, NEW v \in Services, NEW ok \in BOOLEAN,
             RestartFires(p, v, ok)
      PROVE  ~ScheduledStart(q)
    <2>1. CASE inst' = inst
        BY <2>1, NoNewEntry
    <2>2. CASE inst' # inst
        <3>1. /\ inst' = StartInstance(inst, p, projects[p], v, "daemon")
              /\ ~shuttingDown'
              /\ p \notin suppressed
            BY <1>9, <2>2 DEF RestartFires
        <3> QED
            BY <1>1, <3>1, StartStartsOne
    <2> QED
        BY <2>1, <2>2
<1>10. ASSUME NEW p \in Projects, NEW s \in Slots, ProcessEvent(p, s)
       PROVE  ~ScheduledStart(q)
    <2>1. CASE ProcessStarted(p, s)
        BY <1>1, <2>1, UpdateStartsNothing DEF ProcessStarted, IsLive
    <2>2. CASE StartTimeout(p, s)
        BY <1>1, <2>2, UpdateStartsNothing DEF StartTimeout, StartTimerPending, IsLive
    <2>3. CASE \E abnormal \in BOOLEAN : ProcessFinished(p, s, abnormal)
        BY <1>1, <2>3, UpdateStartsNothing DEF ProcessFinished, Erase
    <2>4. CASE RunTimeout(p, s)
        <3>1. inst[p][s] \in Instance
            BY <1>1 DEF TypeOK, Tables
        <3>2. WatchdogExpired(inst[p][s]).status = inst[p][s].status
            BY <3>1 DEF WatchdogExpired, Instance
        <3>3. \A x \in Slots : inst'[q][x].status = inst[q][x].status
            BY <1>1, <2>4, <3>2 DEF RunTimeout, TypeOK, Tables
        <3> QED
            BY <3>3, NoNewEntry DEF IsLive
    <2> QED
        BY <1>10, <2>1, <2>2, <2>3, <2>4 DEF ProcessEvent
<1>11. CASE UNCHANGED vars
    BY <1>11, NoNewEntry DEF vars
<1> QED
    BY <1>3, <1>4, <1>5, <1>6, <1>7, <1>8, <1>9, <1>10, <1>11
       DEF Next, CallerStep, TimerStep

(***************************************************************************)
(* After shutdown has begun no step starts an instance for the scheduler:  *)
(* calls of startAll and startProject, ticks and pending restarts that     *)
(* come later are all without effect on the table.                         *)
(***************************************************************************)
THEOREM NothingAfterShutdown == Spec => ShutdownStartsNothing
<1>1. IInv /\ [Next]_vars =>
          [shuttingDown' => \A p \in Projects : ~ScheduledStart(p)]_vars
    BY NextStartsNothing
<1> QED
    BY <1>1, Invariance, PTL DEF Spec, ShutdownStartsNothing

(***************************************************************************)
(* While a project is suppressed, because it was stopped or because its    *)
(* daemon was given up, no tick and no restart that was pending starts it. *)
(***************************************************************************)
THEOREM NothingWhileStopped == Spec => StoppedStaysDown
<1>1. IInv /\ [Next]_vars =>
          [\A p \in Projects :
              p \in suppressed /\ p \in suppressed' => ~ScheduledStart(p)]_vars
    BY NextStartsNothing
<1> QED
    BY <1>1, Invariance, PTL DEF Spec, StoppedStaysDown

-----------------------------------------------------------------------------
(* ServerControl *)

\* What a key of m_projects may hold.
Held == Configs \cup {NoProject}

\* A suspended handler installs a configuration, or nothing.
HeldFrame ==
    [op : {"update", "delete", "reload", "disable"}, p : Projects, new : Held,
     wait : {"grace", "drain"}]

(***************************************************************************)
(* The types of the control state, narrower than ServerTypeOK: the maps    *)
(* hold configurations that Configs has.  The engine's steps depend on it. *)
(***************************************************************************)
ControlTypeOK ==
    /\ mgr \in [Projects -> Held]
    /\ mgrServices \in SUBSET Services
    /\ disk \in [Projects -> Held]
    /\ serviceDirs \in SUBSET Services
    /\ inFlight \in SUBSET Projects
    /\ stack \in Seq(HeldFrame)
    /\ phase \in {"boot", "serving", "closing", "draining", "exited"}
    /\ unsynced \in SUBSET Projects

(* A suspended handler works on a project that exists. *)
HandlersHaveProjects == \A i \in DOMAIN stack : Exists(stack[i].p)

(***************************************************************************)
(* What storage holds for the project of a suspended handler: an update or *)
(* a disable has written what it will install; a reload will install what  *)
(* it has read; and a reload or a delete that gives up leaves storage as   *)
(* it is, so it must agree with the manager all the while.  A disable does *)
(* not change the limit on instances.                                      *)
(***************************************************************************)
HandlerStorage(f) ==
    /\ f.op \in {"update", "disable"} => f.new # NoProject /\ disk[f.p] = Stored(f.new)
    /\ f.op = "reload" => f.new # NoProject /\ f.new = disk[f.p]
    /\ f.op \in {"reload", "delete"} => f.p \in unsynced \/ disk[f.p] = Stored(mgr[f.p])
    /\ f.op = "disable" => Limit(f.new) = Limit(mgr[f.p])

(***************************************************************************)
(* DiskMatchesMemory says nothing of the projects handlers work on; this   *)
(* does, for the moment at which they end.                                 *)
(***************************************************************************)
StorageInv ==
    /\ \A p \in Projects : disk[p] # NoProject => disk[p].valid
    /\ \A p \in Projects : ~Exists(p) => disk[p] = NoProject
    /\ DiskMatchesMemory
    /\ HandlersHaveProjects
    /\ \A i \in DOMAIN stack : HandlerStorage(stack[i])

-----------------------------------------------------------------------------
(* Configurations are told from an absent project, and the changes that the *)
(* server makes to one give another.                                        *)
LEMMA ConfigFacts ==
    /\ NoProject \notin Configs
    /\ ~NoProject.valid
    /\ \A c \in Configs : c \in Project
    /\ \A c \in Configs, e, v \in BOOLEAN :
          [c EXCEPT !.enabled = e] \in Configs /\ [c EXCEPT !.valid = v] \in Configs
<1>1. NoProject \notin Configs /\ ~NoProject.valid /\ \A c \in Configs : c \in Project
    BY ConfigsAssumption DEF NoProject
<1>2. ASSUME NEW c \in Configs, NEW e \in BOOLEAN, NEW v \in BOOLEAN
      PROVE  [c EXCEPT !.enabled = e] \in Configs /\ [c EXCEPT !.valid = v] \in Configs
    <2>1. c \in Project
        BY <1>1
    <2>2. /\ [c EXCEPT !.enabled = e] = [c EXCEPT !.enabled = e, !.valid = c.valid]
          /\ [c EXCEPT !.valid = v] = [c EXCEPT !.enabled = c.enabled, !.valid = v]
        BY <2>1 DEF Project
    <2>3. c.valid \in BOOLEAN /\ c.enabled \in BOOLEAN
        BY <2>1 DEF Project
    <2>4. /\ [c EXCEPT !.enabled = e, !.valid = c.valid] \in Configs
          /\ [c EXCEPT !.enabled = c.enabled, !.valid = v] \in Configs
        BY <2>3, ServerAssumption
    <2> QED
        BY <2>2, <2>4
<1> QED
    BY <1>1, <1>2

(* What is written to storage is a configuration, and valid is all that is lost. *)
LEMMA StoredFacts ==
    /\ \A c \in Configs : Stored(c) \in Configs /\ Stored(c).valid
    /\ \A c \in Configs, v \in BOOLEAN : Stored([c EXCEPT !.valid = v]) = Stored(c)
    /\ \A c \in Configs : c.valid => Stored(c) = c
<1>1. ASSUME NEW c \in Configs
      PROVE  Stored(c) \in Configs /\ Stored(c).valid
    BY ConfigFacts DEF Stored, Project
<1>2. ASSUME NEW c \in Configs, NEW v \in BOOLEAN
      PROVE  Stored([c EXCEPT !.valid = v]) = Stored(c)
    BY ConfigFacts DEF Stored, Project
<1>3. ASSUME NEW c \in Configs, c.valid
      PROVE  Stored(c) = c
    <2>1. c \in Project /\ c.valid = TRUE
        BY <1>3, ConfigFacts DEF Project
    <2> QED
        BY <2>1 DEF Stored, Project
<1> QED
    BY <1>1, <1>2, <1>3

(* Enabling, disabling and invalidating a project does not change its limit. *)
LEMMA LimitFacts ==
    /\ \A c \in Configs, e, v \in BOOLEAN :
          /\ Limit([c EXCEPT !.enabled = e]) = Limit(c)
          /\ Limit([c EXCEPT !.valid = v]) = Limit(c)
    /\ \A c \in Configs : Limit(c) \in Nat \ {0}
BY ConfigFacts DEF Limit, Project

(* validateProject changes what is not stored. *)
LEMMA ValidatedFacts ==
    ASSUME NEW c \in Configs, NEW svcs
    PROVE  /\ Validated(c, svcs) \in Configs
           /\ Stored(Validated(c, svcs)) = Stored(c)
           /\ Limit(Validated(c, svcs)) = Limit(c)
<1> DEFINE v == c.service \in svcs
<1>1. v \in BOOLEAN
    OBVIOUS
<1>2. Validated(c, svcs) = [c EXCEPT !.valid = v]
    BY DEF Validated
<1> HIDE DEF v
<1>3. c \in Project
    BY ConfigFacts
<1>4. Limit([c EXCEPT !.valid = v]) = Limit(c)
    BY <1>3 DEF Limit, Project
<1>5. [c EXCEPT !.valid = v] \in Configs
    BY <1>1, ConfigFacts
<1>6. Stored([c EXCEPT !.valid = v]) = Stored(c)
    BY <1>1, StoredFacts
<1> QED
    BY <1>2, <1>4, <1>5, <1>6

(* The topmost handler is one, and is what Append put there. *)
LEMMA TopFacts ==
    ASSUME ControlTypeOK, stack # <<>>
    PROVE  /\ Len(stack) \in Nat \ {0}
           /\ DOMAIN stack = 1 .. Len(stack)
           /\ Len(stack) \in DOMAIN stack
           /\ Top \in HeldFrame
BY LenProperties, EmptySeq DEF ControlTypeOK, Top

(* So are the handlers below it. *)
LEMMA FrameFacts ==
    ASSUME ControlTypeOK, NEW i \in DOMAIN stack
    PROVE  /\ stack[i] \in HeldFrame
           /\ stack[i].op \in {"update", "delete", "reload", "disable"}
           /\ stack[i].p \in Projects
           /\ stack[i].new \in Held
<1>1. stack[i] \in HeldFrame
    BY LenProperties DEF ControlTypeOK
<1> QED
    BY <1>1 DEF HeldFrame

(* A handler that starts to wait is put on top of the others. *)
LEMMA PushFacts ==
    ASSUME NEW st \in Seq(HeldFrame), NEW f \in HeldFrame
    PROVE  LET st2 == Append(st, f)
           IN  /\ st2 \in Seq(HeldFrame)
               /\ DOMAIN st = 1 .. Len(st) /\ Len(st) \in Nat
               /\ DOMAIN st2 = 1 .. (Len(st) + 1)
               /\ \A i \in DOMAIN st : st2[i] = st[i]
               /\ st2[Len(st) + 1] = f
BY LenProperties, AppendProperties

(* A handler that ends leaves those below it. *)
LEMMA PopFacts ==
    ASSUME NEW st \in Seq(HeldFrame), st # <<>>
    PROVE  LET st2 == SubSeq(st, 1, Len(st) - 1)
           IN  /\ st2 \in Seq(HeldFrame)
               /\ DOMAIN st = 1 .. Len(st) /\ Len(st) \in Nat \ {0}
               /\ DOMAIN st2 = 1 .. (Len(st) - 1)
               /\ \A i \in DOMAIN st2 : st2[i] = st[i]
<1>1. /\ DOMAIN st = 1 .. Len(st)
      /\ Len(st) \in Nat \ {0}
      /\ \A i \in 1 .. (Len(st) - 1) : st[i] \in HeldFrame
    BY LenProperties, EmptySeq
<1> DEFINE st2 == SubSeq(st, 1, Len(st) - 1)
           n == Len(st) - 1
<1>2. n \in Int /\ 1 \in Int /\ n \in Nat
    BY <1>1
<1>3. /\ st2 \in Seq(HeldFrame)
      /\ Len(st2) = IF 1 <= n THEN n - 1 + 1 ELSE 0
      /\ \A i \in 1 .. n - 1 + 1 : st2[i] = st[1 + i - 1]
    BY <1>1, <1>2, SubSeqProperties
<1> HIDE DEF st2, n
<1>4. Len(st2) = n
    BY <1>2, <1>3
<1>5. DOMAIN st2 = 1 .. n
    BY <1>3, <1>4, LenProperties
<1>6. \A i \in 1 .. n : st2[i] = st[i]
    BY <1>2, <1>3
<1> QED
    BY <1>1, <1>3, <1>5, <1>6 DEF st2, n

-----------------------------------------------------------------------------
(***************************************************************************)
(* The steps of the engine but for the start of an instance that a client  *)
(* asked for.                                                              *)
(***************************************************************************)
Unrequested ==
    \/ \E ps \in ProjectMaps, svcs \in SUBSET Services, K, ok \in SUBSET Projects :
          StartAll(ps, svcs, K, ok)
    \/ \E p \in Projects, c \in Configs, svcs \in SUBSET Services, ok \in SUBSET Projects :
          StartProject(p, c, svcs, ok)
    \/ \E P \in SUBSET Projects : StopProjects(P) \/ TerminateByProject(P)
    \/ \E p \in Projects, s \in Slots : TerminateInstance(p, s) \/ ProcessEvent(p, s)
    \/ Shutdown
    \/ TimerStep

(* startScheduling is a call of startAll that the engine allows. *)
LEMMA SchedulingIsEngineStep ==
    ASSUME NEW ps \in [Projects -> Held], NEW svcs \in SUBSET Services,
           NEW K \in SUBSET Projects, StartScheduling(ps, svcs, K)
    PROVE  Unrequested
<1>1. PICK ok \in StartOutcomes(ps) : StartAll(ps, svcs, K, ok)
    BY DEF StartScheduling
<1>2. ok \in SUBSET Projects
    BY DEF StartOutcomes, HasDir
<1>3. ps \in ProjectMaps
    BY DEF ProjectMaps, Held
<1> QED
    BY <1>1, <1>2, <1>3 DEF Unrequested

(* So are the calls of stopProject and of the kills. *)
LEMMA StopIsEngineStep ==
    ASSUME NEW P \in SUBSET Projects, StopProjects(P) \/ TerminateByProject(P)
    PROVE  Unrequested
BY DEF Unrequested

(* The end of a handler, whether it removes, installs or fails to remove. *)
LEMMA CompleteStep ==
    ASSUME ControlTypeOK, NEW op, NEW p \in Projects, NEW new \in Held,
           NEW stored \in [Projects -> Held], NEW stopping \in SUBSET Projects,
           Complete(op, p, new, stored, stopping)
    PROVE  /\ Unrequested
           /\ mgr' \in [Projects -> Held]
           /\ disk' \in [Projects -> Held]
           /\ unsynced' \in SUBSET Projects
<1>1. NoProject \in Held
    BY DEF Held
<1>2. /\ mgr' \in [Projects -> Held]
      /\ disk' \in [Projects -> Held]
      /\ unsynced' \in SUBSET Projects
    BY <1>1 DEF Complete, ControlTypeOK
<1>3. mgrServices \in SUBSET Services /\ {} \in SUBSET Projects
    BY DEF ControlTypeOK
<1>4. \/ StartScheduling(mgr', mgrServices, {})
      \/ StopProjects(stopping)
    BY DEF Complete
<1> QED
    BY <1>2, <1>3, <1>4, SchedulingIsEngineStep, StopIsEngineStep

(* A handler that stops its project, up to its end or its wait. *)
LEMMA StopAndWaitStep ==
    ASSUME ControlTypeOK, NEW op \in {"update", "delete", "reload", "disable"},
           NEW p \in Projects, NEW new \in Held, NEW stored \in [Projects -> Held],
           StopAndWait(op, p, new, stored), UNCHANGED <<mgrServices, serviceDirs, phase>>
    PROVE  Unrequested /\ ControlTypeOK'
<1>1. CASE /\ Complete(op, p, new, stored, {p})
           /\ UNCHANGED <<inFlight, stack>>
    <2>1. {p} \in SUBSET Projects
        OBVIOUS
    <2>2. /\ Unrequested
          /\ mgr' \in [Projects -> Held]
          /\ disk' \in [Projects -> Held]
          /\ unsynced' \in SUBSET Projects
        BY <1>1, <2>1, CompleteStep
    <2> QED
        BY <1>1, <2>2 DEF ControlTypeOK
<1>2. CASE /\ StopProjects({p})
           /\ disk' = stored
           /\ inFlight' = inFlight \cup {p}
           /\ stack' = Append(stack, [op |-> op, p |-> p, new |-> new, wait |-> "grace"])
           /\ UNCHANGED <<mgr, unsynced>>
    <2>1. Unrequested
        BY <1>2, StopIsEngineStep
    <2>2. [op |-> op, p |-> p, new |-> new, wait |-> "grace"] \in HeldFrame
        BY DEF HeldFrame
    <2>3. stack' \in Seq(HeldFrame)
        BY <1>2, <2>2, PushFacts DEF ControlTypeOK
    <2> QED
        BY <1>2, <2>1, <2>3 DEF ControlTypeOK
<1> QED
    BY <1>1, <1>2 DEF StopAndWait

(* Requests for one project. *)
LEMMA ProjectRequestStep ==
    ASSUME ControlTypeOK, NEW p \in Projects, ProjectRequest(p)
    PROVE  (Unrequested \/ handleProjectStart(p)) /\ ControlTypeOK'
<1>1. \A c \in Submitted[p] : c \in Configs /\ c \in Held /\ Stored(c) \in Held
    BY ServerAssumption, StoredFacts DEF ValidConfigs, Held
<1>2. mgr[p] \in Held /\ disk[p] \in Held /\ NoProject \in Held
    BY DEF ControlTypeOK, Held
<1>3. Exists(p) => mgr[p] \in Configs
    BY <1>2 DEF Exists, Held
<1>4. ASSUME NEW c \in Submitted[p], handleProjectCreate(p, c)
      PROVE  Unrequested /\ ControlTypeOK'
    <2>1. /\ mgr' = [mgr EXCEPT ![p] = c]
          /\ disk' = [disk EXCEPT ![p] = Stored(c)]
          /\ unsynced' = unsynced \ {p}
          /\ StartScheduling(mgr', mgrServices, {})
          /\ UNCHANGED <<mgrServices, serviceDirs, inFlight, stack, phase>>
        BY <1>4 DEF handleProjectCreate
    <2>2. mgr' \in [Projects -> Held] /\ disk' \in [Projects -> Held]
        BY <1>1, <2>1 DEF ControlTypeOK
    <2>3. Unrequested
        BY <2>1, <2>2, SchedulingIsEngineStep DEF ControlTypeOK
    <2> QED
        BY <2>1, <2>2, <2>3 DEF ControlTypeOK
<1>5. ASSUME NEW c \in Submitted[p], handleProjectUpdate(p, c)
      PROVE  Unrequested /\ ControlTypeOK'
    <2>1. [disk EXCEPT ![p] = Stored(c)] \in [Projects -> Held]
        BY <1>1 DEF ControlTypeOK
    <2> QED
        BY <1>1, <1>5, <2>1, StopAndWaitStep DEF handleProjectUpdate
<1>6. CASE handleProjectStart(p)
    BY <1>6 DEF handleProjectStart, controlVars, ControlTypeOK
<1>7. CASE handleProjectStop(p)
    BY <1>7, StopIsEngineStep DEF handleProjectStop, controlVars, ControlTypeOK
<1>8. CASE handleProjectEnable(p)
    <2> DEFINE c == [mgr[p] EXCEPT !.enabled = TRUE]
    <2>1. c \in Configs /\ Stored(c) \in Configs
        BY <1>3, <1>8, ConfigFacts, StoredFacts DEF handleProjectEnable
    <2>2. mgr' = [mgr EXCEPT ![p] = c] /\ mgr'[p] = c
        BY <1>8 DEF handleProjectEnable, ControlTypeOK
    <2>3. PICK ok \in StartOutcomes(mgr') : StartProject(p, c, mgrServices, ok)
        BY <1>8, <2>2 DEF handleProjectEnable
    <2>4. ok \in SUBSET Projects /\ mgrServices \in SUBSET Services
        BY DEF StartOutcomes, HasDir, ControlTypeOK
    <2> HIDE DEF c
    <2>5. Unrequested
        BY <2>1, <2>3, <2>4 DEF Unrequested
    <2>6. disk' = [disk EXCEPT ![p] = Stored(c)]
        BY <1>8, <2>2 DEF handleProjectEnable
    <2> QED
        BY <1>8, <2>1, <2>2, <2>5, <2>6 DEF handleProjectEnable, ControlTypeOK, Held
<1>9. CASE handleProjectDisable(p)
    <2> DEFINE c == [mgr[p] EXCEPT !.enabled = FALSE]
    <2>1. c \in Held /\ Stored(c) \in Held
        BY <1>3, <1>9, ConfigFacts, StoredFacts DEF handleProjectDisable, Held
    <2>2. [disk EXCEPT ![p] = Stored(c)] \in [Projects -> Held]
        BY <2>1 DEF ControlTypeOK
    <2>3. /\ StopAndWait("disable", p, c, [disk EXCEPT ![p] = Stored(c)])
          /\ UNCHANGED <<mgrServices, serviceDirs, phase>>
        BY <1>9 DEF handleProjectDisable
    <2> HIDE DEF c
    <2> QED
        BY <2>1, <2>2, <2>3, StopAndWaitStep
<1>10. CASE handleProjectDelete(p)
    BY <1>2, <1>10, StopAndWaitStep DEF handleProjectDelete, ControlTypeOK
<1>11. CASE handleProjectReload(p)
    BY <1>2, <1>11, StopAndWaitStep DEF handleProjectReload, ControlTypeOK
<1>12. ASSUME NEW x \in Slots, handleInstanceTerminate(p, x)
       PROVE  Unrequested /\ ControlTypeOK'
    BY <1>12 DEF handleInstanceTerminate, Unrequested, controlVars, ControlTypeOK
<1> QED
    BY <1>4, <1>5, <1>6, <1>7, <1>8, <1>9, <1>10, <1>11, <1>12 DEF ProjectRequest

(* A handler goes on after its wait, or waits on. *)
LEMMA WaitEndsStep ==
    ASSUME ControlTypeOK, HandlersHaveProjects,
           WaitSucceeds \/ GraceExpires \/ WaitFails
    PROVE  Unrequested /\ ControlTypeOK'
<1>1. stack # <<>>
    BY DEF WaitSucceeds, GraceExpires, WaitFails
<1>2. /\ Top \in HeldFrame
      /\ Top.op \in {"update", "delete", "reload", "disable"}
      /\ Top.p \in Projects
      /\ Top.new \in Held
      /\ {Top.p} \in SUBSET Projects
    BY <1>1, TopFacts DEF HeldFrame
<1>3. Pop => /\ stack' \in Seq(HeldFrame)
             /\ inFlight' \in SUBSET Projects
             /\ UNCHANGED <<mgrServices, serviceDirs, phase>>
    BY <1>1, PopFacts DEF Pop, ControlTypeOK
<1>4. CASE WaitSucceeds
    <2>1. Complete(Top.op, Top.p, Top.new, disk, {}) /\ Pop
        BY <1>4 DEF WaitSucceeds
    <2>2. disk \in [Projects -> Held] /\ {} \in SUBSET Projects
        BY DEF ControlTypeOK
    <2>3. /\ Unrequested
          /\ mgr' \in [Projects -> Held]
          /\ disk' \in [Projects -> Held]
          /\ unsynced' \in SUBSET Projects
        BY <1>2, <2>1, <2>2, CompleteStep
    <2> QED
        BY <1>3, <2>1, <2>3 DEF ControlTypeOK
<1>5. CASE GraceExpires
    <2>1. Unrequested
        BY <1>2, <1>5, StopIsEngineStep DEF GraceExpires
    <2> DEFINE f == [Top EXCEPT !.wait = "drain"]
    <2>2. f \in HeldFrame
        BY <1>2 DEF HeldFrame
    <2>3. stack' = [stack EXCEPT ![Len(stack)] = f]
        BY <1>5 DEF GraceExpires, Top
    <2> HIDE DEF f
    <2>4. stack' \in Seq(HeldFrame)
        BY <1>1, <2>2, <2>3, TopFacts, ExceptSeq DEF ControlTypeOK
    <2> QED
        BY <1>5, <2>1, <2>4 DEF GraceExpires, ControlTypeOK
<1>6. CASE WaitFails
    <2>1. GiveUp(Top.op, Top.p) /\ Pop
        BY <1>6 DEF WaitFails
    <2>2. mgr[Top.p] \in Configs
        BY <1>1, <1>2, TopFacts DEF ControlTypeOK, Held, Exists, HandlersHaveProjects, Top
    <2>3. Stored(mgr[Top.p]) \in Held
        BY <2>2, StoredFacts DEF Held
    <2>4. /\ disk' \in [Projects -> Held]
          /\ unsynced' \in SUBSET Projects
        BY <1>2, <2>1, <2>3 DEF GiveUp, ControlTypeOK
    <2>5. /\ mgr' = mgr
          /\ StartScheduling(mgr, mgrServices, {})
        BY <2>1 DEF GiveUp
    <2>6. Unrequested
        BY <2>5, SchedulingIsEngineStep DEF ControlTypeOK
    <2> QED
        BY <1>3, <2>1, <2>4, <2>5, <2>6 DEF ControlTypeOK
<1> QED
    BY <1>4, <1>5, <1>6

(* Requests about services and changes of their files. *)
LEMMA ServiceRequestStep ==
    ASSUME ControlTypeOK, ServiceRequest
    PROVE  (Unrequested \/ UNCHANGED vars) /\ ControlTypeOK'
<1>1. \A p \in Projects : Exists(p) => mgr[p] \in Configs
    BY DEF ControlTypeOK, Held, Exists
<1>2. NoProject \in Held /\ Configs \subseteq Held
    BY DEF Held
<1>3. ASSUME NEW revalidate \in BOOLEAN, NEW restart \in BOOLEAN,
             NEW stopInvalid \in BOOLEAN,
             rescanServices(revalidate, restart, stopInvalid)
      PROVE  Unrequested /\ ControlTypeOK'
    <2> DEFINE ps == IF revalidate
                     THEN [p \in Projects |-> IF Exists(p) THEN Validated(mgr[p], serviceDirs)
                                                           ELSE NoProject]
                     ELSE mgr
               K == IF revalidate /\ stopInvalid
                    THEN {p \in Projects : Exists(p) /\ ~ps[p].valid}
                    ELSE {}
    <2>1. /\ mgrServices' = serviceDirs
          /\ mgr' = ps
          /\ \/ StartScheduling(ps, serviceDirs, K)
             \/ StopProjects(K)
          /\ UNCHANGED <<disk, serviceDirs, inFlight, stack, phase, unsynced>>
        BY <1>3 DEF rescanServices
    <2>2. K \in SUBSET Projects
        OBVIOUS
    <2> HIDE DEF K
    <2>3. \A p \in Projects : Exists(p) => Validated(mgr[p], serviceDirs) \in Configs
        BY <1>1, ValidatedFacts
    <2>4. ps \in [Projects -> Held]
        BY <1>2, <2>3 DEF ControlTypeOK
    <2> HIDE DEF ps
    <2>5. Unrequested
        BY <2>1, <2>2, <2>4, SchedulingIsEngineStep, StopIsEngineStep DEF ControlTypeOK
    <2> QED
        BY <2>1, <2>4, <2>5 DEF ControlTypeOK
<1>4. ASSUME NEW v \in Services, NEW force \in BOOLEAN, NEW removed \in BOOLEAN,
             deleteService(v, force, removed)
      PROVE  Unrequested /\ ControlTypeOK'
    <2> DEFINE users == {p \in Projects : Exists(p) /\ mgr[p].service = v}
    <2>1. /\ mgr' = [p \in Projects |-> IF p \in users THEN [mgr[p] EXCEPT !.valid = FALSE]
                                                        ELSE mgr[p]]
          /\ StopProjects(users)
          /\ serviceDirs' \in SUBSET Services
          /\ mgrServices' \in SUBSET Services
          /\ UNCHANGED <<disk, inFlight, stack, phase, unsynced>>
        BY <1>4 DEF deleteService, ControlTypeOK
    <2>2. users \in SUBSET Projects /\ \A p \in users : [mgr[p] EXCEPT !.valid = FALSE] \in Held
        BY <1>1, <1>2, ConfigFacts
    <2> HIDE DEF users
    <2>3. mgr' \in [Projects -> Held]
        BY <2>1, <2>2 DEF ControlTypeOK
    <2> QED
        BY <2>1, <2>2, <2>3, StopIsEngineStep DEF ControlTypeOK
<1>5. ASSUME NEW v \in Services, createService(v) \/ ServiceDirChanges(v)
      PROVE  UNCHANGED vars /\ ControlTypeOK'
    BY <1>5 DEF createService, ServiceDirChanges, ControlTypeOK
<1> QED
    BY <1>3, <1>4, <1>5 DEF ServiceRequest

(* What the server does by itself: its start, its shutdown, timers, processes. *)
LEMMA ServerEventStep ==
    ASSUME ControlTypeOK,
           \/ Boot \/ ShutdownBegins \/ ShutdownGraceExpires \/ ServerExits
           \/ \E p \in Projects, svc \in Services :
                 FixedRateTimer(p, svc) \/ RestartTimer(p, svc)
           \/ \E p \in Projects, s \in Slots : InstanceEvent(p, s)
    PROVE  (Unrequested \/ UNCHANGED vars) /\ ControlTypeOK'
<1>1. CASE Boot
    BY <1>1, SchedulingIsEngineStep DEF Boot, ControlTypeOK
<1>2. CASE ShutdownBegins
    BY <1>2 DEF ShutdownBegins, Unrequested, ControlTypeOK
<1>3. CASE ShutdownGraceExpires
    BY <1>3, StopIsEngineStep DEF ShutdownGraceExpires, ControlTypeOK
<1>4. CASE ServerExits
    BY <1>4 DEF ServerExits, ControlTypeOK
<1>5. ASSUME NEW p \in Projects, NEW v \in Services, FixedRateTimer(p, v) \/ RestartTimer(p, v)
      PROVE  Unrequested /\ ControlTypeOK'
    <2>1. Unrequested
        BY <1>5 DEF FixedRateTimer, RestartTimer, Unrequested, TimerStep
    <2> QED
        BY <1>5, <2>1 DEF FixedRateTimer, RestartTimer, controlVars, ControlTypeOK
<1>6. ASSUME NEW p \in Projects, NEW s \in Slots, InstanceEvent(p, s)
      PROVE  Unrequested /\ ControlTypeOK'
    <2>1. Unrequested
        BY <1>6 DEF InstanceEvent, Unrequested
    <2> QED
        BY <1>6, <2>1 DEF InstanceEvent, controlVars, ControlTypeOK
<1> QED
    BY <1>1, <1>2, <1>3, <1>4, <1>5, <1>6

(* What a step of the server is to the engine. *)
LEMMA ServerStepKinds ==
    ASSUME ControlTypeOK, HandlersHaveProjects, [ServerNext]_serverVars
    PROVE  /\ \/ Unrequested
              \/ \E p \in Projects : handleProjectStart(p)
              \/ UNCHANGED vars
           /\ ControlTypeOK'
<1>1. CASE UNCHANGED serverVars
    BY <1>1 DEF serverVars, vars, ControlTypeOK
<1> QED
    BY <1>1, ProjectRequestStep, ServiceRequestStep, WaitEndsStep, ServerEventStep
       DEF ServerNext

(* Every step of the server is a step of the engine, or leaves it alone. *)
LEMMA ServerNextStep ==
    ASSUME ControlTypeOK, HandlersHaveProjects, [ServerNext]_serverVars
    PROVE  [Next]_vars /\ ControlTypeOK'
<1>1. ASSUME NEW p \in Projects, handleProjectStart(p)
      PROVE  Next
    <2>1. mgr[p] \in Configs
        BY <1>1, ConfigFacts DEF handleProjectStart, ControlTypeOK, Held
    <2>2. PICK ok \in StartOutcomes(mgr) : ResumeAndStart(p, mgr[p], p \in ok)
        BY <1>1 DEF handleProjectStart
    <2>3. (p \in ok) \in BOOLEAN
        OBVIOUS
    <2> QED
        BY <2>1, <2>2, <2>3 DEF Next, CallerStep
<1>2. Unrequested => Next
    BY DEF Unrequested, Next, CallerStep
<1> QED
    BY <1>1, <1>2, ServerStepKinds

-----------------------------------------------------------------------------
-----------------------------------------------------------------------------
(* The ways in which the set of suspended handlers changes. *)
Suspend(f) ==
    /\ f.p \notin inFlight
    /\ stack' = Append(stack, f)
    /\ inFlight' = inFlight \cup {f.p}

Resume ==
    /\ stack # <<>>
    /\ stack' = SubSeq(stack, 1, Len(stack) - 1)
    /\ inFlight' = inFlight \ {Top.p}

WaitOn ==
    /\ stack # <<>>
    /\ stack' = [stack EXCEPT ![Len(stack)] = [Top EXCEPT !.wait = "drain"]]
    /\ inFlight' = inFlight

(* Handlers are suspended one by one, on projects that are not taken, and end *)
(* in the opposite order.                                                     *)
LEMMA StackDiscipline ==
    ASSUME ControlTypeOK, [ServerNext]_serverVars
    PROVE  \/ UNCHANGED <<stack, inFlight>>
           \/ \E f \in HeldFrame : Suspend(f)
           \/ Resume
           \/ WaitOn
<1>1. ASSUME NEW op \in {"update", "delete", "reload", "disable"},
             NEW p \in Projects, p \notin inFlight, NEW new \in Held, NEW stored,
             StopAndWait(op, p, new, stored)
      PROVE  UNCHANGED <<stack, inFlight>> \/ \E f \in HeldFrame : Suspend(f)
    <2> DEFINE f == [op |-> op, p |-> p, new |-> new, wait |-> "grace"]
    <2>1. f \in HeldFrame /\ f.p = p
        BY DEF HeldFrame
    <2>2. CASE UNCHANGED <<inFlight, stack>>
        BY <2>2
    <2>3. CASE inFlight' = inFlight \cup {p} /\ stack' = Append(stack, f)
        <3>1. Suspend(f)
            BY <1>1, <2>1, <2>3 DEF Suspend
        <3> QED
            BY <2>1, <3>1
    <2> QED
        BY <1>1, <2>2, <2>3 DEF StopAndWait
<1>2. ASSUME NEW p \in Projects, ProjectRequest(p)
      PROVE  UNCHANGED <<stack, inFlight>> \/ \E f \in HeldFrame : Suspend(f)
    <2>1. \A c \in Submitted[p] : c \in Held
        BY ServerAssumption DEF ValidConfigs, Held
    <2>2. mgr[p] \in Held /\ disk[p] \in Held /\ NoProject \in Held
        BY DEF ControlTypeOK, Held
    <2>3. Exists(p) => [mgr[p] EXCEPT !.enabled = FALSE] \in Held
        BY <2>2, ConfigFacts DEF Exists, Held
    <2>4. ASSUME NEW c \in Submitted[p], handleProjectUpdate(p, c)
          PROVE  UNCHANGED <<stack, inFlight>> \/ \E f \in HeldFrame : Suspend(f)
        BY <1>1, <2>1, <2>4 DEF handleProjectUpdate
    <2>5. CASE handleProjectDisable(p)
        BY <1>1, <2>3, <2>5 DEF handleProjectDisable
    <2>6. CASE handleProjectDelete(p)
        BY <1>1, <2>2, <2>6 DEF handleProjectDelete
    <2>7. CASE handleProjectReload(p)
        BY <1>1, <2>2, <2>7 DEF handleProjectReload
    <2>8. ASSUME \/ \E c \in Submitted[p] : handleProjectCreate(p, c)
                 \/ handleProjectStart(p)
                 \/ handleProjectStop(p)
                 \/ handleProjectEnable(p)
                 \/ \E s \in Slots : handleInstanceTerminate(p, s)
          PROVE  UNCHANGED <<stack, inFlight>>
        BY <2>8 DEF handleProjectCreate, handleProjectStart, handleProjectStop,
                    handleProjectEnable, handleInstanceTerminate, controlVars
    <2> QED
        BY <1>2, <2>4, <2>5, <2>6, <2>7, <2>8 DEF ProjectRequest
<1>3. ASSUME ServiceRequest
      PROVE  UNCHANGED <<stack, inFlight>>
    BY <1>3 DEF ServiceRequest, rescanServices, deleteService, createService,
                ServiceDirChanges
<1>4. CASE WaitSucceeds \/ WaitFails
    BY <1>4 DEF WaitSucceeds, WaitFails, Pop, Resume
<1>5. CASE GraceExpires
    BY <1>5 DEF GraceExpires, WaitOn, Top
<1>6. ASSUME Boot \/ ShutdownBegins \/ ShutdownGraceExpires \/ ServerExits
      PROVE  UNCHANGED <<stack, inFlight>>
    BY <1>6 DEF Boot, ShutdownBegins, ShutdownGraceExpires, ServerExits
<1>7. ASSUME NEW p \in Projects, NEW v \in Services, FixedRateTimer(p, v) \/ RestartTimer(p, v)
      PROVE  UNCHANGED <<stack, inFlight>>
    BY <1>7 DEF FixedRateTimer, RestartTimer, controlVars
<1>8. ASSUME NEW p \in Projects, NEW s \in Slots, InstanceEvent(p, s)
      PROVE  UNCHANGED <<stack, inFlight>>
    BY <1>8 DEF InstanceEvent, controlVars
<1>9. CASE UNCHANGED serverVars
    BY <1>9 DEF serverVars
<1> QED
    BY <1>2, <1>3, <1>4, <1>5, <1>6, <1>7, <1>8, <1>9 DEF ServerNext

(* However requests nest, the projects of suspended handlers stay apart. *)
LEMMA ExclusionStep ==
    ASSUME ControlTypeOK, MutationsExclusive, [ServerNext]_serverVars
    PROVE  MutationsExclusive'
<1>1. stack \in Seq(HeldFrame) /\ \A i \in DOMAIN stack : stack[i] \in HeldFrame
    BY LenProperties DEF ControlTypeOK
<1>2. CASE UNCHANGED <<stack, inFlight>>
    BY <1>2 DEF MutationsExclusive
<1>3. ASSUME NEW f \in HeldFrame, Suspend(f)
      PROVE  MutationsExclusive'
    <2>1. /\ DOMAIN stack = 1 .. Len(stack)
          /\ Len(stack) \in Nat
          /\ DOMAIN stack' = 1 .. (Len(stack) + 1)
          /\ \A i \in DOMAIN stack : stack'[i] = stack[i]
          /\ stack'[Len(stack) + 1] = f
        BY <1>1, <1>3, PushFacts DEF Suspend
    <2>2. \A i \in DOMAIN stack : stack[i].p # f.p
        BY <1>3 DEF Suspend, MutationsExclusive
    <2>3. \A i, j \in DOMAIN stack' : stack'[i].p = stack'[j].p => i = j
        BY <2>1, <2>2 DEF MutationsExclusive
    <2>4. {stack'[i].p : i \in DOMAIN stack'} = inFlight \cup {f.p}
        BY <2>1 DEF MutationsExclusive
    <2> QED
        BY <1>3, <2>3, <2>4 DEF Suspend, MutationsExclusive
<1>4. CASE Resume
    <2>1. /\ DOMAIN stack = 1 .. Len(stack)
          /\ Len(stack) \in Nat \ {0}
          /\ DOMAIN stack' = 1 .. (Len(stack) - 1)
          /\ \A i \in DOMAIN stack' : stack'[i] = stack[i]
        BY <1>1, <1>4, PopFacts DEF Resume
    <2>2. \A i, j \in DOMAIN stack' : stack'[i].p = stack'[j].p => i = j
        BY <2>1 DEF MutationsExclusive
    <2>3. {stack'[i].p : i \in DOMAIN stack'} = inFlight \ {Top.p}
        BY <2>1 DEF MutationsExclusive, Top
    <2> QED
        BY <1>4, <2>2, <2>3 DEF Resume, MutationsExclusive
<1>5. CASE WaitOn
    <2>1. Top \in HeldFrame /\ Len(stack) \in DOMAIN stack
        BY <1>5, TopFacts DEF WaitOn
    <2>2. [Top EXCEPT !.wait = "drain"].p = Top.p
        BY <2>1 DEF HeldFrame
    <2>3. DOMAIN stack' = DOMAIN stack /\ \A i \in DOMAIN stack : stack'[i].p = stack[i].p
        BY <1>1, <1>5, <2>1, <2>2 DEF WaitOn, Top
    <2> QED
        BY <1>5, <2>3 DEF WaitOn, MutationsExclusive
<1> QED
    BY <1>2, <1>3, <1>4, <1>5, StackDiscipline

-----------------------------------------------------------------------------
(***************************************************************************)
(* A step that touches one project: what is left to show is that storage   *)
(* agrees for this project, or is as its handler needs it.                 *)
(***************************************************************************)
LEMMA StorageOfOne ==
    ASSUME StorageInv, NEW p \in Projects,
           \A q \in Projects \ {p} :
              /\ mgr'[q] = mgr[q]
              /\ disk'[q] = disk[q]
              /\ q \in unsynced => q \in unsynced'
              /\ q \in inFlight => q \in inFlight',
           \A i \in DOMAIN stack' :
              \/ stack'[i].p = p
              \/ /\ i \in DOMAIN stack
                 /\ stack'[i] = stack[i]
                 /\ stack[i].p \in Projects,
           disk'[p] # NoProject => disk'[p].valid,
           ~Exists(p)' => disk'[p] = NoProject,
           \/ p \in inFlight' \cup unsynced'
           \/ disk'[p] = IF Exists(p)' THEN Stored(mgr'[p]) ELSE NoProject,
           \A i \in DOMAIN stack' : stack'[i].p = p => Exists(p)' /\ HandlerStorage(stack[i])'
    PROVE  StorageInv'
<1>1. \A q \in Projects : disk'[q] # NoProject => disk'[q].valid
    BY DEF StorageInv
<1>2. \A q \in Projects : ~Exists(q)' => disk'[q] = NoProject
    BY DEF StorageInv, Exists
<1>3. DiskMatchesMemory'
    BY DEF StorageInv, DiskMatchesMemory, Exists
<1>4. ASSUME NEW i \in DOMAIN stack'
      PROVE  Exists(stack[i].p)' /\ HandlerStorage(stack[i])'
    <2>1. CASE stack'[i].p = p
        BY <2>1
    <2>2. CASE /\ stack'[i].p # p
               /\ i \in DOMAIN stack
               /\ stack'[i] = stack[i]
               /\ stack[i].p \in Projects
        <3>1. /\ HandlerStorage(stack[i])
              /\ Exists(stack[i].p)
              /\ mgr'[stack[i].p] = mgr[stack[i].p]
              /\ disk'[stack[i].p] = disk[stack[i].p]
              /\ stack[i].p \in unsynced => stack[i].p \in unsynced'
            BY <2>2 DEF StorageInv, HandlersHaveProjects
        <3> QED
            BY <2>2, <3>1 DEF HandlerStorage, Exists
    <2> QED
        BY <2>1, <2>2
<1> QED
    BY <1>1, <1>2, <1>3, <1>4 DEF StorageInv, HandlersHaveProjects

(***************************************************************************)
(* A step that leaves storage alone and changes at most which projects are *)
(* valid, which is not stored.                                             *)
(***************************************************************************)
LEMMA StorageOfNone ==
    ASSUME ControlTypeOK, StorageInv,
           UNCHANGED <<disk, unsynced, inFlight>>,
           \A q \in Projects : /\ Exists(q)' <=> Exists(q)
                               /\ Exists(q) => /\ Stored(mgr'[q]) = Stored(mgr[q])
                                               /\ Limit(mgr'[q]) = Limit(mgr[q]),
           DOMAIN stack' = DOMAIN stack,
           \A i \in DOMAIN stack : /\ stack'[i].op = stack[i].op
                                   /\ stack'[i].p = stack[i].p
                                   /\ stack'[i].new = stack[i].new
    PROVE  StorageInv'
<1>1. \A i \in DOMAIN stack : stack[i].p \in Projects
    BY FrameFacts
<1>2. ASSUME NEW i \in DOMAIN stack
      PROVE  Exists(stack[i].p)' /\ HandlerStorage(stack[i])'
    <2>1. HandlerStorage(stack[i]) /\ Exists(stack[i].p) /\ stack[i].p \in Projects
        BY <1>1 DEF StorageInv, HandlersHaveProjects
    <2>2. /\ Exists(stack[i].p)'
          /\ Stored(mgr'[stack[i].p]) = Stored(mgr[stack[i].p])
          /\ Limit(mgr'[stack[i].p]) = Limit(mgr[stack[i].p])
        BY <2>1 DEF Exists
    <2> QED
        BY <2>1, <2>2 DEF HandlerStorage
<1>3. DiskMatchesMemory'
    BY DEF StorageInv, DiskMatchesMemory
<1> QED
    BY <1>2, <1>3 DEF StorageInv, HandlersHaveProjects

(***************************************************************************)
(* The end of a handler of p.  What it has written, or read, is what it    *)
(* installs; a project it fails to remove is reported.                     *)
(***************************************************************************)
LEMMA StorageComplete ==
    ASSUME ControlTypeOK, StorageInv,
           NEW op, NEW p \in Projects, NEW new, NEW stored \in [Projects -> Held], NEW stopping,
           Complete(op, p, new, stored, stopping),
           Exists(p),
           \A q \in Projects \ {p} : stored[q] = disk[q] /\ (q \in inFlight => q \in inFlight'),
           \A i \in DOMAIN stack' :
              stack'[i].p # p /\ i \in DOMAIN stack /\ stack'[i] = stack[i],
           op \in {"update", "disable"} => new \in Configs /\ stored[p] = Stored(new),
           op = "reload" => new \in Configs /\ new.valid /\ stored[p] = new,
           op = "delete" => stored[p] = disk[p]
    PROVE  StorageInv'
<1>1. /\ \A q \in Projects \ {p} : mgr'[q] = mgr[q] /\ disk'[q] = disk[q]
      /\ \A q \in Projects \ {p} : q \in unsynced => q \in unsynced'
    BY DEF Complete, ControlTypeOK
<1>2. \A i \in DOMAIN stack' : stack[i].p \in Projects
    BY FrameFacts
<1>3. CASE op \in {"update", "disable", "reload"}
    <2>1. mgr'[p] = new /\ disk'[p] = stored[p] /\ new \in Configs
        BY <1>3 DEF Complete, ControlTypeOK
    <2>2. stored[p] = Stored(new) /\ Stored(new) \in Configs /\ Stored(new).valid
        BY <1>3, <2>1, StoredFacts
    <2>3. Exists(p)' /\ disk'[p] = Stored(mgr'[p]) /\ disk'[p].valid
        BY <2>1, <2>2, ConfigFacts DEF Exists
    <2> QED
        BY <1>1, <1>2, <2>3, StorageOfOne
<1>4. CASE op = "delete" /\ mgr' = [mgr EXCEPT ![p] = NoProject]
    <2>1. disk'[p] = NoProject /\ ~Exists(p)'
        <3>1. mgr'[p] = NoProject /\ mgr[p] # NoProject
            BY <1>4 DEF ControlTypeOK, Exists
        <3>2. mgr' # mgr
            BY <3>1
        <3> QED
            BY <1>4, <3>1, <3>2 DEF Complete, Exists
    <2> QED
        BY <1>1, <1>2, <2>1, StorageOfOne
<1>5. CASE op = "delete" /\ mgr' # [mgr EXCEPT ![p] = NoProject]
    <2>1. /\ disk'[p] \in {disk[p], NoProject}
          /\ p \in unsynced'
          /\ mgr' = mgr
        BY <1>5 DEF Complete
    <2>2. Exists(p)' /\ (disk'[p] # NoProject => disk'[p].valid)
        BY <2>1 DEF StorageInv, Exists
    <2> QED
        BY <1>1, <1>2, <2>1, <2>2, StorageOfOne
<1> QED
    BY <1>3, <1>4, <1>5 DEF Complete

(* A handler of p that stops its project: it ends, or writes and waits. *)
LEMMA StorageStopAndWait ==
    ASSUME ControlTypeOK, MutationsExclusive, StorageInv,
           NEW op \in {"update", "delete", "reload", "disable"},
           NEW p \in Projects, NEW new \in Held, NEW stored \in [Projects -> Held],
           StopAndWait(op, p, new, stored),
           Exists(p), p \notin inFlight,
           \A q \in Projects \ {p} : stored[q] = disk[q],
           op \in {"update", "disable"} => new \in Configs /\ stored[p] = Stored(new),
           op = "reload" => new \in Configs /\ new.valid /\ stored[p] = new,
           op \in {"delete", "reload"} => stored[p] = disk[p],
           op = "disable" => Limit(new) = Limit(mgr[p])
    PROVE  StorageInv'
<1>1. \A i \in DOMAIN stack : stack[i].p # p /\ stack[i].p \in Projects
    BY FrameFacts DEF MutationsExclusive
<1>2. CASE Complete(op, p, new, stored, {p}) /\ UNCHANGED <<inFlight, stack>>
    BY <1>1, <1>2, StorageComplete
<1>3. CASE /\ disk' = stored
           /\ inFlight' = inFlight \cup {p}
           /\ stack' = Append(stack, [op |-> op, p |-> p, new |-> new, wait |-> "grace"])
           /\ UNCHANGED <<mgr, unsynced>>
    <2> DEFINE f == [op |-> op, p |-> p, new |-> new, wait |-> "grace"]
    <2>1. f \in HeldFrame
        BY DEF HeldFrame
    <2>2. /\ DOMAIN stack = 1 .. Len(stack)
          /\ Len(stack) \in Nat
          /\ DOMAIN stack' = 1 .. (Len(stack) + 1)
          /\ \A i \in DOMAIN stack : stack'[i] = stack[i]
          /\ stack'[Len(stack) + 1] = f
        BY <1>3, <2>1, PushFacts DEF ControlTypeOK
    <2>3. /\ f.op = op /\ f.p = p /\ f.new = new
        OBVIOUS
    <2> HIDE DEF f
    <2>4. \A i \in DOMAIN stack' :
             \/ i = Len(stack) + 1 /\ stack'[i] = f
             \/ i \in DOMAIN stack /\ stack'[i] = stack[i] /\ stack[i].p \in Projects
        BY <1>1, <2>2
    <2>5. Exists(p)'
        BY <1>3 DEF Exists
    <2>6. disk'[p] # NoProject => disk'[p].valid
        BY <1>3, StoredFacts DEF StorageInv
    <2>7. ASSUME op \in {"delete", "reload"}
          PROVE  p \in unsynced' \/ disk'[p] = Stored(mgr'[p])
        BY <1>3, <2>7 DEF StorageInv, DiskMatchesMemory
    <2>8. \A i \in DOMAIN stack' : stack'[i].p = p => HandlerStorage(stack[i])'
        <3>1. ASSUME NEW i \in DOMAIN stack', stack'[i].p = p
              PROVE  HandlerStorage(stack[i])'
            <4>1. stack'[i] = f
                BY <1>1, <2>4, <3>1
            <4> QED
                BY <1>3, <2>3, <2>7, <4>1, ConfigFacts DEF HandlerStorage
        <3> QED
            BY <3>1
    <2>9. p \in inFlight' \cup unsynced'
        BY <1>3
    <2>10. \A q \in Projects \ {p} :
              /\ mgr'[q] = mgr[q]
              /\ disk'[q] = disk[q]
              /\ q \in unsynced => q \in unsynced'
              /\ q \in inFlight => q \in inFlight'
        BY <1>3
    <2>11. \A i \in DOMAIN stack' :
              \/ stack'[i].p = p
              \/ i \in DOMAIN stack /\ stack'[i] = stack[i] /\ stack[i].p \in Projects
        BY <2>3, <2>4
    <2> QED
        BY <2>5, <2>6, <2>8, <2>9, <2>10, <2>11, StorageOfOne
<1> QED
    BY <1>2, <1>3 DEF StopAndWait

(* Requests for one project keep storage and memory together. *)
LEMMA StorageProjectRequest ==
    ASSUME ControlTypeOK, MutationsExclusive, StorageInv,
           NEW p \in Projects, ProjectRequest(p)
    PROVE  StorageInv'
<1>1. \A c \in Submitted[p] :
         c \in Configs /\ c \in Held /\ Stored(c) \in Configs /\ Stored(c) \in Held
    BY ServerAssumption, StoredFacts DEF ValidConfigs, Held
<1>2. /\ mgr[p] \in Held /\ disk[p] \in Held /\ NoProject \in Held
      /\ Exists(p) => mgr[p] \in Configs
    BY DEF ControlTypeOK, Held, Exists
<1>3. p \notin inFlight => \A i \in DOMAIN stack : stack[i].p # p
    BY DEF MutationsExclusive
<1>4. ~Exists(p) => \A i \in DOMAIN stack : stack[i].p # p
    BY DEF StorageInv, HandlersHaveProjects
<1>5. \A i \in DOMAIN stack : stack[i].p \in Projects
    BY FrameFacts
<1>6. ASSUME NEW c \in Configs,
             mgr' = [mgr EXCEPT ![p] = c],
             disk' = [disk EXCEPT ![p] = Stored(c)],
             unsynced' = unsynced \ {p},
             UNCHANGED <<inFlight, stack>>,
             \A i \in DOMAIN stack : stack[i].p # p
      PROVE  StorageInv'
    <2>1. mgr'[p] = c /\ disk'[p] = Stored(c)
        BY <1>6 DEF ControlTypeOK
    <2>2. Exists(p)' /\ disk'[p] = Stored(mgr'[p]) /\ disk'[p].valid
        BY <2>1, ConfigFacts, StoredFacts DEF Exists
    <2>3. /\ \A q \in Projects \ {p} :
                /\ mgr'[q] = mgr[q]
                /\ disk'[q] = disk[q]
                /\ q \in unsynced => q \in unsynced'
                /\ q \in inFlight => q \in inFlight'
        BY <1>6 DEF ControlTypeOK
    <2>4. \A i \in DOMAIN stack' :
             /\ stack'[i].p # p
             /\ i \in DOMAIN stack
             /\ stack'[i] = stack[i]
             /\ stack[i].p \in Projects
        BY <1>5, <1>6
    <2> QED
        BY <2>2, <2>3, <2>4, StorageOfOne
<1>7. ASSUME NEW c \in Submitted[p], handleProjectCreate(p, c)
      PROVE  StorageInv'
    BY <1>1, <1>4, <1>6, <1>7 DEF handleProjectCreate
<1>8. CASE handleProjectEnable(p)
    <2> DEFINE c == [mgr[p] EXCEPT !.enabled = TRUE]
    <2>1. c \in Configs
        BY <1>2, <1>8, ConfigFacts DEF handleProjectEnable
    <2>2. mgr' = [mgr EXCEPT ![p] = c] /\ mgr'[p] = c
        BY <1>8 DEF handleProjectEnable, ControlTypeOK
    <2>3. /\ disk' = [disk EXCEPT ![p] = Stored(c)]
          /\ unsynced' = unsynced \ {p}
          /\ UNCHANGED <<inFlight, stack>>
          /\ p \notin inFlight
        BY <1>8, <2>2 DEF handleProjectEnable
    <2> HIDE DEF c
    <2> QED
        BY <1>3, <1>6, <2>1, <2>2, <2>3
<1>9. ASSUME NEW c \in Submitted[p], handleProjectUpdate(p, c)
      PROVE  StorageInv'
    <2> DEFINE stored == [disk EXCEPT ![p] = Stored(c)]
    <2>1. /\ stored \in [Projects -> Held]
          /\ stored[p] = Stored(c)
          /\ \A q \in Projects \ {p} : stored[q] = disk[q]
        BY <1>1 DEF ControlTypeOK
    <2>2. Exists(p) /\ p \notin inFlight /\ StopAndWait("update", p, c, stored)
        BY <1>9 DEF handleProjectUpdate
    <2> HIDE DEF stored
    <2> QED
        BY <1>1, <2>1, <2>2, StorageStopAndWait
<1>10. CASE handleProjectDisable(p)
    <2> DEFINE c == [mgr[p] EXCEPT !.enabled = FALSE]
               stored == [disk EXCEPT ![p] = Stored(c)]
    <2>1. c \in Configs /\ c \in Held /\ Stored(c) \in Held
        BY <1>2, <1>10, ConfigFacts, StoredFacts DEF handleProjectDisable, Held
    <2>2. Exists(p) /\ p \notin inFlight /\ StopAndWait("disable", p, c, stored)
        BY <1>10 DEF handleProjectDisable
    <2>4. Limit(c) = Limit(mgr[p])
        BY <1>2, <2>2, LimitFacts
    <2> HIDE DEF c
    <2>3. /\ stored \in [Projects -> Held]
          /\ stored[p] = Stored(c)
          /\ \A q \in Projects \ {p} : stored[q] = disk[q]
        BY <2>1 DEF ControlTypeOK
    <2> HIDE DEF stored
    <2> QED
        BY <2>1, <2>2, <2>3, <2>4, StorageStopAndWait
<1>11. CASE handleProjectDelete(p)
    <2>1. Exists(p) /\ p \notin inFlight /\ StopAndWait("delete", p, NoProject, disk)
        BY <1>11 DEF handleProjectDelete
    <2>2. disk \in [Projects -> Held]
        BY DEF ControlTypeOK
    <2> QED
        BY <1>2, <2>1, <2>2, StorageStopAndWait
<1>12. CASE handleProjectReload(p)
    <2>1. /\ p \notin inFlight
          /\ disk[p] # NoProject
          /\ StopAndWait("reload", p, disk[p], disk)
        BY <1>12 DEF handleProjectReload
    <2>2. disk \in [Projects -> Held]
        BY DEF ControlTypeOK
    <2>3. Exists(p) /\ disk[p] \in Configs /\ disk[p].valid
        BY <1>2, <2>1 DEF StorageInv, Held
    <2> QED
        BY <1>2, <2>1, <2>2, <2>3, StorageStopAndWait
<1>13. ASSUME \/ handleProjectStart(p)
              \/ handleProjectStop(p)
              \/ \E s \in Slots : handleInstanceTerminate(p, s)
       PROVE  StorageInv'
    <2>1. UNCHANGED <<mgr, disk, unsynced, inFlight, stack>>
        BY <1>13 DEF handleProjectStart, handleProjectStop, handleInstanceTerminate,
                     controlVars
    <2> QED
        BY <2>1, StorageOfNone DEF Exists
<1> QED
    BY <1>7, <1>8, <1>9, <1>10, <1>11, <1>12, <1>13 DEF ProjectRequest

(* A handler that ends after its wait, in whichever way, leaves them together. *)
LEMMA StorageWaitEnds ==
    ASSUME ControlTypeOK, MutationsExclusive, StorageInv,
           WaitSucceeds \/ GraceExpires \/ WaitFails
    PROVE  StorageInv'
<1>1. stack # <<>>
    BY DEF WaitSucceeds, GraceExpires, WaitFails
<1>0. PICK f \in HeldFrame : f = Top
    BY <1>1, TopFacts
<1>2. /\ Len(stack) \in DOMAIN stack
      /\ f = stack[Len(stack)]
      /\ f.op \in {"update", "delete", "reload", "disable"}
      /\ f.p \in Projects
      /\ f.new \in Held
      /\ Exists(f.p)
      /\ HandlerStorage(f)
    BY <1>0, <1>1, TopFacts, FrameFacts DEF Top, StorageInv, HandlersHaveProjects
<1>3. ASSUME Pop
      PROVE  /\ \A i \in DOMAIN stack' :
                   stack'[i].p # f.p /\ i \in DOMAIN stack /\ stack'[i] = stack[i]
             /\ \A q \in Projects \ {f.p} : q \in inFlight => q \in inFlight'
    <2>1. /\ DOMAIN stack = 1 .. Len(stack)
          /\ Len(stack) \in Nat \ {0}
          /\ DOMAIN stack' = 1 .. (Len(stack) - 1)
          /\ \A i \in DOMAIN stack' : stack'[i] = stack[i]
        BY <1>1, <1>3, PopFacts DEF Pop, ControlTypeOK
    <2>2. inFlight' = inFlight \ {f.p}
        BY <1>0, <1>3 DEF Pop
    <2>3. \A i \in DOMAIN stack' : i \in DOMAIN stack /\ i # Len(stack)
        BY <2>1
    <2>4. \A i \in DOMAIN stack' : stack[i].p # f.p
        BY <1>2, <2>3 DEF MutationsExclusive
    <2> QED
        BY <2>1, <2>2, <2>3, <2>4
<1>4. mgr[f.p] \in Configs
    BY <1>2 DEF ControlTypeOK, Held, Exists
<1>5. CASE WaitSucceeds
    <2>1. Complete(f.op, f.p, f.new, disk, {}) /\ Pop
        BY <1>0, <1>5 DEF WaitSucceeds
    <2>2. disk \in [Projects -> Held]
        BY DEF ControlTypeOK
    <2>3. f.op \in {"update", "disable"} => f.new \in Configs /\ disk[f.p] = Stored(f.new)
        BY <1>2 DEF HandlerStorage, Held
    <2>4. f.op = "reload" => f.new \in Configs /\ f.new.valid /\ disk[f.p] = f.new
        BY <1>2 DEF HandlerStorage, Held, StorageInv
    <2> QED
        BY <1>2, <1>3, <2>1, <2>2, <2>3, <2>4, StorageComplete
<1>6. CASE GraceExpires
    <2>1. /\ stack' = [stack EXCEPT ![Len(stack)] = [f EXCEPT !.wait = "drain"]]
          /\ UNCHANGED <<mgr, disk, inFlight, unsynced>>
        BY <1>0, <1>6 DEF GraceExpires, Top
    <2>2. /\ [f EXCEPT !.wait = "drain"].op = f.op
          /\ [f EXCEPT !.wait = "drain"].p = f.p
          /\ [f EXCEPT !.wait = "drain"].new = f.new
        BY <1>2, FrameFacts DEF HeldFrame
    <2>3. /\ DOMAIN stack' = DOMAIN stack
          /\ \A i \in DOMAIN stack : /\ stack'[i].op = stack[i].op
                                     /\ stack'[i].p = stack[i].p
                                     /\ stack'[i].new = stack[i].new
        BY <1>2, <2>1, <2>2
    <2> QED
        BY <2>1, <2>3, StorageOfNone DEF Exists
<1>7. CASE WaitFails
    <2>1. GiveUp(f.op, f.p) /\ Pop
        BY <1>0, <1>7 DEF WaitFails
    <2>2. /\ mgr' = mgr
          /\ \A q \in Projects \ {f.p} : disk'[q] = disk[q]
          /\ \A q \in Projects : q \in unsynced => q \in unsynced'
        BY <1>2, <2>1 DEF GiveUp, ControlTypeOK
    <2>3. disk'[f.p] \in {disk[f.p], Stored(mgr[f.p])}
        BY <1>2, <2>1 DEF GiveUp, ControlTypeOK
    <2>4. f.p \in unsynced' \/ disk'[f.p] = Stored(mgr[f.p])
        <3>1. CASE f.op \in {"update", "disable"}
            BY <1>2, <2>1, <3>1 DEF GiveUp, ControlTypeOK
        <3>2. CASE f.op \in {"delete", "reload"}
            BY <1>2, <2>1, <3>2 DEF GiveUp, HandlerStorage
        <3> QED
            BY <1>2, <3>1, <3>2
    <2>5. disk'[f.p] # NoProject => disk'[f.p].valid
        <3>1. Stored(mgr[f.p]).valid
            BY <1>4, StoredFacts
        <3>2. disk[f.p] # NoProject => disk[f.p].valid
            BY <1>2 DEF StorageInv
        <3> QED
            BY <2>3, <3>1, <3>2
    <2>6. Exists(f.p)'
        BY <1>2, <2>2 DEF Exists
    <2>7. \A i \in DOMAIN stack' :
             /\ stack'[i].p # f.p
             /\ i \in DOMAIN stack
             /\ stack'[i] = stack[i]
             /\ stack[i].p \in Projects
        BY <1>3, <2>1, FrameFacts
    <2>8. \A q \in Projects \ {f.p} :
             /\ mgr'[q] = mgr[q]
             /\ disk'[q] = disk[q]
             /\ q \in unsynced => q \in unsynced'
             /\ q \in inFlight => q \in inFlight'
        BY <1>3, <2>1, <2>2
    <2>9. \/ f.p \in inFlight' \cup unsynced'
          \/ disk'[f.p] = IF Exists(f.p)' THEN Stored(mgr'[f.p]) ELSE NoProject
        BY <2>2, <2>4, <2>6
    <2> QED
        BY <1>2, <2>5, <2>6, <2>7, <2>8, <2>9, StorageOfOne
<1> QED
    BY <1>5, <1>6, <1>7

(* Every step of the server keeps storage and memory together. *)
LEMMA StorageStep ==
    ASSUME ControlTypeOK, MutationsExclusive, StorageInv, [ServerNext]_serverVars
    PROVE  StorageInv'
<1>1. ASSUME NEW revalidate \in BOOLEAN, NEW restart \in BOOLEAN,
             NEW stopInvalid \in BOOLEAN,
             rescanServices(revalidate, restart, stopInvalid)
      PROVE  StorageInv'
    <2>1. /\ mgr' = IF revalidate
                    THEN [p \in Projects |-> IF Exists(p) THEN Validated(mgr[p], serviceDirs)
                                                          ELSE NoProject]
                    ELSE mgr
          /\ UNCHANGED <<disk, unsynced, inFlight, stack>>
        BY <1>1 DEF rescanServices
    <2>2. ASSUME NEW q \in Projects
          PROVE  /\ Exists(q)' <=> Exists(q)
                 /\ Exists(q) => /\ Stored(mgr'[q]) = Stored(mgr[q])
                                 /\ Limit(mgr'[q]) = Limit(mgr[q])
        <3>1. CASE Exists(q)
            <4>1. mgr[q] \in Configs
                BY <3>1 DEF Exists, ControlTypeOK, Held
            <4>2. /\ Validated(mgr[q], serviceDirs) \in Configs
                  /\ Stored(Validated(mgr[q], serviceDirs)) = Stored(mgr[q])
                  /\ Limit(Validated(mgr[q], serviceDirs)) = Limit(mgr[q])
                BY <4>1, ValidatedFacts
            <4>3. mgr'[q] \in {mgr[q], Validated(mgr[q], serviceDirs)}
                BY <2>1, <3>1
            <4> QED
                BY <3>1, <4>1, <4>2, <4>3, ConfigFacts DEF Exists
        <3>2. CASE ~Exists(q)
            BY <2>1, <3>2 DEF Exists
        <3> QED
            BY <3>1, <3>2
    <2> QED
        BY <2>1, <2>2, StorageOfNone
<1>2. ASSUME NEW v \in Services, NEW force \in BOOLEAN, NEW removed \in BOOLEAN,
             deleteService(v, force, removed)
      PROVE  StorageInv'
    <2>1. /\ \A q \in Projects : \/ mgr'[q] = mgr[q]
                                 \/ Exists(q) /\ mgr'[q] = [mgr[q] EXCEPT !.valid = FALSE]
          /\ UNCHANGED <<disk, unsynced, inFlight, stack>>
        BY <1>2 DEF deleteService
    <2>2. ASSUME NEW q \in Projects
          PROVE  /\ Exists(q)' <=> Exists(q)
                 /\ Exists(q) => /\ Stored(mgr'[q]) = Stored(mgr[q])
                                 /\ Limit(mgr'[q]) = Limit(mgr[q])
        <3>1. CASE mgr'[q] = mgr[q]
            BY <3>1 DEF Exists
        <3>2. CASE Exists(q) /\ mgr'[q] = [mgr[q] EXCEPT !.valid = FALSE]
            <4>1. mgr[q] \in Configs
                BY <3>2 DEF Exists, ControlTypeOK, Held
            <4>2. /\ mgr'[q] \in Configs
                  /\ Stored(mgr'[q]) = Stored(mgr[q])
                  /\ Limit(mgr'[q]) = Limit(mgr[q])
                BY <3>2, <4>1, ConfigFacts, StoredFacts, LimitFacts
            <4> QED
                BY <4>1, <4>2, ConfigFacts DEF Exists
        <3> QED
            BY <2>1, <3>1, <3>2
    <2> QED
        BY <2>1, <2>2, StorageOfNone
<1>3. ASSUME UNCHANGED <<mgr, disk, unsynced, inFlight, stack>>
      PROVE  StorageInv'
    BY <1>3, StorageOfNone DEF Exists
<1>4. ASSUME NEW v \in Services, createService(v) \/ ServiceDirChanges(v)
      PROVE  StorageInv'
    BY <1>3, <1>4 DEF createService, ServiceDirChanges
<1>5. CASE ServiceRequest
    BY <1>1, <1>2, <1>4, <1>5 DEF ServiceRequest
<1>6. CASE Boot \/ ShutdownBegins \/ ShutdownGraceExpires \/ ServerExits
    BY <1>3, <1>6 DEF Boot, ShutdownBegins, ShutdownGraceExpires, ServerExits
<1>7. ASSUME NEW p \in Projects, NEW v \in Services, FixedRateTimer(p, v) \/ RestartTimer(p, v)
      PROVE  StorageInv'
    BY <1>3, <1>7 DEF FixedRateTimer, RestartTimer, controlVars
<1>8. ASSUME NEW p \in Projects, NEW s \in Slots, InstanceEvent(p, s)
      PROVE  StorageInv'
    BY <1>3, <1>8 DEF InstanceEvent, controlVars
<1>9. CASE UNCHANGED serverVars
    BY <1>3, <1>9 DEF serverVars
<1> QED
    BY <1>5, <1>6, <1>7, <1>8, <1>9, StorageProjectRequest, StorageWaitEnds DEF ServerNext

-----------------------------------------------------------------------------
(***************************************************************************)
(* The inductive invariant.  The types depend on exclusion and storage (a  *)
(* handler that gives up writes back a project that must exist), and those *)
(* on the types.                                                           *)
(***************************************************************************)
ServerInv ==
    /\ IInv
    /\ ControlTypeOK
    /\ MutationsExclusive
    /\ StorageInv

(* The server starts with the projects that are in storage and no handler. *)
LEMMA ServerInitInv == ServerInit => ServerInv
<1> SUFFICES ASSUME ServerInit PROVE ServerInv
    OBVIOUS
<1>1. IInv
    BY InitIInv DEF ServerInit
<1>2. mgr \in [Projects -> Held] /\ disk = mgr
    BY ServerAssumption DEF ServerInit, ValidConfigs, Held
<1>3. stack = <<>> /\ inFlight = {} /\ <<>> \in Seq(HeldFrame) /\ DOMAIN stack = {}
    BY EmptySeq, LenProperties DEF ServerInit
<1>4. ControlTypeOK
    BY <1>2, <1>3 DEF ServerInit, ControlTypeOK
<1>5. MutationsExclusive
    BY <1>3 DEF MutationsExclusive
<1>6. ASSUME NEW p \in Projects
      PROVE  /\ disk[p] # NoProject => disk[p].valid
             /\ ~Exists(p) => disk[p] = NoProject
             /\ disk[p] = IF Exists(p) THEN Stored(mgr[p]) ELSE NoProject
    <2>1. mgr[p] = NoProject \/ (mgr[p] \in Configs /\ mgr[p].valid)
        BY ServerAssumption DEF ServerInit, ValidConfigs
    <2> QED
        BY <1>2, <2>1, StoredFacts DEF Exists
<1>7. StorageInv
    BY <1>3, <1>6 DEF StorageInv, DiskMatchesMemory, HandlersHaveProjects
<1> QED
    BY <1>1, <1>4, <1>5, <1>7 DEF ServerInv

(* Every step takes a state of the invariant to one. *)
LEMMA ServerNextInv == ServerInv /\ [ServerNext]_serverVars => ServerInv'
<1> SUFFICES ASSUME ServerInv, [ServerNext]_serverVars PROVE ServerInv'
    OBVIOUS
<1>1. ControlTypeOK /\ MutationsExclusive /\ StorageInv /\ HandlersHaveProjects
    BY DEF ServerInv, StorageInv
<1>2. [Next]_vars /\ ControlTypeOK'
    BY <1>1, ServerNextStep
<1>3. IInv'
    BY <1>2, NextIInv DEF ServerInv
<1>4. MutationsExclusive' /\ StorageInv'
    BY <1>1, ExclusionStep, StorageStep
<1> QED
    BY <1>2, <1>3, <1>4 DEF ServerInv

(* ServerInv is an invariant. *)
LEMMA ServerInvariance == ServerSpec => []ServerInv
BY ServerInitInv, ServerNextInv, PTL DEF ServerSpec

-----------------------------------------------------------------------------
(***************************************************************************)
(* Every run of the server, whatever clients, processes, timers and the    *)
(* file system do, is a run of the scheduler under arbitrary callers: the  *)
(* handlers only ever hand it project maps and configurations it expects.  *)
(***************************************************************************)
THEOREM ServerImplementsEngine == ServerSpec => ImplementsEngine
<1>1. ServerInit => Init
    BY DEF ServerInit
<1>2. ServerInv /\ [ServerNext]_serverVars => [Next]_vars
    BY ServerNextStep DEF ServerInv, StorageInv
<1> QED
    BY <1>1, <1>2, ServerInvariance, PTL DEF ServerSpec, ImplementsEngine, Spec

(* The state of the server and of the scheduler keeps its types. *)
THEOREM ServerTypeCorrect == ServerSpec => []ServerTypeOK
<1>1. ServerInv => ServerTypeOK
    <2> SUFFICES ASSUME ServerInv PROVE ServerTypeOK
        OBVIOUS
    <2>1. TypeOK /\ ControlTypeOK
        BY DEF ServerInv, IInv
    <2>2. Held \subseteq Project
        BY ProjectTypes DEF Held
    <2>3. HeldFrame \subseteq Frame
        BY <2>2 DEF HeldFrame, Frame
    <2>4. stack \in Seq(Frame)
        BY <2>1, <2>3, LenProperties, SeqDef DEF ControlTypeOK
    <2> QED
        BY <2>1, <2>2, <2>4 DEF ServerTypeOK, ControlTypeOK
<1> QED
    BY <1>1, ServerInvariance, PTL

(***************************************************************************)
(* Handlers of one project exclude each other at any depth of nested event *)
(* loops, and a project is released by exactly the handler that took it.   *)
(***************************************************************************)
THEOREM HandlersExclude == ServerSpec => []MutationsExclusive
<1>1. ServerInv => MutationsExclusive
    BY DEF ServerInv
<1> QED
    BY <1>1, ServerInvariance, PTL

(***************************************************************************)
(* When no handler is at work on a project, storage and memory agree on    *)
(* it, unless a client was told that storage failed.                       *)
(***************************************************************************)
THEOREM StorageAgrees == ServerSpec => []DiskMatchesMemory
<1>1. ServerInv => DiskMatchesMemory
    BY DEF ServerInv, StorageInv
<1> QED
    BY <1>1, ServerInvariance, PTL

(***************************************************************************)
(* What is proved of the scheduler under arbitrary callers holds in the    *)
(* server: crash loops end, no timer is lost or stale, and neither a       *)
(* shutdown nor a stopped project sees a scheduled start.                  *)
(***************************************************************************)
THEOREM ServerKeepsEngineGuarantees ==
    ServerSpec => /\ [](FailuresBelowLimit /\ NoOrphanTimer /\ TimerServesItsProject)
                  /\ ShutdownStartsNothing
                  /\ StoppedStaysDown
BY ServerImplementsEngine, CrashLoopsEnd, TimersAreKnown, TimersAreCurrent,
   NothingAfterShutdown, NothingWhileStopped, PTL DEF ImplementsEngine

-----------------------------------------------------------------------------
(* No instance that the scheduler started is left alone. *)
Quiet ==
    \A p \in Projects, s \in Slots :
        IsLive(inst, p, s) => inst[p][s].killed \/ inst[p][s].origin = "api"

(***************************************************************************)
(* From shutdown() on the instances are killed, and nothing but a request  *)
(* of a client starts one.                                                 *)
(***************************************************************************)
ShutdownInv ==
    /\ phase \in {"closing", "draining", "exited"} => shuttingDown
    /\ shuttingDown => Quiet

(* kill() leaves no instance of its projects alone, and the others as they were. *)
LEMMA KillQuiet ==
    ASSUME TypeOK, NEW P, inst' = KillProjects(inst, P), Quiet \/ P = Projects
    PROVE  Quiet'
<1>1. ASSUME NEW p \in Projects, NEW s \in Slots
      PROVE  IsLive(inst', p, s) => inst'[p][s].killed \/ inst'[p][s].origin = "api"
    <2>1. inst[p][s] \in Instance
        BY DEF TypeOK, Tables
    <2>2. inst'[p][s] = IF p \in P THEN Kill(inst[p][s]) ELSE inst[p][s]
        BY DEF KillProjects
    <2>3. CASE p \in P
        BY <2>1, <2>2, <2>3 DEF Kill, Instance, IsLive
    <2>4. CASE p \notin P
        BY <2>2, <2>4 DEF Quiet, IsLive
    <2> QED
        BY <2>3, <2>4
<1> QED
    BY <1>1 DEF Quiet

(* A changed entry that is gone, killed, or of the same kind as before. *)
LEMMA WriteQuiet ==
    ASSUME TypeOK, Quiet, NEW p \in Projects, NEW s, NEW r,
           inst' = [inst EXCEPT ![p][s] = r],
           r.status # "none" => r.killed \/ r.origin = "api"
    PROVE  Quiet'
BY DEF TypeOK, Tables, Quiet, IsLive

(* No step of the scheduler leaves an instance of its own alone in a shutdown. *)
LEMMA QuietStep ==
    ASSUME TypeOK, shuttingDown => Quiet, [Next]_vars, shuttingDown'
    PROVE  Quiet'
<1>1. ASSUME NEW P, Quiet, inst' = KillProjects(inst, P)
      PROVE  Quiet'
    BY <1>1, KillQuiet
<1>2. ASSUME Quiet, inst' = inst
      PROVE  Quiet'
    BY <1>2 DEF Quiet, IsLive
<1>3. ASSUME shuttingDown, NEW t \in Tables, NEW ps \in [Projects -> Project],
             NEW svcs, NEW D, D \subseteq DaemonsDue(t, ps, svcs),
             inst' = StartDaemons(t, D, ps)
      PROVE  \A p \in Projects : inst'[p] = t[p]
    BY <1>3, StartDaemonsTypes DEF DaemonsDue
<1>4. ASSUME NEW ps \in ProjectMaps, NEW svcs \in SUBSET Services,
             NEW K \in SUBSET Projects, NEW ok \in SUBSET Projects,
             StartAll(ps, svcs, K, ok)
      PROVE  Quiet'
    <2> DEFINE killed == KillProjects(inst, K)
               D == DaemonsDue(killed, ps, svcs) \cap ok
    <2>1. shuttingDown /\ Quiet
        BY <1>4 DEF StartAll
    <2>2. killed \in Tables /\ inst' = StartDaemons(killed, D, ps)
        BY <1>4, KillTypes DEF StartAll, TypeOK
    <2>3. ps \in [Projects -> Project] /\ D \subseteq DaemonsDue(killed, ps, svcs)
        BY ProjectTypes DEF ProjectMaps
    <2>4. inst' = killed
        <3> HIDE DEF killed, D
        <3>1. \A p \in Projects : inst'[p] = killed[p]
            BY <1>3, <2>1, <2>2, <2>3
        <3>2. inst' \in Tables
            BY <2>2, <2>3, StartDaemonsTypes
        <3> QED
            BY <2>2, <3>1, <3>2 DEF Tables
    <2> QED
        BY <1>1, <2>1, <2>4
<1>5. ASSUME NEW p \in Projects, NEW c \in Configs, NEW svcs \in SUBSET Services,
             NEW ok \in SUBSET Projects, StartProject(p, c, svcs, ok)
      PROVE  Quiet'
    <2> DEFINE ps == [projects EXCEPT ![p] = c]
               D == DaemonsDue(inst, ps, svcs) \cap ok \cap {p}
    <2>1. shuttingDown /\ Quiet /\ inst \in Tables
        BY <1>5 DEF StartProject, TypeOK
    <2>2. inst' = StartDaemons(inst, D, ps)
        BY <1>5 DEF StartProject
    <2>3. ps \in [Projects -> Project] /\ D \subseteq DaemonsDue(inst, ps, svcs)
        BY ProjectTypes DEF TypeOK
    <2>4. inst' = inst
        <3> HIDE DEF ps, D
        <3>1. \A q \in Projects : inst'[q] = inst[q]
            BY <1>3, <2>1, <2>2, <2>3
        <3>2. inst' \in Tables
            BY <2>1, <2>2, <2>3, StartDaemonsTypes
        <3> QED
            BY <2>1, <3>1, <3>2 DEF Tables
    <2> QED
        BY <1>2, <2>1, <2>4
<1>6. ASSUME NEW P \in SUBSET Projects, StopProjects(P) \/ TerminateByProject(P)
      PROVE  Quiet'
    <2>1. Quiet /\ inst' = KillProjects(inst, P)
        BY <1>6 DEF StopProjects, TerminateByProject, engineVars
    <2> QED
        BY <1>1, <2>1
<1>7. ASSUME NEW p \in Projects, NEW c \in Configs, NEW ok \in BOOLEAN,
             ResumeAndStart(p, c, ok)
      PROVE  Quiet'
    <2>1. Quiet
        BY <1>7 DEF ResumeAndStart
    <2>2. CASE inst' = inst
        BY <1>2, <2>1, <2>2
    <2>3. CASE inst' = StartInstance(inst, p, c, c.service, "api")
        <3> DEFINE x == CHOOSE y \in FreeSlots(inst, p) : TRUE
                   r == NewInstance(c.runTimeout, c.service, "api")
        <3>1. inst' = [inst EXCEPT ![p][x] = r] /\ r.origin = "api"
            BY <2>3 DEF StartInstance, Emplace, NewInstance
        <3> HIDE DEF x, r
        <3> QED
            BY <2>1, <3>1, WriteQuiet
    <2> QED
        BY <1>7, <2>2, <2>3 DEF ResumeAndStart
<1>8. ASSUME NEW p \in Projects, NEW s \in Slots,
             TerminateInstance(p, s) \/ ProcessEvent(p, s)
      PROVE  Quiet'
    <2>1. inst[p][s] \in Instance
        BY DEF TypeOK, Tables
    <2>2. Quiet
        BY <1>8 DEF TerminateInstance, ProcessEvent, ProcessStarted, StartTimeout,
                    RunTimeout, ProcessFinished, engineVars
    <2> DEFINE r == inst[p][s]
    <2>3. r.status # "none" => r.killed \/ r.origin = "api"
        BY <2>2 DEF Quiet, IsLive
    <2>4. CASE TerminateInstance(p, s)
        <3>1. inst' = [inst EXCEPT ![p][s] = Kill(r)]
            BY <2>4 DEF TerminateInstance
        <3>2. Kill(r).status # "none" => Kill(r).killed
            BY <2>1 DEF Kill, Instance
        <3> QED
            BY <2>2, <3>1, <3>2, WriteQuiet
    <2>5. CASE ProcessStarted(p, s)
        <3>1. inst' = [inst EXCEPT ![p][s] = Started(r)] /\ r.status # "none"
            BY <2>5 DEF ProcessStarted
        <3>2. Started(r).killed = r.killed /\ Started(r).origin = r.origin
            BY <2>1 DEF Started, Instance
        <3> QED
            BY <2>2, <2>3, <3>1, <3>2, WriteQuiet
    <2>6. CASE StartTimeout(p, s)
        <3>1. inst' = [inst EXCEPT ![p][s] = StartTimedOut(r)]
            BY <2>6 DEF StartTimeout
        <3>2. StartTimedOut(r).killed
            BY <2>1 DEF StartTimedOut, Instance
        <3> QED
            BY <2>2, <3>1, <3>2, WriteQuiet
    <2>7. CASE RunTimeout(p, s)
        <3>1. inst' = [inst EXCEPT ![p][s] = WatchdogExpired(r)]
            BY <2>7 DEF RunTimeout
        <3>2. WatchdogExpired(r).killed
            BY <2>1 DEF WatchdogExpired, Instance
        <3> QED
            BY <2>2, <3>1, <3>2, WriteQuiet
    <2>8. CASE \E abnormal \in BOOLEAN : ProcessFinished(p, s, abnormal)
        <3>1. inst' = [inst EXCEPT ![p][s] = NoInstance] /\ NoInstance.status = "none"
            BY <2>8 DEF ProcessFinished, Erase, NoInstance
        <3> QED
            BY <2>2, <3>1, WriteQuiet
    <2> QED
        BY <1>8, <2>4, <2>5, <2>6, <2>7, <2>8 DEF ProcessEvent
<1>9. CASE Shutdown
    BY <1>9, KillQuiet DEF Shutdown
<1>10. ASSUME NEW p \in Projects, NEW v \in Services,
              FixedRateTick(p, v) \/ \E ok \in BOOLEAN : RestartFires(p, v, ok)
       PROVE  Quiet'
    <2>1. shuttingDown /\ inst' = inst
        BY <1>10 DEF FixedRateTick, RestartFires, engineVars
    <2> QED
        BY <1>2, <2>1
<1>11. CASE UNCHANGED vars
    BY <1>2, <1>11 DEF vars
<1> QED
    BY <1>4, <1>5, <1>6, <1>7, <1>8, <1>9, <1>10, <1>11 DEF Next, CallerStep, TimerStep

(* shutdown() is not taken back. *)
LEMMA ShuttingDownStays ==
    ASSUME [Next]_vars, shuttingDown
    PROVE  shuttingDown'
BY DEF Next, CallerStep, TimerStep, StartAll, StartProject, StopProjects, ResumeAndStart,
       Shutdown, TerminateInstance, TerminateByProject, FixedRateTick, RestartFires,
       ProcessEvent, ProcessStarted, StartTimeout, RunTimeout, ProcessFinished,
       engineVars, vars

(* Only shutdown() leaves the phases in which the server serves. *)
LEMMA PhaseStep ==
    ASSUME [ServerNext]_serverVars, phase' \in {"closing", "draining", "exited"}
    PROVE  shuttingDown' \/ phase \in {"closing", "draining", "exited"}
<1>1. ASSUME NEW p \in Projects, ProjectRequest(p)
      PROVE  phase' = phase
    BY <1>1 DEF ProjectRequest, handleProjectCreate, handleProjectUpdate, handleProjectStart,
       handleProjectStop, handleProjectEnable, handleProjectDisable, handleProjectDelete,
       handleProjectReload, handleInstanceTerminate, controlVars
<1>2. ASSUME ServiceRequest
      PROVE  phase' = phase
    BY <1>2 DEF ServiceRequest, rescanServices, deleteService, createService,
                ServiceDirChanges
<1>3. ASSUME WaitSucceeds \/ GraceExpires \/ WaitFails
      PROVE  phase' = phase
    BY <1>3 DEF WaitSucceeds, GraceExpires, WaitFails, Pop
<1>4. ASSUME Boot
      PROVE  phase' = "serving"
    BY <1>4 DEF Boot
<1>5. ASSUME ShutdownBegins
      PROVE  shuttingDown'
    BY <1>5 DEF ShutdownBegins, Shutdown
<1>6. ASSUME ShutdownGraceExpires \/ ServerExits
      PROVE  phase \in {"closing", "draining"}
    BY <1>6 DEF ShutdownGraceExpires, ServerExits
<1>7. ASSUME NEW p \in Projects, NEW v \in Services, FixedRateTimer(p, v) \/ RestartTimer(p, v)
      PROVE  phase' = phase
    BY <1>7 DEF FixedRateTimer, RestartTimer, controlVars
<1>8. ASSUME NEW p \in Projects, NEW s \in Slots, InstanceEvent(p, s)
      PROVE  phase' = phase
    BY <1>8 DEF InstanceEvent, controlVars
<1>9. CASE UNCHANGED serverVars
    BY <1>9 DEF serverVars
<1> QED
    BY <1>1, <1>2, <1>3, <1>4, <1>5, <1>6, <1>7, <1>8, <1>9 DEF ServerNext

(***************************************************************************)
(* The server exits with every instance that the scheduler started gone or *)
(* killed: what is left alone a client asked for during the shutdown.      *)
(***************************************************************************)
THEOREM ExitIsClean == ServerSpec => []ExitLeavesNothingScheduled
<1>1. ServerInit => ShutdownInv
    BY DEF ServerInit, Init, ShutdownInv
<1>2. ServerInv /\ ShutdownInv /\ [ServerNext]_serverVars => ShutdownInv'
    <2> SUFFICES ASSUME ServerInv, ShutdownInv, [ServerNext]_serverVars
                 PROVE  ShutdownInv'
        OBVIOUS
    <2>1. [Next]_vars /\ TypeOK
        BY ServerNextStep DEF ServerInv, StorageInv, IInv
    <2>2. phase' \in {"closing", "draining", "exited"} => shuttingDown'
        BY <2>1, PhaseStep, ShuttingDownStays DEF ShutdownInv
    <2>3. shuttingDown' => Quiet'
        BY <2>1, QuietStep DEF ShutdownInv
    <2> QED
        BY <2>2, <2>3 DEF ShutdownInv
<1>3. ShutdownInv => ExitLeavesNothingScheduled
    BY DEF ShutdownInv, Quiet, ExitLeavesNothingScheduled
<1> QED
    BY <1>1, <1>2, <1>3, ServerInvariance, PTL DEF ServerSpec

-----------------------------------------------------------------------------
(* Fewer entries of a project in use are fewer instances; one more, one more. *)
LEMMA CountFacts ==
    ASSUME NEW t, NEW t2, NEW p, NEW x,
           LiveSlots(t2, p) \subseteq LiveSlots(t, p) \cup {x}
    PROVE  /\ instanceCount(t, p) \in Nat
           /\ instanceCount(t2, p) \in Nat
           /\ instanceCount(t2, p) <= instanceCount(t, p) + 1
           /\ LiveSlots(t2, p) \subseteq LiveSlots(t, p) =>
                 instanceCount(t2, p) <= instanceCount(t, p)
<1>1. IsFiniteSet(LiveSlots(t, p)) /\ IsFiniteSet(LiveSlots(t2, p))
    BY SlotsAssumption, FS_Subset DEF LiveSlots
<1>2. Cardinality(LiveSlots(t, p)) \in Nat /\ Cardinality(LiveSlots(t2, p)) \in Nat
    BY <1>1, FS_CardinalityType
<1> DEFINE more == LiveSlots(t, p) \cup {x}
<1>3. IsFiniteSet(more) /\ Cardinality(more) <= Cardinality(LiveSlots(t, p)) + 1
    BY <1>1, <1>2, FS_AddElement
<1>4. Cardinality(LiveSlots(t2, p)) <= Cardinality(more) /\ Cardinality(more) \in Nat
    BY <1>3, FS_Subset, FS_CardinalityType
<1>5. LiveSlots(t2, p) \subseteq LiveSlots(t, p) =>
         Cardinality(LiveSlots(t2, p)) <= Cardinality(LiveSlots(t, p))
    BY <1>1, FS_Subset
<1> HIDE DEF more
<1> QED
    BY <1>2, <1>3, <1>4, <1>5 DEF instanceCount

(* startInstance adds at most one instance. *)
LEMMA StartCount ==
    ASSUME NEW t \in Tables, NEW t2, NEW p \in Projects, NEW c, NEW v, NEW o,
           t2[p] = StartInstance(t, p, c, v, o)[p]
    PROVE  /\ instanceCount(t, p) \in Nat
           /\ instanceCount(t2, p) \in Nat
           /\ instanceCount(t2, p) <= instanceCount(t, p) + 1
<1> DEFINE x == CHOOSE y \in FreeSlots(t, p) : TRUE
           r == NewInstance(c.runTimeout, v, o)
<1>1. t2[p] = [t[p] EXCEPT ![x] = r]
    BY DEF StartInstance, Emplace, Tables
<1> HIDE DEF x, r
<1>2. \A s \in Slots : s # x => t2[p][s] = t[p][s]
    BY <1>1 DEF Tables
<1>3. LiveSlots(t2, p) \subseteq LiveSlots(t, p) \cup {x}
    BY <1>2 DEF LiveSlots, IsLive
<1> QED
    BY <1>3, CountFacts

(* An unchanged row has as many instances. *)
LEMMA SameCount ==
    ASSUME NEW t, NEW t2, NEW p, t2[p] = t[p]
    PROVE  instanceCount(t2, p) = instanceCount(t, p) /\ instanceCount(t, p) \in Nat
<1>1. LiveSlots(t2, p) = LiveSlots(t, p)
    BY DEF LiveSlots, IsLive
<1>2. instanceCount(t, p) \in Nat
    BY CountFacts
<1> QED
    BY <1>1, <1>2 DEF instanceCount

(* kill() does not end an instance. *)
LEMMA KillCount ==
    ASSUME NEW t \in Tables, NEW P, NEW p \in Projects
    PROVE  instanceCount(KillProjects(t, P), p) = instanceCount(t, p)
<1>1. \A s \in Slots : IsLive(KillProjects(t, P), p, s) <=> IsLive(t, p, s)
    <2> SUFFICES ASSUME NEW s \in Slots
                 PROVE  IsLive(KillProjects(t, P), p, s) <=> IsLive(t, p, s)
        OBVIOUS
    <2>1. t[p][s] \in Instance
        BY DEF Tables
    <2>2. KillProjects(t, P)[p][s] = IF p \in P THEN Kill(t[p][s]) ELSE t[p][s]
        BY DEF KillProjects
    <2> QED
        BY <2>1, <2>2 DEF IsLive, Kill, Instance
<1>2. LiveSlots(KillProjects(t, P), p) = LiveSlots(t, p)
    BY <1>1 DEF LiveSlots
<1> QED
    BY <1>2 DEF instanceCount

(***************************************************************************)
(* What the server starts without being asked: the first instance of a     *)
(* project, or one below the limit of the engine's own copy of it.         *)
(***************************************************************************)
LEMMA UnrequestedCount ==
    ASSUME TypeOK, Unrequested, NEW p \in Projects
    PROVE  \/ instanceCount(inst', p) <= instanceCount(inst, p)
           \/ instanceCount(inst', p) <= 1
           \/ /\ projects' = projects
              /\ projects[p].type = "fixed_rate"
              /\ instanceCount(inst', p) <= projects[p].maxConcurrent
<1> DEFINE n == instanceCount(inst, p)
           m == instanceCount(inst', p)
<1>0. inst \in Tables /\ n \in Nat /\ m \in Nat
    BY CountFacts DEF TypeOK
<1>1. ASSUME NEW t \in Tables, instanceCount(t, p) = n, NEW ps \in [Projects -> Project],
             NEW svcs, NEW D, D \subseteq DaemonsDue(t, ps, svcs),
             inst' = StartDaemons(t, D, ps)
      PROVE  m <= n \/ m <= 1
    <2>1. CASE p \in D
        <3>1. instanceCount(t, p) = 0
            BY <1>1, <2>1 DEF DaemonsDue
        <3>2. inst'[p] = StartInstance(t, p, ps[p], ps[p].service, "daemon")[p]
            BY <1>1, <2>1 DEF StartDaemons
        <3>3. m <= instanceCount(t, p) + 1
            BY <3>2, StartCount
        <3> QED
            BY <1>0, <3>1, <3>3
    <2>2. CASE p \notin D
        <3>1. inst'[p] = t[p]
            BY <1>1, <2>2, StartDaemonsTypes
        <3>2. m = n
            BY <1>1, <3>1, SameCount
        <3> QED
            BY <1>0, <3>2
    <2> QED
        BY <2>1, <2>2
<1>2. ASSUME NEW ps \in ProjectMaps, NEW svcs \in SUBSET Services,
             NEW K \in SUBSET Projects, NEW ok \in SUBSET Projects,
             StartAll(ps, svcs, K, ok)
      PROVE  m <= n \/ m <= 1
    <2> DEFINE killed == KillProjects(inst, K)
               D == DaemonsDue(killed, ps, svcs) \cap ok
    <2>1. /\ killed \in Tables
          /\ inst' = StartDaemons(killed, D, ps)
          /\ D \subseteq DaemonsDue(killed, ps, svcs)
        BY <1>0, <1>2, KillTypes DEF StartAll
    <2>2. ps \in [Projects -> Project] /\ instanceCount(killed, p) = n
        BY <1>0, ProjectTypes, KillCount DEF ProjectMaps
    <2> HIDE DEF killed, D, n, m
    <2> QED
        BY <1>1, <2>1, <2>2
<1>3. ASSUME NEW q \in Projects, NEW c \in Configs, NEW svcs \in SUBSET Services,
             NEW ok \in SUBSET Projects, StartProject(q, c, svcs, ok)
      PROVE  m <= n \/ m <= 1
    <2> DEFINE ps == [projects EXCEPT ![q] = c]
               D == DaemonsDue(inst, ps, svcs) \cap ok \cap {q}
    <2>1. inst' = StartDaemons(inst, D, ps) /\ D \subseteq DaemonsDue(inst, ps, svcs)
        BY <1>3 DEF StartProject
    <2>2. ps \in [Projects -> Project]
        BY ProjectTypes DEF TypeOK
    <2> HIDE DEF ps, D, m
    <2> QED
        BY <1>0, <1>1, <2>1, <2>2
<1>4. ASSUME NEW P, inst' = KillProjects(inst, P)
      PROVE  m <= n
    BY <1>0, <1>4, KillCount
<1>5. ASSUME NEW q \in Projects, NEW s \in Slots, NEW r, inst' = [inst EXCEPT ![q][s] = r],
             r.status # "none" => inst[q][s].status # "none"
      PROVE  m <= n
    <2>1. LiveSlots(inst', p) \subseteq LiveSlots(inst, p)
        BY <1>0, <1>5 DEF LiveSlots, IsLive, Tables
    <2> QED
        BY <2>1, CountFacts
<1>6. ASSUME NEW q \in Projects, NEW s \in Slots,
             TerminateInstance(q, s) \/ ProcessEvent(q, s)
      PROVE  m <= n
    <2> DEFINE r == inst[q][s]
    <2>1. r \in Instance
        BY <1>0 DEF Tables
    <2>2. \/ inst' = [inst EXCEPT ![q][s] = Kill(r)]
          \/ inst' = [inst EXCEPT ![q][s] = Started(r)] /\ r.status # "none"
          \/ inst' = [inst EXCEPT ![q][s] = StartTimedOut(r)]
          \/ inst' = [inst EXCEPT ![q][s] = WatchdogExpired(r)]
          \/ inst' = [inst EXCEPT ![q][s] = NoInstance]
        BY <1>6 DEF TerminateInstance, ProcessEvent, ProcessStarted, StartTimeout,
                    RunTimeout, ProcessFinished, Erase
    <2>3. /\ Kill(r).status = r.status
          /\ StartTimedOut(r).status = r.status
          /\ WatchdogExpired(r).status = r.status
          /\ NoInstance.status = "none"
        BY <2>1 DEF Kill, StartTimedOut, WatchdogExpired, NoInstance, Instance
    <2> HIDE DEF m, n
    <2> QED
        BY <1>5, <2>2, <2>3
<1>7. ASSUME NEW q \in Projects, NEW v \in Services, FixedRateTick(q, v)
      PROVE  \/ m <= n
             \/ /\ projects' = projects
                /\ projects[p].type = "fixed_rate"
                /\ m <= projects[p].maxConcurrent
    <2>1. inst' = StartInstance(inst, q, projects[q], v, "fixed_rate") /\ projects' = projects
        BY <1>7 DEF FixedRateTick, engineVars
    <2>2. CASE q = p
        <3>1. m <= n + 1
            BY <1>0, <2>1, <2>2, StartCount
        <3>2. n < projects[p].maxConcurrent /\ projects[p].type = "fixed_rate"
            BY <1>7, <2>2 DEF FixedRateTick
        <3>3. projects[p].maxConcurrent \in Nat
            BY DEF TypeOK, Project
        <3> HIDE DEF m, n
        <3> QED
            BY <1>0, <2>1, <3>1, <3>2, <3>3
    <2>3. CASE q # p
        <3>1. inst'[p] = inst[p]
            BY <1>0, <2>1, <2>3 DEF StartInstance, Emplace, Tables
        <3> QED
            BY <1>0, <3>1, SameCount
    <2> QED
        BY <2>2, <2>3
<1>8. ASSUME NEW q \in Projects, NEW v \in Services, NEW ok \in BOOLEAN,
             RestartFires(q, v, ok)
      PROVE  m <= n \/ m <= 1
    <2>1. CASE inst' = inst
        BY <1>0, <2>1
    <2>2. CASE /\ inst' = StartInstance(inst, q, projects[q], v, "daemon")
               /\ instanceCount(inst, q) = 0
        <3>1. CASE q = p
            BY <1>0, <2>2, <3>1, StartCount
        <3>2. CASE q # p
            <4>1. inst'[p] = inst[p]
                BY <1>0, <2>2, <3>2 DEF StartInstance, Emplace, Tables
            <4> QED
                BY <1>0, <4>1, SameCount
        <3> QED
            BY <3>1, <3>2
    <2> QED
        BY <1>8, <2>1, <2>2 DEF RestartFires
<1>9. ASSUME NEW P \in SUBSET Projects, StopProjects(P) \/ TerminateByProject(P)
      PROVE  m <= n
    BY <1>4, <1>9 DEF StopProjects, TerminateByProject
<1>10. ASSUME Shutdown
       PROVE  m <= n
    BY <1>4, <1>10 DEF Shutdown
<1> HIDE DEF m, n
<1>11. \/ m <= n
       \/ m <= 1
       \/ /\ projects' = projects
          /\ projects[p].type = "fixed_rate"
          /\ m <= projects[p].maxConcurrent
    BY <1>2, <1>3, <1>6, <1>7, <1>8, <1>9, <1>10 DEF Unrequested, TimerStep
<1> QED
    BY <1>11 DEF m, n

-----------------------------------------------------------------------------
(* The engine's copy of a project has the limit that the manager's has. *)
LimitsAgree == \A p \in Projects : Exists(p) => Limit(projects[p]) = Limit(mgr[p])

(***************************************************************************)
(* From startScheduling on they agree; before it the engine has no project *)
(* and no handler runs.                                                    *)
(***************************************************************************)
LimitInv ==
    /\ phase = "boot" => stack = <<>> /\ \A p \in Projects : projects[p] = NoProject
    /\ phase # "boot" => LimitsAgree

(* startScheduling hands the manager's map to the engine. *)
LEMMA SchedulingAgrees ==
    ASSUME NEW svcs, NEW K, StartScheduling(mgr', svcs, K)
    PROVE  LimitsAgree'
BY DEF StartScheduling, StartAll, LimitsAgree

(* Nothing is installed that the engine would not be told of, but for a disable. *)
LEMMA KeptAgrees ==
    ASSUME LimitsAgree, projects' = projects,
           \A p \in Projects : Exists(p)' => Exists(p) /\ Limit(mgr'[p]) = Limit(mgr[p])
    PROVE  LimitsAgree'
BY DEF LimitsAgree, Exists

(* The end of a handler. *)
LEMMA CompleteAgrees ==
    ASSUME ControlTypeOK, LimitsAgree, NEW op, NEW p \in Projects, NEW new, NEW stored,
           NEW stopping, Complete(op, p, new, stored, stopping), Exists(p),
           op = "disable" => Limit(new) = Limit(mgr[p])
    PROVE  LimitsAgree'
<1>1. CASE StartScheduling(mgr', mgrServices, {})
    BY <1>1, SchedulingAgrees
<1>2. CASE op = "disable" /\ mgr' = [mgr EXCEPT ![p] = new] /\ StopProjects(stopping)
    <2>1. /\ projects' = projects
          /\ mgr'[p] = new
          /\ \A q \in Projects \ {p} : mgr'[q] = mgr[q]
        BY <1>2 DEF StopProjects, ControlTypeOK
    <2>2. \A q \in Projects : Exists(q)' => Exists(q) /\ Limit(mgr'[q]) = Limit(mgr[q])
        BY <1>2, <2>1 DEF Exists
    <2> QED
        BY <2>1, <2>2, KeptAgrees
<1>3. CASE mgr' = [mgr EXCEPT ![p] = NoProject] /\ StopProjects(stopping)
    <2>1. /\ projects' = projects
          /\ mgr'[p] = NoProject
          /\ \A q \in Projects \ {p} : mgr'[q] = mgr[q]
        BY <1>3 DEF StopProjects, ControlTypeOK
    <2>2. \A q \in Projects : Exists(q)' => Exists(q) /\ Limit(mgr'[q]) = Limit(mgr[q])
        BY <2>1 DEF Exists
    <2> QED
        BY <2>1, <2>2, KeptAgrees
<1>4. CASE mgr' = mgr /\ StartScheduling(mgr, mgrServices, {})
    <2>1. projects' = mgr
        BY <1>4 DEF StartScheduling, StartAll
    <2> QED
        BY <1>4, <2>1 DEF LimitsAgree
<1> QED
    BY <1>1, <1>2, <1>3, <1>4 DEF Complete

(* A handler that stops its project. *)
LEMMA StopAndWaitAgrees ==
    ASSUME ControlTypeOK, LimitsAgree, NEW op, NEW p \in Projects, NEW new, NEW stored,
           StopAndWait(op, p, new, stored), Exists(p),
           op = "disable" => Limit(new) = Limit(mgr[p])
    PROVE  LimitsAgree'
<1>1. CASE Complete(op, p, new, stored, {p})
    BY <1>1, CompleteAgrees
<1>2. CASE StopProjects({p}) /\ mgr' = mgr
    BY <1>2 DEF StopProjects, LimitsAgree, Exists
<1> QED
    BY <1>1, <1>2 DEF StopAndWait

(* Requests for one project. *)
LEMMA ProjectRequestAgrees ==
    ASSUME ServerInv, LimitsAgree, NEW p \in Projects, ProjectRequest(p)
    PROVE  LimitsAgree'
<1>0. ControlTypeOK /\ StorageInv
    BY DEF ServerInv
<1>1. ASSUME NEW c \in Submitted[p], handleProjectCreate(p, c)
      PROVE  LimitsAgree'
    BY <1>1, SchedulingAgrees DEF handleProjectCreate
<1>2. ASSUME NEW c \in Submitted[p], handleProjectUpdate(p, c)
      PROVE  LimitsAgree'
    <2>1. Exists(p) /\ StopAndWait("update", p, c, [disk EXCEPT ![p] = Stored(c)])
        BY <1>2 DEF handleProjectUpdate
    <2> QED
        BY <1>0, <2>1, StopAndWaitAgrees
<1>3. CASE handleProjectEnable(p)
    <2> DEFINE c == [mgr[p] EXCEPT !.enabled = TRUE]
    <2>1. mgr' = [mgr EXCEPT ![p] = c] /\ mgr'[p] = c
        BY <1>0, <1>3 DEF handleProjectEnable, ControlTypeOK
    <2>2. projects' = [projects EXCEPT ![p] = c]
        BY <1>3, <2>1 DEF handleProjectEnable, StartProject
    <2> HIDE DEF c
    <2>3. projects'[p] = c /\ \A q \in Projects \ {p} : projects'[q] = projects[q]
        BY <2>2 DEF ServerInv, IInv, TypeOK
    <2>4. \A q \in Projects \ {p} : mgr'[q] = mgr[q]
        BY <1>0, <2>1 DEF ControlTypeOK
    <2> QED
        BY <2>1, <2>3, <2>4 DEF LimitsAgree, Exists
<1>4. CASE handleProjectDisable(p)
    <2> DEFINE c == [mgr[p] EXCEPT !.enabled = FALSE]
    <2>1. Exists(p) /\ StopAndWait("disable", p, c, [disk EXCEPT ![p] = Stored(c)])
        BY <1>4 DEF handleProjectDisable
    <2>2. mgr[p] \in Configs
        BY <1>0, <2>1 DEF ControlTypeOK, Held, Exists
    <2>3. Limit(c) = Limit(mgr[p])
        BY <2>2, LimitFacts
    <2> HIDE DEF c
    <2> QED
        BY <1>0, <2>1, <2>3, StopAndWaitAgrees
<1>5. CASE handleProjectDelete(p)
    <2>1. Exists(p) /\ StopAndWait("delete", p, NoProject, disk)
        BY <1>5 DEF handleProjectDelete
    <2> QED
        BY <1>0, <2>1, StopAndWaitAgrees
<1>6. CASE handleProjectReload(p)
    <2>1. Exists(p) /\ StopAndWait("reload", p, disk[p], disk)
        BY <1>0, <1>6 DEF handleProjectReload, StorageInv
    <2> QED
        BY <1>0, <2>1, StopAndWaitAgrees
<1>7. ASSUME \/ handleProjectStart(p)
             \/ handleProjectStop(p)
             \/ \E s \in Slots : handleInstanceTerminate(p, s)
      PROVE  LimitsAgree'
    <2>1. UNCHANGED <<mgr, projects>>
        BY <1>7 DEF handleProjectStart, handleProjectStop, handleInstanceTerminate,
           controlVars, ResumeAndStart, StopProjects, TerminateInstance, engineVars
    <2> QED
        BY <2>1 DEF LimitsAgree, Exists
<1> QED
    BY <1>1, <1>2, <1>3, <1>4, <1>5, <1>6, <1>7 DEF ProjectRequest

(* A handler that ends after its wait, or waits on. *)
LEMMA WaitEndsAgrees ==
    ASSUME ServerInv, LimitsAgree, WaitSucceeds \/ GraceExpires \/ WaitFails
    PROVE  LimitsAgree'
<1>0. ControlTypeOK /\ StorageInv
    BY DEF ServerInv
<1>1. stack # <<>>
    BY DEF WaitSucceeds, GraceExpires, WaitFails
<1>2. PICK f \in HeldFrame : f = Top
    BY <1>0, <1>1, TopFacts
<1>3. f.p \in Projects /\ Exists(f.p) /\ HandlerStorage(f)
    BY <1>0, <1>1, <1>2, TopFacts, FrameFacts DEF Top, StorageInv, HandlersHaveProjects
<1>4. CASE WaitSucceeds
    <2>1. Complete(f.op, f.p, f.new, disk, {})
        BY <1>2, <1>4 DEF WaitSucceeds
    <2>2. f.op = "disable" => Limit(f.new) = Limit(mgr[f.p])
        BY <1>3 DEF HandlerStorage
    <2> QED
        BY <1>0, <1>3, <2>1, <2>2, CompleteAgrees
<1>5. CASE GraceExpires
    BY <1>5 DEF GraceExpires, TerminateByProject, engineVars, LimitsAgree, Exists
<1>6. CASE WaitFails
    <2>1. mgr' = mgr /\ StartScheduling(mgr, mgrServices, {})
        BY <1>6 DEF WaitFails, GiveUp
    <2>2. projects' = mgr
        BY <2>1 DEF StartScheduling, StartAll
    <2> QED
        BY <2>1, <2>2 DEF LimitsAgree
<1> QED
    BY <1>4, <1>5, <1>6

(* Requests about services: they change at most which projects are valid. *)
LEMMA ServiceRequestAgrees ==
    ASSUME ServerInv, LimitsAgree, ServiceRequest
    PROVE  LimitsAgree'
<1>0. ControlTypeOK /\ \A p \in Projects : Exists(p) => mgr[p] \in Configs
    BY DEF ServerInv, ControlTypeOK, Held, Exists
<1>1. ASSUME NEW revalidate \in BOOLEAN, NEW restart \in BOOLEAN,
             NEW stopInvalid \in BOOLEAN,
             rescanServices(revalidate, restart, stopInvalid)
      PROVE  LimitsAgree'
    <2> DEFINE ps == IF revalidate
                     THEN [p \in Projects |-> IF Exists(p) THEN Validated(mgr[p], serviceDirs)
                                                           ELSE NoProject]
                     ELSE mgr
               K == IF revalidate /\ stopInvalid
                    THEN {p \in Projects : Exists(p) /\ ~ps[p].valid}
                    ELSE {}
    <2>1. mgr' = ps /\ (StartScheduling(ps, serviceDirs, K) \/ StopProjects(K))
        BY <1>1 DEF rescanServices
    <2>2. \A p \in Projects :
             ps[p] # NoProject => Exists(p) /\ Limit(ps[p]) = Limit(mgr[p])
        BY <1>0, ValidatedFacts DEF Exists
    <2> HIDE DEF ps, K
    <2>3. CASE StartScheduling(ps, serviceDirs, K)
        <3>1. projects' = ps
            BY <2>3 DEF StartScheduling, StartAll
        <3> QED
            BY <2>1, <3>1 DEF LimitsAgree
    <2>4. CASE StopProjects(K)
        <3>1. projects' = projects
            BY <2>4 DEF StopProjects
        <3>2. \A p \in Projects : Exists(p)' => Exists(p) /\ Limit(mgr'[p]) = Limit(mgr[p])
            BY <2>1, <2>2 DEF Exists
        <3> QED
            BY <3>1, <3>2, KeptAgrees
    <2> QED
        BY <2>1, <2>3, <2>4
<1>2. ASSUME NEW v \in Services, NEW force \in BOOLEAN, NEW removed \in BOOLEAN,
             deleteService(v, force, removed)
      PROVE  LimitsAgree'
    <2> DEFINE users == {p \in Projects : Exists(p) /\ mgr[p].service = v}
    <2>1. /\ mgr' = [p \in Projects |-> IF p \in users THEN [mgr[p] EXCEPT !.valid = FALSE]
                                                        ELSE mgr[p]]
          /\ projects' = projects
        BY <1>2 DEF deleteService, StopProjects
    <2>2. \A p \in users : Exists(p) /\ Limit([mgr[p] EXCEPT !.valid = FALSE]) = Limit(mgr[p])
        BY <1>0, LimitFacts
    <2> HIDE DEF users
    <2>3. \A p \in Projects : Exists(p)' => Exists(p) /\ Limit(mgr'[p]) = Limit(mgr[p])
        BY <2>1, <2>2 DEF Exists
    <2> QED
        BY <2>1, <2>3, KeptAgrees
<1>3. ASSUME NEW v \in Services, createService(v) \/ ServiceDirChanges(v)
      PROVE  LimitsAgree'
    BY <1>3 DEF createService, ServiceDirChanges, vars, LimitsAgree, Exists
<1> QED
    BY <1>1, <1>2, <1>3 DEF ServiceRequest

(* Every step keeps the limits together. *)
LEMMA LimitStep == ServerInv /\ LimitInv /\ [ServerNext]_serverVars => LimitInv'
<1> SUFFICES ASSUME ServerInv, LimitInv, [ServerNext]_serverVars PROVE LimitInv'
    OBVIOUS
<1>1. ASSUME UNCHANGED <<mgr, projects, stack, phase>>
      PROVE  LimitInv'
    BY <1>1 DEF LimitInv, LimitsAgree, Exists
<1>2. CASE Boot
    BY <1>2, SchedulingAgrees DEF Boot, LimitInv, LimitsAgree, Exists, StartScheduling,
                                  StartAll
<1>3. ASSUME \/ \E p \in Projects : ProjectRequest(p)
             \/ ServiceRequest
             \/ WaitSucceeds \/ GraceExpires \/ WaitFails
      PROVE  LimitInv'
    <2>1. phase # "boot"
        <3>1. ASSUME NEW p \in Projects, ProjectRequest(p)
              PROVE  Listening
            BY <3>1 DEF ProjectRequest, handleProjectCreate, handleProjectUpdate,
               handleProjectStart, handleProjectStop, handleProjectEnable,
               handleProjectDisable, handleProjectDelete, handleProjectReload,
               handleInstanceTerminate, Accepts
        <3>2. ASSUME ServiceRequest
              PROVE  Listening
            BY <3>2 DEF ServiceRequest, rescanServices, deleteService, createService,
                        ServiceDirChanges
        <3>3. ASSUME WaitSucceeds \/ GraceExpires \/ WaitFails
              PROVE  stack # <<>>
            BY <3>3 DEF WaitSucceeds, GraceExpires, WaitFails
        <3> QED
            BY <1>3, <3>1, <3>2, <3>3 DEF Listening, LimitInv
    <2>2. phase' = phase
        <3>1. ASSUME NEW p \in Projects, ProjectRequest(p)
              PROVE  phase' = phase
            BY <3>1 DEF ProjectRequest, handleProjectCreate, handleProjectUpdate,
               handleProjectStart, handleProjectStop, handleProjectEnable,
               handleProjectDisable, handleProjectDelete, handleProjectReload,
               handleInstanceTerminate, controlVars
        <3>2. ASSUME ServiceRequest
              PROVE  phase' = phase
            BY <3>2 DEF ServiceRequest, rescanServices, deleteService, createService,
                        ServiceDirChanges
        <3>3. ASSUME WaitSucceeds \/ GraceExpires \/ WaitFails
              PROVE  phase' = phase
            BY <3>3 DEF WaitSucceeds, GraceExpires, WaitFails, Pop
        <3> QED
            BY <1>3, <3>1, <3>2, <3>3
    <2>3. LimitsAgree'
        BY <1>3, <2>1, ProjectRequestAgrees, ServiceRequestAgrees, WaitEndsAgrees
           DEF LimitInv
    <2> QED
        BY <2>1, <2>2, <2>3 DEF LimitInv
<1>4. ASSUME ShutdownBegins \/ ShutdownGraceExpires \/ ServerExits
      PROVE  LimitInv'
    <2>1. phase # "boot" /\ phase' # "boot" /\ UNCHANGED <<mgr, projects>>
        BY <1>4 DEF ShutdownBegins, Shutdown, ShutdownGraceExpires, TerminateByProject,
                    ServerExits, engineVars, vars
    <2> QED
        BY <2>1 DEF LimitInv, LimitsAgree, Exists
<1>5. ASSUME NEW p \in Projects, NEW v \in Services, FixedRateTimer(p, v) \/ RestartTimer(p, v)
      PROVE  LimitInv'
    BY <1>1, <1>5 DEF FixedRateTimer, FixedRateTick, RestartTimer, RestartFires,
                      controlVars, engineVars
<1>6. ASSUME NEW p \in Projects, NEW s \in Slots, InstanceEvent(p, s)
      PROVE  LimitInv'
    BY <1>1, <1>6 DEF InstanceEvent, ProcessEvent, ProcessStarted, StartTimeout, RunTimeout,
                      ProcessFinished, controlVars, engineVars
<1>7. CASE UNCHANGED serverVars
    BY <1>1, <1>7 DEF serverVars
<1> QED
    BY <1>2, <1>3, <1>4, <1>5, <1>6, <1>7 DEF ServerNext

(***************************************************************************)
(* No start exceeds the limit of the project as the manager has it at that *)
(* moment, although ticks and restarts go by the engine's own copy of the  *)
(* projects and a request may be nested in any handler: the two copies     *)
(* never differ in the limit.                                              *)
(***************************************************************************)
THEOREM StartsAreLimited == ServerSpec => StartsWithinLimit
<1>1. ServerInit => LimitInv
    BY DEF ServerInit, Init, LimitInv
<1>2. /\ ServerInv /\ LimitInv
      /\ ServerInv' /\ LimitInv'
      /\ [ServerNext]_serverVars
      => [\A p \in Projects :
             /\ mgr'[p] # NoProject
             /\ instanceCount(inst', p) > instanceCount(inst, p)
             => instanceCount(inst', p) <= Limit(mgr'[p])]_serverVars
    <2> SUFFICES ASSUME ServerInv, LimitInv', ServerInv', [ServerNext]_serverVars,
                        NEW p \in Projects, mgr'[p] # NoProject,
                        instanceCount(inst', p) > instanceCount(inst, p)
                 PROVE  instanceCount(inst', p) <= Limit(mgr'[p])
        OBVIOUS
    <2>0. ControlTypeOK /\ HandlersHaveProjects /\ TypeOK
        BY DEF ServerInv, StorageInv, IInv
    <2> DEFINE n == instanceCount(inst, p)
               m == instanceCount(inst', p)
    <2>1. n \in Nat /\ m \in Nat /\ n < m
        BY CountFacts
    <2>2. mgr'[p] \in Configs /\ Limit(mgr'[p]) \in Nat \ {0}
        BY LimitFacts DEF ServerInv, ControlTypeOK, Held
    <2>3. CASE UNCHANGED vars
        BY <2>1, <2>3 DEF vars
    <2>4. ASSUME NEW q \in Projects, handleProjectStart(q)
          PROVE  m <= Limit(mgr'[p])
        <3>1. PICK ok \in StartOutcomes(mgr) : ResumeAndStart(q, mgr[q], q \in ok)
            BY <2>4 DEF handleProjectStart
        <3>2. \/ inst' = inst
              \/ inst' = StartInstance(inst, q, mgr[q], mgr[q].service, "api")
            BY <3>1 DEF ResumeAndStart
        <3>3. inst \in Tables
            BY <2>0 DEF TypeOK
        <3>4. inst' # inst
            BY <2>1
        <3>5. q = p
            <4>1. q # p => inst'[p] = inst[p]
                BY <3>2, <3>3 DEF StartInstance, Emplace, Tables
            <4>2. inst'[p] # inst[p]
                BY <2>1, SameCount
            <4> QED
                BY <4>1, <4>2
        <3>6. m <= n + 1
            BY <3>2, <3>3, <3>4, <3>5, StartCount
        <3>7. n < Limit(mgr[p]) /\ mgr' = mgr
            BY <2>4, <3>5 DEF handleProjectStart, controlVars
        <3> HIDE DEF n, m
        <3> QED
            BY <2>1, <2>2, <3>6, <3>7
    <2>5. ASSUME Unrequested
          PROVE  m <= Limit(mgr'[p])
        <3>1. \/ m <= 1
              \/ /\ projects' = projects
                 /\ projects[p].type = "fixed_rate"
                 /\ m <= projects[p].maxConcurrent
            BY <2>0, <2>1, <2>5, UnrequestedCount
        <3>2. ASSUME projects'[p].type = "fixed_rate"
              PROVE  projects'[p].maxConcurrent = Limit(mgr'[p])
            <4>1. phase' # "boot"
                BY <3>2 DEF LimitInv, NoProject
            <4>2. Limit(projects'[p]) = Limit(mgr'[p])
                BY <4>1 DEF LimitInv, LimitsAgree, Exists
            <4> QED
                BY <3>2, <4>2 DEF Limit
        <3> HIDE DEF n, m
        <3> QED
            BY <2>1, <2>2, <3>1, <3>2
    <2> HIDE DEF n, m
    <2>6. m <= Limit(mgr'[p])
        BY <2>0, <2>3, <2>4, <2>5, ServerStepKinds DEF n, m
    <2> QED
        BY <2>6 DEF m
<1> QED
    BY <1>1, <1>2, LimitStep, ServerInvariance, PTL DEF ServerSpec, StartsWithinLimit
=============================================================================
