--------------------------- MODULE InstanceTable ---------------------------
(***************************************************************************)
(* The instance table of stdiolink_server: InstanceManager::m_instances    *)
(* and the Instance struct (manager/instance_manager.cpp, model/instance.h) *)
(* as values, with one operator per update the code makes to an entry.     *)
(* The module has no variables: InstanceManager keeps one table and the    *)
(* signals it emits, ScheduleEngine keeps one table and the scheduler.     *)
(*                                                                         *)
(* m_instances maps a fresh random id to an Instance.  The projectId of an *)
(* instance never changes, so the table is grouped by project, and the id  *)
(* is abstracted to a slot that is reused only after its instance has been *)
(* erased.  An entry that is absent from m_instances is NoInstance.        *)
(*                                                                         *)
(* QProcess (external): the code erases an entry inside the handler of     *)
(* finished() or of errorOccurred(FailedToStart), so between two events    *)
(* the process of every entry is Starting or Running, never NotRunning,    *)
(* and the tests "state() == NotRunning" never exclude an entry.           *)
(***************************************************************************)
EXTENDS Naturals, FiniteSets

CONSTANTS
    Projects,   \* project ids
    Slots,      \* names for the instances of one project; bounds how many there are
    Services    \* service ids (a serviceDir is the directory of one service)

ASSUME SlotsAssumption == IsFiniteSet(Slots) /\ Slots # {}

\* Who asked for the instance: POST /start, or one of the scheduler's triggers.
Origins == {"api", "daemon", "fixed_rate"}

\* Values outside Services and Origins: the fields of an absent entry.
NoService == "no-service"
NoInstance ==
    [status |-> "none", killed |-> FALSE, startFailedEmitted |-> FALSE,
     runTimeout |-> FALSE, watchdog |-> "off",
     service |-> NoService, origin |-> "none"]

(***************************************************************************)
(* status is "stopped" or "failed" only inside the handler that erases the *)
(* entry, so those values are never seen between two events.  killed is    *)
(* set once kill() has been sent to the process.  runTimeout says whether  *)
(* runTimeoutMs > 0.  watchdog is runTimeoutTimer: not running, armed, or  *)
(* expired (timedOut).                                                     *)
(***************************************************************************)
Instance ==
    [status : {"none", "starting", "running"},
     killed : BOOLEAN,
     startFailedEmitted : BOOLEAN,
     runTimeout : BOOLEAN,
     watchdog : {"off", "armed", "fired"},
     service : Services \cup {NoService},
     origin : Origins \cup {"none"}]

Tables == [Projects -> [Slots -> Instance]]
EmptyTable == [p \in Projects |-> [s \in Slots |-> NoInstance]]

IsLive(t, p, s) == t[p][s].status # "none"
LiveSlots(t, p) == {s \in Slots : IsLive(t, p, s)}
instanceCount(t, p) == Cardinality(LiveSlots(t, p))
FreeSlots(t, p) == Slots \ LiveSlots(t, p)

-----------------------------------------------------------------------------
(* The entry emplaced by startInstance just before proc->start(). *)
NewInstance(runTimeout, svc, origin) ==
    [status |-> "starting", killed |-> FALSE, startFailedEmitted |-> FALSE,
     runTimeout |-> runTimeout, watchdog |-> "off",
     service |-> svc, origin |-> origin]

Emplace(t, p, s, new) == [t EXCEPT ![p][s] = new]

\* Mutant: the entry is only marked, as the handlers do just before erasing it.
EraseMarksOnly(t, p, s) == [t EXCEPT ![p][s].status = "failed"]
Erase(t, p, s) == [t EXCEPT ![p][s] = NoInstance]

(* QProcess::kill() on a live entry; on an absent one nothing happens. *)
Kill(r) == IF r.status = "none" THEN r ELSE [r EXCEPT !.killed = TRUE]

(* terminateByProject for every project of P (terminateAll: P = Projects). *)
KillProjects(t, P) ==
    [p \in Projects |-> [s \in Slots |-> IF p \in P THEN Kill(t[p][s]) ELSE t[p][s]]]

\* Mutant: the watchdog is not armed.
StartedUnwatched(r) == [r EXCEPT !.status = "running"]
(* The handler of QProcess::started: the watchdog runs from here. *)
Started(r) ==
    [r EXCEPT !.status = "running",
              !.watchdog = IF r.runTimeout THEN "armed" ELSE "off"]

(***************************************************************************)
(* The 5 s start timer.  Once the instance is running or erased its lambda *)
(* does nothing, so the timer is pending exactly in the state in which it  *)
(* has an effect: still starting, and not yet reported by the timer.       *)
(***************************************************************************)
StartTimerPending(r) == r.status = "starting" /\ ~r.startFailedEmitted

\* Mutant: the timeout is reported but the process is left alone.
StartTimedOutNoKill(r) == [r EXCEPT !.startFailedEmitted = TRUE]
StartTimedOut(r) == [r EXCEPT !.startFailedEmitted = TRUE, !.killed = TRUE]

(* The run watchdog: timedOut is set and the process is killed. *)
WatchdogExpired(r) == [r EXCEPT !.watchdog = "fired", !.killed = TRUE]
=============================================================================
