-------------------------- MODULE InstanceManager --------------------------
(***************************************************************************)
(* InstanceManager (manager/instance_manager.cpp): the life of the         *)
(* stdiolink_service processes and the signals emitted about them.         *)
(*                                                                         *)
(* One thread runs every handler to completion, so each handler of a       *)
(* QProcess signal, each timer lambda and each public method is one        *)
(* action.  When a process starts, fails or exits is the environment's     *)
(* choice.  An early error return of startInstance (invalid project, no    *)
(* service directory, no program, no temporary file, no workspace, no      *)
(* guard server) changes nothing and is a stuttering step.  The            *)
(* synchronous FailedToStart that start() may deliver is the FailedToStart *)
(* action taken right after StartInstance.                                 *)
(***************************************************************************)
EXTENDS InstanceTable

CONSTANT
    (***********************************************************************)
    (* Whether errorOccurred(FailedToStart) can be delivered after the 5 s *)
    (* start timer: exec fails and is reported through the pipe after the  *)
    (* event loop has polled and before it runs the expired timer, so that *)
    (* the kill() of the timer comes too late.                             *)
    (***********************************************************************)
    LateExecFailure

ASSUME LateExecFailureAssumption == LateExecFailure \in BOOLEAN

VARIABLES
    inst,  \* m_instances
    sig    \* history: the signals emitted for the instance last held by a slot

vars == <<inst, sig>>

NoSignals == [started |-> 0, startFailed |-> 0, finished |-> 0]
Signals == [started : Nat, startFailed : Nat, finished : Nat]

EmitStarted(g) == [g EXCEPT !.started = @ + 1]
EmitStartFailed(g) == [g EXCEPT !.startFailed = @ + 1]
EmitFinished(g) == [g EXCEPT !.finished = @ + 1]

TypeOK ==
    /\ inst \in Tables
    /\ sig \in [Projects -> [Slots -> Signals]]

Init ==
    /\ inst = EmptyTable
    /\ sig = [p \in Projects |-> [s \in Slots |-> NoSignals]]

-----------------------------------------------------------------------------
(* startInstance, past its last early return: the entry is emplaced, then  *)
(* the process is started and the start timer armed.                       *)
StartInstance(p, s, runTimeout, svc) ==
    /\ ~IsLive(inst, p, s)
    /\ inst' = Emplace(inst, p, s, NewInstance(runTimeout, svc, "api"))
    /\ sig' = [sig EXCEPT ![p][s] = NoSignals]

(* QProcess::started, at most once per process. *)
OnStarted(p, s) ==
    /\ inst[p][s].status = "starting"
    /\ inst' = [inst EXCEPT ![p][s] = Started(@)]
    /\ sig' = [sig EXCEPT ![p][s] = EmitStarted(@)]

(***************************************************************************)
(* QProcess::errorOccurred(FailedToStart): both signals are emitted (Qt    *)
(* sends no finished here), without a look at startFailedEmitted.          *)
(***************************************************************************)
OnFailedToStart(p, s) ==
    /\ inst[p][s].status = "starting"
    /\ inst[p][s].startFailedEmitted => LateExecFailure
    /\ inst' = Erase(inst, p, s)
    /\ sig' = [sig EXCEPT ![p][s] = EmitFinished(EmitStartFailed(@))]

\* Mutant: the lambda does not look at the status.
OnStartTimeoutUnchecked(p, s) ==
    /\ IsLive(inst, p, s)
    /\ ~inst[p][s].startFailedEmitted
    /\ inst' = [inst EXCEPT ![p][s] = StartTimedOut(@)]
    /\ sig' = [sig EXCEPT ![p][s] = EmitStartFailed(@)]

(* The lambda of the 5 s start timer. *)
OnStartTimeout(p, s) ==
    /\ StartTimerPending(inst[p][s])
    /\ inst' = [inst EXCEPT ![p][s] = StartTimedOut(@)]
    /\ sig' = [sig EXCEPT ![p][s] = EmitStartFailed(@)]

(* The lambda of runTimeoutTimer. *)
OnRunTimeout(p, s) ==
    /\ inst[p][s].watchdog = "armed"
    /\ inst' = [inst EXCEPT ![p][s] = WatchdogExpired(@)]
    /\ UNCHANGED sig

(* terminateInstance: kill() is sent, the entry stays until finished. *)
TerminateInstance(p, s) ==
    /\ IsLive(inst, p, s)
    /\ inst' = [inst EXCEPT ![p][s] = Kill(@)]
    /\ UNCHANGED sig

(* terminateByProject for each of P; terminateAll is P = Projects. *)
TerminateByProject(P) ==
    /\ inst' = KillProjects(inst, P)
    /\ UNCHANGED sig

\* Mutants: the entry is not erased; a failure is reported a second time; the
\* outcome of the start is not made up for.
OnProcessFinishedNoErase(p, s) ==
    /\ IsLive(inst, p, s)
    /\ sig' = [sig EXCEPT ![p][s] = EmitFinished(@)]
    /\ UNCHANGED inst
OnProcessFinishedReportsAgain(p, s) ==
    /\ IsLive(inst, p, s)
    /\ LET owed == inst[p][s].status = "starting"
       IN  sig' = [sig EXCEPT ![p][s] = EmitFinished(IF owed THEN EmitStartFailed(@) ELSE @)]
    /\ inst' = Erase(inst, p, s)
OnProcessFinishedSilent(p, s) ==
    /\ IsLive(inst, p, s)
    /\ sig' = [sig EXCEPT ![p][s] = EmitFinished(@)]
    /\ inst' = Erase(inst, p, s)

(***************************************************************************)
(* onProcessFinished: the start's outcome is made up for when the process  *)
(* ended while starting and no failure was reported, then finished is      *)
(* emitted and the entry erased, watchdog included.                        *)
(***************************************************************************)
OnProcessFinished(p, s) ==
    /\ IsLive(inst, p, s)
    /\ LET owed == inst[p][s].status = "starting" /\ ~inst[p][s].startFailedEmitted
       IN  sig' = [sig EXCEPT ![p][s] = EmitFinished(IF owed THEN EmitStartFailed(@) ELSE @)]
    /\ inst' = Erase(inst, p, s)

ProcessEvent(p, s) ==
    \/ OnStarted(p, s)
    \/ OnFailedToStart(p, s)
    \/ OnProcessFinished(p, s)

TimerEvent(p, s) == OnStartTimeout(p, s) \/ OnRunTimeout(p, s)

Next ==
    \/ \E p \in Projects, s \in Slots :
          \/ \E runTimeout \in BOOLEAN, svc \in Services : StartInstance(p, s, runTimeout, svc)
          \/ TerminateInstance(p, s)
          \/ ProcessEvent(p, s)
          \/ TimerEvent(p, s)
    \/ \E P \in SUBSET Projects : TerminateByProject(P)

Spec == Init /\ [][Next]_vars

(***************************************************************************)
(* Fairness: Qt runs an expired timer of a live event loop, and the        *)
(* operating system ends a process that was sent SIGKILL.  Nothing says    *)
(* that a process starts, or that it exits by itself.                      *)
(***************************************************************************)
KilledProcessEnds(p, s) == inst[p][s].killed /\ OnProcessFinished(p, s)
Fairness ==
    \A p \in Projects, s \in Slots :
        /\ WF_vars(OnStartTimeout(p, s))
        /\ WF_vars(OnRunTimeout(p, s))
        /\ WF_vars(KilledProcessEnds(p, s))
FairSpec == Spec /\ Fairness

-----------------------------------------------------------------------------
(***************************************************************************)
(* instanceFinished is emitted exactly once for every instance, in the     *)
(* step that takes it out of the table ("always emit instanceFinished",    *)
(* instance_manager.cpp:435): an entry in the table has none, and none is  *)
(* emitted a second time by a late event.                                  *)
(***************************************************************************)
FinishedExactlyOnce ==
    \A p \in Projects, s \in Slots :
        /\ IsLive(inst, p, s) => sig[p][s].finished = 0
        /\ sig[p][s].finished <= 1
        /\ ~IsLive(inst, p, s) /\ sig[p][s] # NoSignals => sig[p][s].finished = 1

(***************************************************************************)
(* startFailed is emitted at most once per instance: what the flag         *)
(* startFailedEmitted is for (model/instance.h:41).                        *)
(***************************************************************************)
StartFailedAtMostOnce ==
    \A p \in Projects, s \in Slots : sig[p][s].startFailed <= 1

(***************************************************************************)
(* Nobody hears of the end of an instance without having heard how its     *)
(* start went: finished is preceded, or accompanied, by started or by      *)
(* startFailed, whichever of the four ways out the instance took.          *)
(***************************************************************************)
OutcomeBeforeFinished ==
    \A p \in Projects, s \in Slots :
        sig[p][s].finished > 0 => sig[p][s].started + sig[p][s].startFailed > 0

(***************************************************************************)
(* An instance that is reported up and was never reported failed is really *)
(* in the state running, and an instance reported failed while it is in    *)
(* the table has been sent kill(): the two reports agree with the table    *)
(* even when the started signal comes after the start timer.               *)
(***************************************************************************)
ReportsMatchTable ==
    \A p \in Projects, s \in Slots : IsLive(inst, p, s) =>
        /\ sig[p][s].started = 1 <=> inst[p][s].status = "running"
        /\ sig[p][s].startFailed > 0 => inst[p][s].killed

(* The signals of every instance follow the protocol of InstanceSignals. *)
Listener == INSTANCE InstanceSignals WITH
    alive <- [p \in Projects |-> [s \in Slots |-> IsLive(inst, p, s)]]
FollowsSignalProtocol == Listener!Spec

(***************************************************************************)
(* The start of an instance is always resolved: within the start timer the *)
(* process is up, or it is killed and leaves the table.                    *)
(***************************************************************************)
StartIsResolved ==
    \A p \in Projects, s \in Slots :
        inst[p][s].status = "starting" ~> inst[p][s].status # "starting"

(***************************************************************************)
(* An instance with a runTimeoutMs never stays: whether it hangs while     *)
(* starting, comes up late or runs for ever, it leaves the table.          *)
(***************************************************************************)
WatchdogFreesInstance ==
    \A p \in Projects, s \in Slots :
        inst[p][s].runTimeout ~> ~IsLive(inst, p, s)
=============================================================================
