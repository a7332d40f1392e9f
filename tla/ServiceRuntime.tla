--------------------------- MODULE ServiceRuntime ---------------------------
(***************************************************************************)
(* A JavaScript service and its drivers: the main loop of stdiolink_service *)
(* (main.cpp), JsTaskScheduler and WaitAnyScheduler, which share the tasks *)
(* of the host library, the proxy that openDriver returns                  *)
(* (proxy/driver_proxy.cpp), and the driver processes of DriverCore.       *)
(*                                                                         *)
(* The script is open: whenever it runs it may open a driver, call it      *)
(* through its proxy with or without a timeout, close it, or use the       *)
(* driver class itself and wait for its tasks with waitAny.  It runs when  *)
(* a promise is settled, in the phase "jobs" of the main loop.             *)
(***************************************************************************)
EXTENDS HostDriver, SequencesExt

CONSTANTS
    MaxRaw,     \* bound: requests made without a proxy
    MaxEvents,  \* bound: events before an answer
    Answers,    \* how the handlers of the drivers may answer
    KillSeen,   \* may waitForFinished(200) after a kill succeed, or fail?
    Crashes     \* may drivers crash by themselves?

ASSUME RuntimeAssumption ==
    /\ MaxRaw \in Nat
    /\ MaxEvents \in Nat
    /\ Answers \subseteq {"done", "null", "error"}
    /\ KillSeen \subseteq BOOLEAN
    /\ Crashes \in BOOLEAN

VARIABLES
    core,     \* the processes (DriverCore)
    service,  \* the service itself: "up" or "gone", with its guard servers
    phase,    \* where the main loop is
    pending,  \* JsTaskScheduler::m_pending
    groups,   \* WaitAnyScheduler::m_pending
    jobs,     \* settled promises whose continuations have not run
    call,     \* per request: who made it, on which driver, and how it ended
    busy,     \* the proxy's flag
    opened,   \* what the script has of a driver
    sync,     \* the request a synchronous wait of the script blocks on
    said      \* history: how the driver answered a request

jsvars == <<pending, groups, jobs, call, busy, opened, sync>>
vars == <<link, task, core, service, phase, jsvars, said>>

Core == INSTANCE DriverCore WITH Processes <- Drivers

Kinds == {"none", "meta", "plain", "timed", "raw"}
Outcomes == {"none", "waiting", "resolved", "error", "exited", "invalid", "overflow",
             "timeout", "ended"}
NoCall == [kind |-> "none", drv |-> CHOOSE d \in Drivers : TRUE, outcome |-> "none",
           by |-> NoRequest]

Settled(r) == call[r].outcome \notin {"none", "waiting"}
own == [r \in Requests |-> call[r].drv]
Free == {r \in Requests : call[r].kind = "none"}

TypeOK ==
    /\ HostTypeOK
    /\ Core!CoreTypeOK
    /\ service \in {"up", "gone"}
    /\ phase \in {"jobs", "events", "tasks", "groups"}
    /\ \A i \in 1..Len(pending) : pending[i] \in Requests
    /\ \A i \in 1..Len(groups) : groups[i].tasks \in Seq(Requests) /\ groups[i].timed \in BOOLEAN
    /\ call \in [Requests -> [kind : Kinds, drv : Drivers, outcome : Outcomes,
                              by : {NoRequest} \cup Requests]]
    /\ busy \in [Drivers -> BOOLEAN]
    /\ opened \in [Drivers -> {"no", "raw", "proxy", "failed"}]
    /\ sync \in {NoRequest} \cup Requests
    /\ said \in [Requests -> {"nothing"} \cup Statuses]

Init ==
    /\ HostInit
    /\ Core!CoreInit
    /\ service = "up"
    /\ phase = "jobs"
    /\ pending = <<>>
    /\ groups = <<>>
    /\ jobs = <<>>
    /\ call = [r \in Requests |-> NoCall]
    /\ busy = [d \in Drivers |-> FALSE]
    /\ opened = [d \in Drivers |-> "no"]
    /\ sync = NoRequest
    /\ said = [r \in Requests |-> "nothing"]

SetHost(h) == link' = h.link /\ task' = h.task

Dead == {d \in Drivers : ~core[d].alive}

-----------------------------------------------------------------------------
(* The driver processes. *)

\* StdioResponder::writeResponse on d: one line for request r.
Writes(d, r, status) ==
    /\ task' = task
    /\ said' = IF r = NoRequest \/ status = "event" THEN said ELSE [said EXCEPT ![r] = status]
    /\ link' = IF r = NoRequest THEN link
               ELSE [link EXCEPT ![d].out = @ \o
                       <<[req |-> r, status |-> status, part |-> "head"],
                         [req |-> r, status |-> status, part |-> "end"]>>]

ProcessStep(d) ==
    /\ \/ Core!ReadLine(d) /\ UNCHANGED <<link, task, said>>
       \/ Core!ReaderEnds(d) /\ UNCHANGED <<link, task, said>>
       \/ Core!HandlePosted(d) /\ Writes(d, Core!Reply(d).req, Core!Reply(d).status)
       \/ Core!HandlerEvent(d) /\ Writes(d, core[d].work, "event")
       \/ Core!HandlerAnswers(d) /\ \E a \in Answers : Writes(d, core[d].work, a)
       \/ Core!ProcessExits(d) /\ UNCHANGED <<link, task, said>>
       \/ Core!GuardLost(d, service = "up") /\ UNCHANGED <<link, task, said>>
    /\ UNCHANGED <<service, phase, jsvars>>

ProcessCrash(d) ==
    /\ Crashes
    /\ Core!ProcessCrashes(d)
    /\ UNCHANGED <<said, link, task, service, phase, jsvars>>

-----------------------------------------------------------------------------
(* What the script does; every step of it is taken in phase "jobs". *)

Running == service = "up" /\ phase = "jobs" /\ sync = NoRequest

(* Driver::request with a fresh task: the line goes to the process if it lives. *)
Send(d, kind, lineKind, r) ==
    \E gone \in {FALSE} \cup {~core[d].alive} :
        /\ SetHost(Request(Host, d, r, gone))
        /\ core' = IF core[d].alive
                   THEN [core EXCEPT ![d].stdin = Append(@, [req |-> r, kind |-> lineKind])]
                   ELSE core
        /\ call' = [call EXCEPT ![r] = [kind |-> kind, drv |-> d, outcome |-> "waiting",
                                        by |-> NoRequest]]

NextRequest == Min(Free)

(***************************************************************************)
(* openDriver: start with --profile=keepalive, then queryMeta, a request   *)
(* the script blocks on.                                                   *)
(***************************************************************************)
OpenDriver(d) ==
    /\ Running
    /\ opened[d] = "no" /\ Free # {}
    /\ LET r == NextRequest IN
        /\ SetHost(Request(StartProcess(Host, d), d, r, FALSE))
        /\ core' = [core EXCEPT ![d] = [Core!Started("keepalive") EXCEPT
                                          !.stdin = <<[req |-> r, kind |-> "meta"]>>]]
        /\ call' = [call EXCEPT ![r] = [kind |-> "meta", drv |-> d, outcome |-> "waiting",
                                        by |-> NoRequest]]
        /\ sync' = r
    /\ opened' = [opened EXCEPT ![d] = "proxy"]
    /\ UNCHANGED <<said, service, phase, pending, groups, jobs, busy>>

(* Driver::start fails: the guard does not listen or the program does not start. *)
OpenFails(d) ==
    /\ Running
    /\ opened[d] = "no"
    /\ opened' = [opened EXCEPT ![d] = "failed"]
    /\ UNCHANGED <<said, link, task, core, service, phase, pending, groups, jobs, call, busy, sync>>

(* new Driver() and start(program, args), in either profile. *)
StartRaw(d, profile) ==
    /\ Running
    /\ opened[d] = "no"
    /\ SetHost(StartProcess(Host, d))
    /\ core' = [core EXCEPT ![d] = Core!Started(profile)]
    /\ opened' = [opened EXCEPT ![d] = "raw"]
    /\ UNCHANGED <<said, service, phase, pending, groups, jobs, call, busy, sync>>

Terminated(h, d) ==
    \E seen \in KillSeen :
        /\ SetHost(Kill(h, d, seen))
        /\ core' = [core EXCEPT ![d] = Core!NotStarted]

(* The end of the synchronous wait in queryMeta or Task::waitNext. *)
SyncReturns ==
    /\ service = "up" /\ sync # NoRequest
    /\ \E o \in waitAnyNext(Host, own, <<sync>>, Dead) :
        /\ sync' = NoRequest
        /\ \/ /\ call[sync].kind = "meta" /\ o.msg.status = "done"
              /\ SetHost([o.h EXCEPT !.link[call[sync].drv].meta = TRUE])
              /\ call' = [call EXCEPT ![sync].outcome = "resolved", ![sync].by = o.msg.req]
              /\ UNCHANGED <<core, opened>>
           \/ /\ call[sync].kind = "meta" /\ o.msg.status # "done"
              /\ Terminated(o.h, call[sync].drv)
              /\ call' = [call EXCEPT ![sync].outcome = "timeout"]
              /\ opened' = [opened EXCEPT ![call[sync].drv] = "failed"]
           \/ /\ call[sync].kind = "raw"
              /\ SetHost(o.h)
              /\ UNCHANGED <<core, call, opened>>
    /\ UNCHANGED <<said, service, phase, pending, groups, jobs, busy>>

(***************************************************************************)
(* drv.command(params, options) on the proxy: refused while busy; waits    *)
(* with __scheduleTask, or with __waitAny when it has a timeout.           *)
(***************************************************************************)
ProxyCall(d, timed, lineKind) ==
    /\ Running
    /\ opened[d] = "proxy" /\ Free # {}
    /\ ~busy[d]
    /\ Send(d, IF timed THEN "timed" ELSE "plain", lineKind, NextRequest)
    /\ busy' = [busy EXCEPT ![d] = TRUE]
    /\ pending' = IF timed THEN pending ELSE Append(pending, NextRequest)
    /\ groups' = IF timed THEN Append(groups, [tasks |-> <<NextRequest>>, timed |-> TRUE])
                 ELSE groups
    /\ UNCHANGED <<said, service, phase, jobs, opened, sync>>

(* $close() on the proxy, or terminate() on the driver. *)
Close(d) ==
    /\ Running
    /\ opened[d] \in {"proxy", "raw"} /\ link[d].proc = "running"
    /\ Terminated(Host, d)
    /\ UNCHANGED <<said, service, phase, jsvars>>

RawTasks == {r \in Requests : call[r].kind = "raw"}

(* driver.request(cmd, data) on a driver without a proxy. *)
RawRequest(d, lineKind) ==
    /\ Running
    /\ opened[d] = "raw" /\ Free # {}
    /\ Cardinality(RawTasks) < MaxRaw
    /\ Send(d, "raw", lineKind, NextRequest)
    /\ UNCHANGED <<said, service, phase, pending, groups, jobs, busy, opened, sync>>

Grouped == UNION {{groups[i].tasks[j] : j \in 1..Len(groups[i].tasks)} : i \in 1..Len(groups)}

(* waitAny(tasks, timeoutMs): addGroup, unless one of them is already waited for. *)
RawWaitAny(ts, timed) ==
    /\ Running
    /\ {ts[i] : i \in 1..Len(ts)} \subseteq RawTasks \ Grouped
    /\ groups' = Append(groups, [tasks |-> ts, timed |-> timed])
    /\ UNCHANGED <<said, link, task, core, service, phase, pending, jobs, call, busy, opened, sync>>

(* task.waitNext(timeoutMs), which blocks the script, and task.tryNext(). *)
RawWaitNext(r) ==
    /\ Running
    /\ r \in RawTasks
    /\ sync' = r
    /\ UNCHANGED <<said, link, task, core, service, phase, pending, groups, jobs, call, busy, opened>>

RawTryNext(r) ==
    /\ Running
    /\ r \in RawTasks
    /\ Ready(Host, call[r].drv, r)
    /\ SetHost(TryNext(Host, call[r].drv, r).h)
    /\ UNCHANGED <<said, core, service, phase, jsvars>>

-----------------------------------------------------------------------------
(* The main loop. *)

Job(r, m) == [req |-> r, msg |-> m]

(* processEvents: exits of driver processes may be noticed here, with no task waiting. *)
ProcessEvents ==
    /\ service = "up" /\ phase = "events"
    /\ \E D \in SUBSET Dead : SetHost(FoldSet(LAMBDA d, g : NoticeExit(g, d), Host, D))
    /\ phase' = "tasks"
    /\ UNCHANGED <<said, core, service, jsvars>>

(***************************************************************************)
(* JsTaskScheduler::poll: one message; events are dropped, done and error  *)
(* settle the task.  Without a message, tasks that are done are settled    *)
(* with null.                                                              *)
(***************************************************************************)
PollTasks ==
    /\ service = "up" /\ phase = "tasks"
    /\ phase' = "groups"
    /\ \/ /\ pending = <<>>
          /\ UNCHANGED <<link, task, pending, jobs>>
       \/ /\ pending # <<>>
          /\ \E o \in waitAnyNext(Host, own, pending, Dead) :
              /\ SetHost(o.h)
              /\ \/ /\ o.index # 0 /\ o.msg.status = "event"
                    /\ UNCHANGED <<pending, jobs>>
                 \/ /\ o.index # 0 /\ o.msg.status # "event"
                    /\ pending' = RemoveAt(pending, o.index)
                    /\ jobs' = Append(jobs, Job(pending[o.index], o.msg))
                 \/ /\ o.index = 0
                    /\ pending' = SelectSeq(pending, LAMBDA r : ~isDone(o.h, r))
                    /\ LET over == Reverse(SelectSeq(pending, LAMBDA r : isDone(o.h, r)))
                       IN  jobs' = jobs \o [i \in 1..Len(over) |-> Job(over[i], NoMessage)]
    /\ UNCHANGED <<said, core, service, groups, call, busy, opened, sync>>

(* The continuation of a settled group runs for its first task. *)
GroupJob(g, m) == Job(g.tasks[1], m)

(***************************************************************************)
(* WaitAnyScheduler::poll: groups whose time is up (expired) are settled   *)
(* with null; then one message, of any status, settles its group; without  *)
(* one, groups whose tasks are all done are settled with null.             *)
(***************************************************************************)
PollGroups ==
    /\ service = "up" /\ phase = "groups"
    /\ phase' = "jobs"
    /\ \E expired \in SUBSET {i \in 1..Len(groups) : groups[i].timed} :
        LET due == Reverse(SelectSeq(groups, LAMBDA g : \E i \in expired : groups[i] = g))
            left == SelectSeq(groups, LAMBDA g : \A i \in expired : groups[i] # g)
            settled == jobs \o [i \in 1..Len(due) |-> GroupJob(due[i], NoMessage)]
            all == FlattenSeq([i \in 1..Len(left) |-> left[i].tasks])
        IN  \/ /\ left = <<>>
               /\ groups' = left
               /\ jobs' = settled
               /\ UNCHANGED <<link, task, said>>
            \/ /\ left # <<>>
               /\ \E o \in waitAnyNext(Host, own, all, Dead) :
                   LET of == IF o.index = 0 THEN {} ELSE
                              {i \in 1..Len(left) : \E j \in 1..Len(left[i].tasks) :
                                  left[i].tasks[j] = all[o.index]}
                       over == Reverse(SelectSeq(left, LAMBDA g : allDone(o.h, g.tasks)))
                   IN  /\ SetHost(o.h)
                       /\ \/ \E i \in of :
                               /\ groups' = RemoveAt(left, i)
                               /\ jobs' = Append(settled, GroupJob(left[i], o.msg))
                          \/ /\ of = {}
                             /\ groups' = SelectSeq(left, LAMBDA g : ~allDone(o.h, g.tasks))
                             /\ jobs' = settled \o
                                   [i \in 1..Len(over) |-> GroupJob(over[i], NoMessage)]
    /\ UNCHANGED <<said, core, service, pending, call, busy, opened, sync>>

\* Mutant: a timed out call gives up without closing the driver.
RunJobKeepsDriver ==
    /\ Running /\ jobs # <<>>
    /\ LET r == Head(jobs).req IN
        /\ jobs' = Tail(jobs)
        /\ call' = [call EXCEPT ![r].outcome = IF Head(jobs).msg = NoMessage THEN "timeout" ELSE "resolved",
                                ![r].by = Head(jobs).msg.req]
        /\ busy' = [busy EXCEPT ![call[r].drv] = FALSE]
    /\ UNCHANGED <<said, link, task, core, service, phase, pending, groups, opened, sync>>

\* Mutant: a call with a timeout is not waited for any more after an event.
RunJobForgets ==
    /\ Running /\ jobs # <<>>
    /\ LET r == Head(jobs).req
           over == Head(jobs).msg.status # "event"
       IN  /\ jobs' = Tail(jobs)
           /\ call' = [call EXCEPT ![r].outcome = IF over THEN "ended" ELSE @]
           /\ busy' = [busy EXCEPT ![call[r].drv] = @ /\ ~over]
    /\ UNCHANGED <<said, link, task, core, service, phase, pending, groups, opened, sync>>

(***************************************************************************)
(* A continuation runs.  For a call of a proxy, resolveTerminalMessage: an *)
(* event, or in a timed call an answer without data, makes it wait again;  *)
(* no message means that the task is done, or that the time is up, which   *)
(* kills the driver.  The call then ends and the proxy is free.            *)
(***************************************************************************)
RunJob ==
    /\ Running /\ jobs # <<>>
    /\ jobs' = Tail(jobs)
    /\ LET r == Head(jobs).req
           m == Head(jobs).msg
           d == call[r].drv
           timed == call[r].kind = "timed"
           Ends(outcome) ==
              /\ call' = [call EXCEPT ![r].outcome = outcome, ![r].by = m.req]
              /\ busy' = [busy EXCEPT ![d] = FALSE]
              /\ UNCHANGED groups
       IN  \/ /\ call[r].kind = "raw"
              /\ UNCHANGED <<link, task, core, call, busy, groups>>
           \/ /\ call[r].kind # "raw" /\ m = NoMessage /\ isDone(Host, r)
              /\ Ends("exited")
              /\ UNCHANGED <<link, task, core>>
           \/ /\ timed /\ m = NoMessage /\ ~isDone(Host, r)
              /\ Ends("timeout")
              /\ Terminated(Host, d)
           \/ /\ call[r].kind = "plain" /\ m = NoMessage /\ ~isDone(Host, r)
              /\ Ends("ended")
              /\ UNCHANGED <<link, task, core>>
           \/ /\ timed /\ m.status \in {"event", "null"}
              /\ groups' = Append(groups, [tasks |-> <<r>>, timed |-> TRUE])
              /\ UNCHANGED <<link, task, core, call, busy>>
           \/ /\ call[r].kind # "raw"
              /\ m.status \in {"done", "error", "exited", "invalid", "overflow"}
                     \cup (IF timed THEN {} ELSE {"null"})
              /\ Ends(IF m.status \in {"done", "null"} THEN "resolved" ELSE m.status)
              /\ UNCHANGED <<link, task, core>>
    /\ UNCHANGED <<said, service, phase, pending, opened, sync>>

Pending == pending # <<>> \/ groups # <<>> \/ jobs # <<>>

(* The jobs are done: the loop goes round, or ends when nothing is pending. *)
JobsDone ==
    /\ Running /\ jobs = <<>> /\ Pending
    /\ phase' = "events"
    /\ UNCHANGED <<said, link, task, core, service, jsvars>>

(***************************************************************************)
(* The service ends: main returns, or it is killed.  detachRuntime has     *)
(* forgotten the class of the drivers before the context is freed, so that *)
(* jsDriverFinalizer does not terminate them; standard input is closed and *)
(* the guard servers are gone.                                             *)
(***************************************************************************)
ServiceEnds(killed) ==
    /\ service = "up"
    /\ killed \/ (Running /\ ~Pending)
    /\ service' = "gone"
    /\ core' = [d \in Drivers |-> [core[d] EXCEPT !.closed = TRUE]]
    /\ link' = [d \in Drivers |-> NoLink]
    /\ task' = [r \in Requests |-> NoTask]
    /\ phase' = "jobs"
    /\ pending' = <<>> /\ groups' = <<>> /\ jobs' = <<>>
    /\ busy' = [d \in Drivers |-> FALSE]
    /\ sync' = NoRequest
    /\ UNCHANGED <<call, opened, said>>

ScriptStep ==
    \/ \E d \in Drivers : OpenDriver(d) \/ OpenFails(d) \/ Close(d)
    \/ \E d \in Drivers, p \in {"oneshot", "keepalive"} : StartRaw(d, p)
    \/ \E d \in Drivers, t \in BOOLEAN, k \in {"invalid", "cmd"} : ProxyCall(d, t, k)
    \/ \E d \in Drivers : RawRequest(d, "cmd")
    \/ \E r, q \in Requests, t \in BOOLEAN : r < q /\ RawWaitAny(<<r, q>>, t)
    \/ \E r \in Requests : RawWaitAny(<<r>>, TRUE) \/ RawWaitNext(r) \/ RawTryNext(r)

LoopStep == SyncReturns \/ ProcessEvents \/ PollTasks \/ PollGroups \/ RunJob \/ JobsDone

Next ==
    \/ \E d \in Drivers : ProcessStep(d) \/ ProcessCrash(d)
    \/ ScriptStep
    \/ LoopStep
    \/ \E k \in BOOLEAN : ServiceEnds(k)

Spec == Init /\ [][Next]_vars

-----------------------------------------------------------------------------
(* Properties. *)

Calls == {r \in Requests : call[r].kind \in {"plain", "timed", "meta"}}

(* An earlier call of the same driver overflowed the buffer of the host. *)
AfterOverflow(r) ==
    \E q \in Calls : q < r /\ call[q].drv = call[r].drv /\ call[q].outcome = "overflow"

(***************************************************************************)
(* A call through the proxy ends with the answer of the driver to that     *)
(* call, never with the late answer to an earlier one that timed out: the  *)
(* protocol has no request ids, so this rests on the busy flag and on the  *)
(* driver being killed (driver_proxy.cpp, driver.cpp).  An overflow of the *)
(* buffer fails a call without killing its driver: what that still writes  *)
(* is taken for the answer to the next call, so nothing is said of those.  *)
(***************************************************************************)
OutcomeIsTheAnswer ==
    \A r \in Calls : ~AfterOverflow(r) =>
        /\ call[r].outcome = "resolved" => call[r].by = r /\ said[r] \in {"done", "null"}
        /\ call[r].outcome = "error" => call[r].by = r /\ said[r] = "error"

\* Where the runtime will look for the message that ends request r.
Waits(r) ==
    Cardinality({i \in 1..Len(pending) : pending[i] = r})
      + Cardinality({i \in 1..Len(groups) : Contains(groups[i].tasks, r)})
      + Cardinality({i \in 1..Len(jobs) : jobs[i].req = r})
      + Cardinality({sync} \cap {r})

(***************************************************************************)
(* A call that has not ended is waited for in exactly one place, a         *)
(* scheduler, a continuation or the blocked script: none is forgotten      *)
(* whatever times out, exits or is closed, and none can be settled twice.  *)
(* The proxy is busy exactly while one of its calls is in flight, so that  *)
(* no way a call can end leaves it locked (js_task_scheduler.cpp,          *)
(* js_wait_any_scheduler.cpp, driver_proxy.cpp).                           *)
(***************************************************************************)
EveryCallWaitedFor ==
    service = "up" =>
        /\ \A r \in Calls : Waits(r) = IF Settled(r) THEN 0 ELSE 1
        /\ \A d \in Drivers :
              Cardinality({r \in Calls : call[r].drv = d /\ call[r].kind # "meta"
                                          /\ ~Settled(r)}) = IF busy[d] THEN 1 ELSE 0

(***************************************************************************)
(* A keep-alive driver whose input ends carries out every request it was   *)
(* sent before it quits: the end of the input is queued behind the lines   *)
(* (driver_core.cpp, the reader thread).                                   *)
(***************************************************************************)
KeepAliveDrains ==
    \A d \in Drivers :
        core[d].alive /\ core[d].quit /\ core[d].profile = "keepalive"
            => core[d].stdin = <<>> /\ core[d].posted = <<>>
=============================================================================
