# stdiolink in TLA+

TLA+ models of stdiolink's control logic, the TLC configurations that check them
on small instances, and TLAPS proofs of the properties that matter most. The
source of every definition is the C++ code under `src/`; `PROJECT.json` maps each
definition to the lines it stands for. Paths below are relative to
`src/stdiolink_server/` unless they start with `src/` or `doc/`.

Run from this directory:

    tlc -workers 2 -config MCServerControl.cfg MCServerControl
    tlc -workers 2 -config MCServiceRuntime.cfg MCServiceRuntime
    tlc -workers 2 -config MCDeviceDrivers.cfg MCDeviceDrivers
    tlapm ServerControl_proofs.tla

(and the same for the other modules whose names end in `_proofs`; `DeviceDrivers_proofs`,
`ModbusServers_proofs`, `ModbusClients_proofs` and `Scanners_proofs` take ten to twenty minutes each).

## 1. The system

stdiolink connects programs through JSON lines on stdin and stdout. *Drivers* are
processes that answer commands. *Services* are JavaScript programs, run by
`stdiolink_service`, that use drivers. `stdiolink_server` keeps *projects*
(a service, its parameters and a schedule), runs each project's *instances* as
`stdiolink_service` processes, and offers an HTTP API and WebSockets.

| Component | State | Operations | What is hard | What makes it correct |
|---|---|---|---|---|
| InstanceManager (`manager/instance_manager.cpp`) | `m_instances`; per entry status, timers, flags | startInstance, terminate*, handlers of QProcess and of two timers, two waits | events of a process arrive in any order, also after a timeout has given up on it | every instance is announced once, in a usable order; nothing stays for ever |
| ScheduleEngine (`manager/schedule_engine.cpp`) | copies of projects and services, timers, failure counts, suppression, shutdown flag | startAll/stopAll, startProject/stopProject/resumeProject, ticks, restarts, onInstanceFinished | timers outlive the decisions that made them; restarts cannot be taken back | no lost or doubled timer, crash loops end, what is stopped stays stopped, crashed daemons return |
| ServerManager (`server_manager.cpp`) | projects, services, drivers, owner of the other managers | initialize, startScheduling, shutdown, service and driver scans, create/delete service | shutdown while requests are served; scans while projects run | the engine's copies follow; nothing is left running |
| ApiRouter (`http/api_router.cpp`) | `m_projectMutationsInFlight` | one handler per endpoint | handlers that wait run a nested event loop, in which other handlers run | handlers of one project exclude each other; storage and memory agree |
| ProjectManager (`manager/project_manager.cpp`) | `projects/<id>/{config,param}.json` | load, save, remove, validate | two files replaced by several renames | a crash loses neither the old nor the new project |
| Event bus, event stream, event log, instance log | subscribers, ring buffers, log files | publish, subscribe, write | clients that disconnect; partial lines | order kept, no line lost or split |
| DriverLab (`http/driverlab_ws_connection.cpp`) | one driver process per WebSocket | start, exec, cancel, crash backoff, ping | process and socket end independently | one process per session, gone with it |
| Driver catalog, scanners, meta cache | drivers and their metadata | scan in a worker, apply | scans overtaking each other | the latest scan wins |
| Host library (`src/src/stdiolink/host`) | a process, its buffer, one current task | start, request, tryNext, waitNext, waitAny, terminate | answers that come after a timeout; exit racing output | an answer goes to its own request; every task ends |
| Driver library (`src/src/stdiolink/driver`) | stdin thread, line queue, profile | run one-shot or keep-alive, responders | a reader thread and a main loop; end of input | each line answered once, in order, one-shot stops |
| Process guard (`src/src/stdiolink/guard`) | a local socket between parent and child | start, connect, force exit | the parent dies at any moment | no orphan survives its parent |
| JavaScript runtime (`src/src/stdiolink_service`) | two schedulers, pending tasks, promises | exec, nextMessage, waitAny, main loop | tasks shared by waiters, timeouts, re-entrance | each promise settles once; no message is lost |
| Protocol (`src/src/stdiolink/protocol`) | none | parse, serialise, validate | edge cases of formats | agreement with the definition |
| Scanner drivers (`src/src/drivers/driver_3d_*`, three of them) | a session with counters, the device's record of its last task | one per command: registers, long tasks, scans, captures | frames late, damaged or lost; retries; records that outlive a session | a "done" is true of the device and of this command |
| Modbus drivers (three masters, PLC crane, analog output, two Limaco radars) | cached connections, transaction numbers | reads and writes of coils and registers, typed values | late answers on a connection that is kept | what is told is what the slave holds |
| Modbus servers (three) and crane simulator | units, clients with buffers, event mode; a simulated device with timers | commands of the host, requests of masters | frames cut across reads, host and masters at once | each request answered once and in order, each write told |
| 3D vision driver | one HTTP client, one WebSocket, handlers nested in event loops | some forty HTTP commands, four on the WebSocket | commands handled inside commands that wait | a request is that of its command, the socket is what the host asked for |
| OPC UA server and client drivers | nodes and their entries, a serving thread; the stack of a walk | start, stop, run, upsert, delete, write, inspect, snapshot | two threads and two locks, batches that fail half way, cyclic references | a batch that fails undoes what it had finished, stop stops, the walk ends |
| Web console, demos, tools | — | — | — | not part of the core |

Interactions. Clients call ApiRouter over HTTP. ApiRouter changes ServerManager's
maps, calls ProjectManager, and calls ScheduleEngine and InstanceManager.
ScheduleEngine starts instances through InstanceManager and listens to its signal
`instanceFinished`; `instanceStarted`, `instanceStartFailed` and `instanceFinished`
also go to the event bus. All of this happens in **one thread**: handlers run to
completion, except that `waitProjectFinished` and `waitAllFinished` process events
while they wait, so that any other handler can run in the middle of theirs.
An instance is a `stdiolink_service` process: a script whose proxies write requests to
the stdin of driver processes and read their stdout. The protocol has no request ids,
so the host library's order and the proxy's busy flag are all that pairs an answer with
its request. Drivers share nothing with each other.

`PROJECT.json` lists every component with its status, and under `hazards` the
places where this code is hard to test.

## 2. What is modelled

    InstanceTable            values: an entry of m_instances, and each update of one
      ├─ InstanceManager     table + emitted signals     ──implements──▶ InstanceSignals
      │    └─ InstanceManager_proofs
      └─ ScheduleEngine      table + scheduler, called by anybody
           └─ ServerControl  projects, services, requests, storage, shutdown
                │            (uses the actions of ScheduleEngine) ──implements──▶ ScheduleEngine
                └─ ServerControl_proofs   first the engine under any callers, then the server
    SaveTransaction          the file operations inside saveProject and removeProject
      └─ SaveTransaction_proofs
    HostDriver               Driver, Task, waitAnyNext as functions of the host's state
    DriverCore               a driver process: reader thread, main thread, guard
      └─ ServiceRuntime      script, schedulers and proxy over HostDriver and DriverCore
           └─ ServiceRuntime_proofs
    DeviceLine               a serial line or socket: answers late, damaged or lost
      ├─ ScanRobot, LaserRadar, TempScanner
      └─ ModbusClients (+ ModbusTypes)   the three Modbus clients
           └─ ModbusMaster, PlcCrane, AnalogOutput, LimacoRadar
    ModbusServer (+ ModbusTypes), CraneSim, Vision3D,
    OpcUaServer (+ OpcUaTypes), OpcUaClient
      └─ DeviceDrivers       all of the above: one of the drivers runs
           ├─ DeviceDrivers_proofs   Vision3D, OpcUaClient, OpcUaServer
           ├─ ModbusServers_proofs   ModbusServer, CraneSim
           │    └─ Scanners_proofs   ScanRobot, LaserRadar, TempScanner
           └─ ModbusClients_proofs   ModbusMaster, PlcCrane, AnalogOutput, LimacoRadar

**InstanceTable** has no variables. An `Instance` keeps `status`, whether `kill()`
was sent, `startFailedEmitted`, whether there is a `runTimeoutMs`, the state of the
watchdog, the service whose directory it runs, and who asked for it. Instance ids
are random and never reused; they are abstracted to *slots* of a project that are
reused only after the entry has been erased. Program arguments, log files and
temporary files are left out. `QProcess` is external: a process may start, fail,
hang or exit at any time, and one that was killed may still report `started`.

**InstanceManager** has one action for `startInstance` past its early returns, one
for each handler of `QProcess` and of the two timers, and the terminate calls. The
history variable `sig` counts the signals emitted for the instance a slot holds or
held last. The constant `LateExecFailure` says whether Qt can deliver
`errorOccurred(FailedToStart)` after the 5 s start timer has fired. The code does
not look at `startFailedEmitted` there, so it would then announce the failure twice.
It takes an `exec` that fails in the same turn of the event loop in which the timer
expires.

**InstanceSignals** is what listeners may rely on: a start outcome, then the end,
once; `startFailed` may be followed by `started` (the process came up after its
start timer), never the reverse.

**ScheduleEngine** has one action for each method and timer lambda. Its callers are
arbitrary (any method, any argument, any time), so its properties hold whatever the
API does. Two things the code keeps implicitly are variables: `ticking`, the
`QTimer` objects that really run (so that one missing from `m_timers` would be
seen), and `restarts`, the pending `singleShot`s. Time is abstracted: a pending
timer may fire at any moment. `ok` says for which projects `startInstance` gets past
its early returns.

**ServerControl** extends ScheduleEngine with the callers: `main`, the project and service
handlers of ApiRouter, service scans, shutdown and storage. What both modules have goes by
another name here: `ServerInit`, `ServerNext`, `ServerSpec`, `ServerTypeOK`. Clients submit
configurations of `Configs`, which is closed under the changes the server itself makes
(`enabled`, `valid`). `stack` is the C++ stack of handlers
suspended in `waitProjectFinished`; only the topmost can go on. A handler that does
not have to wait is one step, one that waits is three: its first half, the end of
the 5 s grace period (a second `kill()`), and its second half, which is `Complete` or
`GiveUp`. `disk` is storage as `loadProject` would read it. `valid` is not stored, so
`Stored` resets it. A rejected request changes nothing and is no step. `phase` is
the server process; during `closing` and `draining` requests are still served, as
`waitAllFinished` runs an event loop after `aboutToQuit`. `unsynced` is history: the
projects for which a client got a storage error.

**SaveTransaction** is on its own: one project's `config.json` and `param.json`, and
one action for each operation of the file system in `saveProject`, in its rollback and
in `removeProject`. Each operation may fail, and `Crash` (the server is killed) is
possible between any two. The content of a file is the number of the save that wrote
it. `before` and `result` are history. ServerControl, where a save is one step or none,
relies on `ReturnTellsStorage`.

**HostDriver** has the state of `Driver` objects (process, unread output, buffer,
current task) and of tasks, and one operator for each method, since one call of the
library makes several such changes in a row. Nothing on the wire says which request a
line answers; messages carry the request for the properties alone. A line is two
fragments, so that a read may end inside one.

**DriverCore** is a driver process in stdio mode: the thread that reads lines and posts
them, the main thread that handles them, the one-shot and keep-alive profiles, and the
guard's client. What a driver's handler does is open.

**ServiceRuntime** puts a script on top: the phases of the main loop of
`stdiolink_service` (jobs, events, `JsTaskScheduler::poll`, `WaitAnyScheduler::poll`),
the proxy with its busy flag and timeouts, the raw driver class, `waitAny`, and the
synchronous waits that block the script. The script is open: it makes any of these calls
whenever it runs. `said` is history: how the driver answered each request.

**The drivers.** Every driver module has the four variables `ctl` (the handler and what it
remembers), `wire` (the line or socket), `dev` (the other side, or the data a server driver
serves) and `said` (the last answer), one action for each command or step of one, and the
commands of `buildMeta` as a set (`Described`), as DriverCore refuses any other. Where a
command consists of exchanges, an operator with the name of the session's function
(`sendAndReceive`, `transact`, `tcpSendRequest`) is the set of all ways one exchange can go;
the handler continues with one of them. The devices, masters and services are external.

- *ScanRobot*, *LaserRadar*, *TempScanner*: each exchange with its checks and its retries,
  the polling of tasks, the collection of segments, the files. Counters, registers and
  segments are small numbers; the content of a scan is the command that made it.
- *ModbusTypes* has the byte orders and register layouts as functions on symbolic bytes.
  *ModbusClients* has what each of the three clients compares in an answer: the TCP client
  the transaction number, the serial one unit and function code, the RTU-over-TCP one
  neither. *ModbusMaster*, *PlcCrane*, *AnalogOutput*, *LimacoRadar* are the commands on top.
  The byte orders are those of the code (section 4 says where the drivers' own descriptions
  differ).
- *ModbusServer*: the three servers, told apart by `ctl.kind`; a request is two pieces, and a
  read may return any number of pieces. The loops over a buffer and over the values of a write
  are recursive functions of a place in it. *CraneSim*: the simulated device, its timers, and the
  data area masters see.
- *Vision3D*: `ctl.stack` is the stack of handlers that wait in event loops; only the last one
  returns.
- *OpcUaServer*: the host's thread, which holds `m_outputMutex` for the whole of a command, and
  the serving thread, whose callbacks need it; nodes and `nodeEntries` are kept apart, as in
  the code. `upsert_nodes`, `delete_nodes` and the nodes of `run` go node by node and pass by pass
  (`ctl.job` is where the command is), and so does the rollback. Within a node `upsertNode` goes
  step by step (`UpsertSteps`: the node itself, access, value, entry, context and callback), each
  step may fail, and clients write in between. A node that is created is there for clients at
  once, but their writes are reported only when it is `linked`: before the context and the
  callback are installed nothing calls the driver. If a later step fails, the node is not yet in
  `createdNodeIds` (`opcua_server_runtime.cpp:1254`), so the rollback does not know it and it
  stays. Assumed of the library: `UA_Server_deleteNode` of a node that is there succeeds (the
  rollback, line 1280, does not look at its result), and clients neither add nor delete nodes.
  *OpcUaTypes*: conversions between JSON and variants. *OpcUaClient*: the recursive
  walk as a stack, while others delete nodes. A frame holds the set of children still to be
  visited, as the server may return references in any order. The answer is judged against the
  nodes that are there when it is given, if none was deleted since the walk began.

**DeviceDrivers** has a variable that says which driver runs, and the disjunction of their
specifications: drivers share no state, so there is nothing to interleave.

## 3. Runs

| Run | Shows | Bounds | States |
|---|---|---|---|
| `instance_manager` | Every instance is announced started or failed, then finished exactly once; reports agree with the table; the signal protocol is implemented; neither a hanging start nor a hanging run keeps its entry | 1 project, 3 slots | 5.8 k |
| `schedule_engine` | No lost or doubled timer; a timer belongs to the project as it now is; crash loops are noticed; no scheduled start after shutdown or while stopped | 1 project, 2 slots, 2 services, 5 configurations, 1 pending restart per service | 131 k |
| `server_control` | Handlers of one project exclude each other however requests nest; storage and memory agree when they are done; no start takes a project over its limit | 2 projects, 2 slots, 3 configurations, depth 2 | 832 k |
| `server_services` | Every step of the server is a step of the engine; what the scheduler started is killed before the server exits | 1 project, service scans, deletion, creation, foreign changes of files, shutdown, failing starts | 76 k |
| `server_liveness` | A waiting handler ends; a crashed daemon is started again, given up or stopped | 2 projects, 1 slot, depth 2, limit of 3 failures | 25 k |
| `save_transaction` | Nothing is lost whatever fails and whenever the server is killed; the result of a save is true of the disk; the two files belong together | 3 saves | 1.7 k |
| `service_runtime` | A call through the proxy ends with its own answer; none is forgotten, settled twice or leaves the proxy locked; a keep-alive driver answers what it was sent before its input ended | 1 driver process at a time, 3 requests (2 of them raw), 1 event, buffer of 3 fragments | 1.05 M |
| `device_drivers` | What each driver answers is true of its device, slave, service or nodes | 2 commands (3 for the vision and OPC UA server drivers), 2 late frames, see below | 4.88 M |
| `manual_never_scheduled` | **violated**: see finding 1 | as `server_control` | |
| `crash_loop_stays_down` | **violated**: see finding 2 | as `server_control` | |
| `deleted_has_no_instance` | **violated**: see finding 3 | as `server_control` | |
| `opcua_stop` | **violated**: see finding 4 | 2 commands, 1 write of a client, 2 nodes in a command | 31 k, where it is met |

Why the bounds are enough. Instances of InstanceManager share nothing but the table;
three give every interleaving of a terminate-all with two others. Projects of the
engine interact through `startAll` and `stopAll` alone, which treat them alike, so
one project is checked there with two services (a timer that captured the wrong one
is then visible) and configurations whose limits differ. `Slots` bounds the
instances of a project. In `server_control` two is one more than daemons and manual
projects may have, so exceeding the limit is possible; the `fixed_rate` project may have
two and is made a daemon while both run. `StartsWithinLimit` speaks of the step that starts
an instance, since the limit itself is no invariant: a project that is created again while
an instance of its deleted predecessor runs (finding 3) may begin with one too many. `MaxRestarts` bounds pending restarts: one is enough to be stale, and the
liveness run, where a crash with all of them pending would be cut off, allows two
with one slot. `MaxDepth = 2` is the least at which a handler is suspended under
another; a deeper stack repeats the same relation between neighbours. `Submitted`,
`Endpoints` and `ServerEvents` choose which requests clients make, to split the
state space by question. Between them the runs use every endpoint and event.
`server_services` does not check for deadlock because a server that has exited stops.

`MaxVersion` allows a save on top of what a crash left on top of what a failed
rollback left; the proofs do without the bound.

`OutcomeIsTheAnswer` leaves out the calls on a driver that follow a call which overflowed the
buffer of the host (`AfterOverflow`). `Driver` fails the task but does not stop the process
(`src/src/stdiolink/host/driver.cpp:154-162`), and the proxy is free again, so the lines the
driver had still to write are taken for the answer to the next call. With
`MaxEvents = 2` the run (4.1 M states, also passing, twice as long as the others) meets the case:
without the proviso TLC shows it there.

In `service_runtime` three requests are a request that times out, the one that might take its
answer, and a third that waits in a scheduler meanwhile. A script that stops making calls
stops, hence no check for deadlock. In `device_drivers` a second command is what a late answer,
a stale record or a kept connection of the first can harm, and two frames on a line are one
late and one due; `VisionCommands = 3` nests two handlers inside a third, `ServerCommands = 3`
is start, upsert and one more, and `MaxBatch = 2` is a node and its parent, in either order, or a
node that fails after one was made (`run` is given one node, `MaxRun`, which succeeds or fails). The host stops after its commands. The devices of these runs
obey three assumptions, each a constant or a comment in its module: a frame does not outlive
the closing of its port (`LateAcross = FALSE`); a laser radar ignores a second task while it
runs one; `QWebSocket::open` drops what the previous connection had under way. `service_runtime`
assumes that `waitForFinished(200)` sees the end of a killed driver (`KillSeen = {TRUE}`);
with `FALSE` in the set, `OutcomeIsTheAnswer` fails: the proxy starts anew on a process object
whose old output is still to be read.

Fairness. *Timers*: Qt runs an expired timer of a live event loop (weak fairness of
the start timer, the watchdog and the restart). *Killed processes end*: `kill()` is
SIGKILL (weak fairness of the exit of a killed process). *Waits*:
`waitProjectFinished` looks at its condition and its clock at least every 100 ms,
but only while it is on top of the stack. A handler that is topmost again and again
therefore goes on: strong fairness for each depth. Nothing is assumed of processes
that were not killed, nor of clients. *Threads* (`opcua_stop`): the two threads of
the OPC UA server driver are scheduled whenever they can run (weak fairness of each).

## 4. Findings

1. *A manual project is started by the scheduler.* A pending restart looks at
   shutdown, suppression and the project's presence, not at its type or `enabled`
   (`manager/schedule_engine.cpp:224-235`). A daemon crashes, is updated to `manual`
   before `restartDelayMs` has passed (`startAll` lifts the suppression), and is
   started. `doc/manual/11-server/instance-and-schedule.md:76-77` says a manual
   project is started by `POST start` only.
2. *Crash-loop suppression ends by itself.* `stopAll` clears suppression and counts
   of **every** project and is the first step of `startAll`, which any create, update
   or reload of any project calls. The manual (lines 95-96) says that a suppressed
   daemon needs someone to step in.
3. *A deleted project runs.* `handleProjectDelete` waits in a nested event loop; a
   request for another project lifts the suppression there; the engine keeps its
   copy after the removal, and a pending restart starts the deleted project.
   `doc/knowledge/05-server/server-lifecycle.md:54` says that the instances have
   exited before the project is removed.
4. *`stop_server` may never return* (`src/src/drivers/driver_opcua_server/`). `handle` holds
   `m_outputMutex` (`handler.cpp:183`) while `stop` joins the serving thread
   (`opcua_server_runtime.cpp:925`). If that thread is telling an event, it waits for the same
   mutex (`handler.cpp:168`). A session that opens at the wrong moment is enough.
   `doc/knowledge/02-driver/driver-opcua-server.md:12` says that the command stops the server.

Seen while modelling the drivers, without a run of their own (paths under `src/src/drivers/`):

- `driver_modbustcp_server/modbus_tcp_server.cpp:254`: an exception made by a read or write
  handler already has its header when `buildResponse` adds another, so a master sees no
  exception code where `doc/requirement/modbustcp_server_driver.md:350` promises 0x02.
  ModbusServer has it as `Wrapped`.
- `driver_modbustcp/modbus_client.cpp:100`: after a late answer the TCP client refuses it and
  stays one answer behind for as long as the connection lasts. The RTU-over-TCP client compares
  neither unit nor function code, and takes a late answer for its own.
- `driver_3d_scan_robot`: the counter of a response is never compared; some commands do not
  compare the register either; `scan_frame` does not know the result code of a failed task;
  counters start anew with each session, which defeats the test for stale results
  (`radar_session.cpp:144`).
- `driver_3d_temp_scanner/handler.cpp:97`: the address is cut to 8 bits before its range is
  tested, so 257 is accepted as 1; the writers of json, csv and raw ignore failed writes.
- `driver_pqw_analog_output/handler.cpp:637`: `set_comm_config` writes register by register and
  leaves the earlier ones when one fails; the unit id is the first.
- `driver_limaco_common/limaco_decode.cpp:7`: a legacy answer whose registers 0, 3, 6, 9 and 12
  end in 0x14 is taken for the newer layout.
- `driver_3dvision/main.cpp:1466-1485`: `ws.connect` may answer that it is connected after a
  nested `ws.disconnect`; `http_client.cpp:45-82`: a reply that came in time is reported as a
  timeout when a nested handler outlasts the timer.
- `driver_opcua_server/opcua_server_runtime.cpp`: the value of a write is cached after the server
  has it, so an event may tell a stale `old_value`; `variableWritten` (766) may use an entry a
  command has freed; a failed upsert keeps its changes to nodes that existed before, and it
  leaves the node it created last when a later step for that node fails: `rollback_failure`
  (1249-1250) is reached before `createdNodeIds.append` (1254). Such a node has no callback and
  perhaps no entry, so clients write to it unheard. No document promises more than the error
  the host gets, hence no finding. `OpcUaAnswers` says how much is left at most.
- The byte orders have two definitions. By `modbus_types.h:45-48` and the conversions
  (`modbus_types.cpp`) `little_endian` is CD AB and `little_endian_byte_swap` DC BA. The
  drivers' descriptions of the parameter have the two the other way round:
  `driver_modbustcp/main.cpp:371,471,503`, `driver_modbusrtu/main.cpp:371,471,503`,
  `driver_modbusrtu_serial/handler.cpp:337,414,463`,
  `driver_modbustcp_server/handler.cpp:595,614`, `driver_modbusrtu_server/handler.cpp:593,612`,
  `driver_modbusrtu_serial_server/handler.cpp:576,595`. A host that goes by a description gets
  the words of a value in the other order. `ModbusAnswers` compares the conversions with the
  header's orders (`Layout` in ModbusMaster): that it holds says nothing for the descriptions.
- `driver_plc_crane_sim`: in auto mode the cylinder lowers at once if the mode is set while the
  valve is still opening.

Seen while modelling the server, without a run of their own: graceful shutdown sends `kill()`
where `instance-and-schedule.md:105` says `terminate()`; an early error of
`startInstance` in `startDaemon` is logged and never retried; `POST start` is
accepted while the server shuts down; a crash between the two installs of `saveProject`
leaves a project that loads as valid with empty parameters (`manager/project_manager.cpp:174`),
its old parameters being in a backup nobody looks for; the rollback does not report
that it could not remove the `config.json` of a project that is being created
(line 117); a failed create leaves an empty directory, found as an invalid project by
the next start.

## 5. Proofs

`InstanceManager_proofs` proves, for any projects, slots and services:

| Theorem | Statement |
|---|---|
| `TypeCorrect` | `Spec => []TypeOK` |
| `FinishedOnce` | `Spec => []FinishedExactlyOnce` |
| `OutcomeAnnounced` | `Spec => []OutcomeBeforeFinished` |
| `ReportsAgree` | `Spec => []ReportsMatchTable` |
| `StartFailedOnce` | `Spec => []StartFailedAtMostOnce`, if `~LateExecFailure` |
| `SignalProtocol` | `Spec => FollowsSignalProtocol`, if `~LateExecFailure` |

The argument. None of the invariants is inductive: that `finished` is not emitted
twice depends on what was emitted while the entry was starting. The inductive
invariant `IInv` is `TypeOK` and, for every slot, `EntryInv`, which says by status
what has been announced: of a *starting* entry nothing but, when
`startFailedEmitted`, one failure, and then it has been killed; of a *running* one
also `started`; of an *absent* one nothing at all, or an outcome and one end. Since
a handler touches one slot, `OneEntryStep` reduces every action to the entry it
writes. `LateExecFailure` weakens exactly one conjunct, the count of failures of an
ended instance, so the first four theorems need no assumption. For the refinement,
`Alive` maps the table to `alive`, `sig` maps to itself, and `ProtocolStep` shows,
one action at a time, which step of `InstanceSignals` (or stutter) it is. The only
assumptions are `SlotsAssumption` and `LateExecFailureAssumption`.

The first part of `ServerControl_proofs` proves of ScheduleEngine, for any projects, slots,
services, configurations and callers:

| Theorem | Statement |
|---|---|
| `TypeCorrect` | `Spec => []TypeOK` |
| `CrashLoopsEnd` | `Spec => []FailuresBelowLimit` |
| `TimersAreKnown` | `Spec => []NoOrphanTimer` |
| `TimersAreCurrent` | `Spec => []TimerServesItsProject` |
| `NothingAfterShutdown` | `Spec => ShutdownStartsNothing` |
| `NothingWhileStopped` | `Spec => StoppedStaysDown` |

The argument. Here the inductive invariant is the conjunction of `TypeOK` and the
three state properties. They need each other: that the number of running timers stays
a natural number when one is stopped needs `NoOrphanTimer`, and that giving up a
daemon leaves no timer behind needs `TimerServesItsProject`. There is one lemma for
each kind of step, resting on `RetimedFacts` (stopping the timer `m_timers` knows and
starting another is exact) and on a few lemmas about the entries of the table. The two action properties follow from one lemma,
`NextStartsNothing`. Its interesting case is the tick: a running timer is the one in
`m_timers`, and that one belongs to a project that is not suppressed. The assumptions
are `SlotsAssumption` and `ConfigsAssumption` (configurations have the fields of a
project; the two limits are positive, as `Schedule::fromJson` makes sure).

`SaveTransaction_proofs` proves, for any number of saves, `TypeCorrect`,
`SaveLosesNothing` (`[]NothingLost`), `SaveReturnsTruth` (`[]ReturnTellsStorage`) and
`FilesBelongTogether` (`[]NeverMixed`). The inductive invariant adds `LoopInv`, which says
for each loop, and for the entry it has come to, whether a file is untouched, away in
its backup, replaced, or settled by the rollback. Both files are away before either is
replaced, and no backup goes before both are replaced: this is what makes `NothingLost`
and `NeverMixed` hold. The assumption is `MaxVersionAssumption`.

The second part of `ServerControl_proofs` proves of the server, for any projects, slots,
services, configurations, initial maps and depth of nesting:

| Theorem | Statement |
|---|---|
| `ServerImplementsEngine` | `ServerSpec => ImplementsEngine` |
| `ServerTypeCorrect` | `ServerSpec => []ServerTypeOK` |
| `HandlersExclude` | `ServerSpec => []MutationsExclusive` |
| `StorageAgrees` | `ServerSpec => []DiskMatchesMemory` |
| `ServerKeepsEngineGuarantees` | the state and action properties of ScheduleEngine, under `ServerSpec` |
| `ExitIsClean` | `ServerSpec => []ExitLeavesNothingScheduled` |
| `StartsAreLimited` | `ServerSpec => StartsWithinLimit` |

The argument. The inductive invariant `ServerInv` is the engine's, the types
(`ControlTypeOK`: all maps hold configurations of `Configs`), `MutationsExclusive` and
`StorageInv`. They cannot be separated: a handler that gives up writes back the project it
found, which is well typed only if the project still exists, and that rests on exclusion; and
a handler that completes leaves storage and memory in agreement only if storage is still what
its first half left, which `StorageInv` says of every suspended handler (`HandlerStorage`).
Given `ServerInv`, `ServerNextStep` shows of every handler, timer and event which action of
ScheduleEngine it is; the refinement mapping is the identity, so the engine's theorems hold in
the server. Two more invariants carry the last two theorems. `ShutdownInv`: once shutdown has
begun, what is alive was killed or started by a client. `LimitInv`: outside boot the engine's
copy of a project and the manager's agree on its limit, although they do differ in other
fields, so a tick or a restart, which go by the copy, respect the limit clients see. The
assumptions are those of the engine and `ServerAssumption` (what clients submit and what is
found at the start are valid configurations; `Configs` is closed as said above).

`ServiceRuntime_proofs` proves `InputIsDrained` (`Spec => []KeepAliveDrains`), for any number
of drivers, requests and events, and whatever the script, the schedulers and the host library
do meanwhile. `KeepAliveDrains` is about the moment a driver quits, and `CoreInv` about how it
comes to it (`EndsInOrder`): the reader stops only at the end of the input, the end is posted
behind all lines, and the main thread quits only on taking it. It also needs that nothing
is written to an input that was closed, which holds because only the end of the service closes
it. `LeastNumber` derives the least-number principle from the library's well-founded induction;
it is what makes `Min`, and so the request a call takes, well defined. Assumptions:
`HostAssumption`, `RuntimeAssumption`.

The proofs about the drivers are in four modules. Each theorem has the specification of
DeviceDrivers, so it is about one driver or another running, and its invariant is a conjunction
over the drivers it names. The assumption of all four is `DevicesAssumption`: there are addresses
and finitely many nodes, the bounds are natural numbers, the numbers of counters, tries,
transaction numbers, addresses and channels are positive, the crane's four registers have
addresses, and no command describes the OPC UA server's own root.

`DeviceDrivers_proofs`, for any number of commands, and any addresses or nodes:

- `VisionAnswersAreTrue` (`Spec => []VisionAnswers`). `SocketInv` adds to the property what makes
  it inductive: the socket is open exactly while the client counts as connected, and an attempt
  is under way only while the host wants the connection. Without the latter, a socket that opens
  after a nested `ws.disconnect` would count as connected.
- `WalkIsExact` (`Spec => []OpcUaWalk`). `NestInv` says that calls which have a child to go to,
  or are in one, are of different nodes: so the walk nests no deeper than there are nodes,
  whatever cycles the references have. `RootInv` ties the stack to the command. `CoverInv`: as
  long as no node has been deleted, the walk is inside the set of nodes to be reached (the least
  set that contains the root and is closed under what its members offer), and what a visited node
  offers has been visited or is still ahead in some call. When the outermost call returns nothing
  is ahead, so the visited set is closed, and therefore the whole.
- `BatchesAreUndone` (`Spec => []OpcUaAnswers`), for any set of node descriptions, any number of
  them in a command, a failure at any step of any of them, and any number of writes of clients.
  `UaUpsert`: while `upsertNodes` is at work, or takes back what it did, the nodes are those there
  were before, those it made, each made once and under a node that was there already, and at most
  one that it created and did not finish (`UaFresh`). That one has no callback yet, and none but
  it is below the node made last. `UaAt` says that the node being put in place is there, and has
  its entry once the context is due. When a step fails, `UaFresh` is what the rollback does not
  know of. If it lies below a node that is taken back it goes with it, as a deletion takes all
  below; otherwise it is the one node left. The rollback takes back no other node but those the
  command made, because it goes in the reverse of their order. `UaPass` and `UaDelete`: what is
  still missing, or still to be deleted, is on the command's lists, so nothing is lost between
  two passes. `UaStore` is the part of the property about parents and entries. The serving
  thread writes values alone.

`ModbusServers_proofs`, for any masters, units, values, areas and arrival of the requests in
pieces:

- `ServersAnswerInOrder` (`Spec => []ServerAnswers`). For the Modbus servers, `SlaveInv` says of
  every connection that its requests make a stream of pieces, that buffer and pipe are the end of
  this stream, and that the replies are to requests all of which has been taken (`Taken`), in
  their order, over TCP to each of them as long as the stream is in step. For the crane, `SimInv`
  says that the registers show what the device has taken, a part that moves has its timer
  running, and in auto mode the device is at its goal or on its way. The functions that go along
  a buffer or a list of values are recursive in a place of a sequence: that they have a value at
  all, and what holds at their end, is by induction over the places. The lemma `Inductive` gives
  it for sets (a set of numbers with 0 and all successors is all of them), from the library's
  well-founded induction, as the library's own rule for predicates cannot be instantiated.

`Scanners_proofs`, for any commands, any number of late frames, any range of the robot's counter,
and any numbers of segments and tries:

- `ScannersTellTheTruth` (`~LateAcross => (Spec => []ScannerAnswers)`). `RobotInv`, `LaserInv` and
  `ThermalInv` have the types without condition, and, if what is late does not survive the closing
  of the port, that what is on the line belongs to the command at work: so the checks of counter,
  register and task, some of which the drivers leave out (section 4), find only what is theirs.
  The hypothesis is needed: with `LateAcross` the property is false.

`ModbusClients_proofs`, for any commands, any number of late answers, any range of transaction
numbers, any addresses and channels:

- `ModbusAnswersAreTrue` (`MaxCommands <= TxIds => (Spec => []ModbusAnswers)`). `ClientOrder`: over
  TCP every frame on the line has the number of an earlier request, so an answer that is accepted
  is the slave's to this one (`ClientsTrust`). The hypothesis is for this alone: transaction
  numbers wrap, and after a whole round of them a late answer could have the number of the
  present request. On the serial lines the property speaks of answers with nothing late. What is
  accepted is then carried through the layouts: `ValueOfTwo` and `ValueOfFour` show that each of
  the four byte orders gives the registers it should and reads back the value,
  `LimacoReadsPoints` that both layouts of the radar give its points, `AnalogWriting` that what
  `set_comm_config` has written stays while the rest is written, as no two of its fields share a
  register.

Only model-checked, and why:

- every liveness property: fairness and `ENABLED` are out of the prover's reach;
- `OutcomeIsTheAnswer` and `EveryCallWaitedFor`, which go through the polls of the two
  schedulers and the calls of the host library they make: the inductive invariant relates the
  buffers of every process, both schedulers' lists, and every request, and has not been worked out;
- the types of ServiceRuntime and DeviceDrivers, beyond the parts in the invariants above;
- that a daemon given up, a manual project or a deleted one stays down is false (section 4).

## 6. Plan

In this order, the most important behaviour first.

1. *Done*: InstanceTable, InstanceManager, InstanceSignals, ScheduleEngine,
   ServerControl, SaveTransaction, and the proofs of section 5; HostDriver, DriverCore and
   ServiceRuntime; the drivers.
2. *Done*: the proofs of the drivers. Next: `EveryCallWaitedFor` and `OutcomeIsTheAnswer`.
3. `DriverLab` and the event streams; the sequence numbers of driver scans.
4. Operators for pure algorithms: schedule parsing and validators against reference
   definitions.

## 7. Not modelled, and why

- Read-only endpoints, static files, logs, parsing of bodies: no state changes.
- Configuration values and schemas: a project is valid iff its service is known.
- Delays: only the order of events matters to the properties.
- Crashes of the server in ServerControl: what a crash leaves is SaveTransaction's
  question, and a restart is a new `Boot`. Power failures: the code does not flush to
  the device, and what survives is up to the file system.
- `QMap` sharing and object lifetimes: below the level of these models. One place
  relies on them: `http/api_router.cpp:1484` keeps an iterator into `m_projects` across the
  nested event loop, valid because `startAll` detaches the engine's copy of the map. Others: `stopServer` of the
  Modbus servers iterates over its clients while a disconnect may remove one.
- `$rawRequest` of the proxy: it goes past the busy flag by design.
- Bytes: checksums, headers and the layout of frames are abstracted to "intact", "damaged" or
  "missing"; the attributes of OPC UA nodes beside class, parent and value are left out.
- Event bus, event stream, logs, DriverLab: observers of the server, or a tool on top of it.
- JavaScript bindings for files, HTTP, time and processes: one promise per call, no shared
  state. Documentation generator, console, web console, demos and tools: programs without
  control state, or with no part in the control logic above.
