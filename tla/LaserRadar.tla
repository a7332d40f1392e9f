----------------------------- MODULE LaserRadar -----------------------------
(***************************************************************************)
(* driver_3d_laser_radar: a scanner on a TCP connection that is made for   *)
(* each command.  A long task gets no immediate response: the driver       *)
(* clears the device's record of its last task, sends the task, expects    *)
(* silence, and polls the record until it shows this task ended            *)
(* (handler.cpp, laser_session.cpp).                                       *)
(*                                                                         *)
(* The driver checks its parameters itself (autoValidateParams is false):  *)
(* the argument Bad stands for one that is refused.                        *)
(***************************************************************************)
EXTENDS DeviceLine, Integers

CONSTANTS
    MaxCommands,  \* bound: commands the host gives
    Segments      \* segments of a scan

VARIABLES ctl, wire, dev, said

vars == <<ctl, wire, dev, said>>

-----------------------------------------------------------------------------
(* Commands *)

\* Register of each command that reads one (RegId).
RegOf == [get_work_mode |-> 1, get_device_status |-> 2, get_device_code |-> 3,
          get_lidar_model_code |-> 4, get_distance_unit |-> 5, get_uptime_ms |-> 6,
          get_firmware_version |-> 14, get_data_block_size |-> 18, get_x_axis_ratio |-> 22,
          get_transfer_total_bytes |-> 40]
RawRegister == 500
Registers == {RegOf[c] : c \in DOMAIN RegOf} \cup {RawRegister}

TaskOf == [calib_x |-> "CalibX", calib_lidar |-> "CalibLidar", move_x |-> "MoveX",
           scan_field |-> "ScanField"]
Immediate == [set_imaging_mode |-> "SetImagingMode", reboot |-> "Reboot"]

\* buildMeta: the commands with parameters and tasks, and the others.
CommandMeta == {"status", "test", "get_reg", "set_reg", "query", "cancel", "get_data"}
                 \cup DOMAIN TaskOf \cup DOMAIN Immediate
Described == CommandMeta \cup DOMAIN RegOf

knownCommands ==
    {"test", "get_reg", "set_reg", "query", "cancel", "set_imaging_mode", "reboot",
     "get_data", "scan_field", "get_work_mode", "get_device_status", "get_device_code",
     "get_lidar_model_code", "get_distance_unit", "get_uptime_ms", "get_firmware_version",
     "get_data_block_size", "get_x_axis_ratio", "get_transfer_total_bytes", "calib_x",
     "calib_lidar", "move_x"}

Bad == -1

\* parseUnsignedParam, parseDoubleParam
parseParam(arg) == arg # Bad

\* Host, port and timeouts, which the driver checks for every command.
ConnectionParams == {"good", "bad"}
resolveConnectionParams(conn) == conn = "good"

\* What passes, and one that does not.
Inputs(c) ==
    CASE c \in {"set_reg", "move_x"} -> {0, 190, Bad}
      [] c = "query" -> {100, 200, Bad}
      [] c = "get_data" -> {0, 1, Bad}
      [] c \in {"test", "get_reg", "scan_field"} -> {1, Bad}
      [] OTHER -> {0}

\* encodeMilliDegrees: what passes the check is far below 2^31.
Encode(deg) == deg * 1000

-----------------------------------------------------------------------------
(* The device, external *)

NoTask == [ctr |-> 0, cmd |-> "none", res |-> "none", id |-> 0]
Results == {"success", "blank", "cancelled", "failed"}

Payload(d, q) ==
    CASE q.cmd = "RegRead" -> <<q.p[1], d.reg[q.p[1]]>>
      [] q.cmd = "Query" -> IF q.p[1] = 200 /\ d.task.res # "running"
                            THEN <<0, "none", "none">> ELSE <<d.task.ctr, d.task.cmd, d.task.res>>
      [] q.cmd = "Cancel" -> <<d.task.ctr, d.task.cmd, IF d.task.res = "running" THEN 10 ELSE 30>>
      [] q.cmd = "GetData" -> <<q.p[1], Segments, d.data>>
      [] q.cmd = "Test" -> <<-q.p[1] - 1>>
      [] OTHER -> q.p

\* A device that runs a task ignores another one.
Served(d, q) ==
    CASE q.cmd = "RegWrite" -> [d EXCEPT !.reg[q.p[1]] = q.p[2]]
      [] q.cmd = "Query" /\ q.p[1] = 200 /\ d.task.res # "running" -> [d EXCEPT !.task = NoTask]
      [] q.cmd \in {TaskOf[c] : c \in DOMAIN TaskOf} /\ d.task.res # "running" ->
           [d EXCEPT !.task = [ctr |-> q.ctr, cmd |-> q.cmd, res |-> "running", id |-> said.id],
                     !.at = IF q.cmd = "MoveX" THEN q.p[1] ELSE @]
      [] OTHER -> d

TaskEnds(res) ==
    /\ dev.task.res = "running"
    /\ dev' = [dev EXCEPT !.task.res = res,
                          !.data = IF dev.task.cmd = "ScanField" THEN dev.task.id ELSE @]
    /\ UNCHANGED <<ctl, wire, said>>

-----------------------------------------------------------------------------
(* LaserSession *)

Idle == [cmd |-> "none", arg |-> 0, step |-> "idle", ctr |-> 0, exp |-> 0, res |-> "none",
         got |-> <<>>]

Init ==
    /\ ctl = Idle
    /\ wire = Quiet
    /\ dev = [reg |-> [r \in Registers |-> 1000 + r], task |-> NoTask, data |-> 0, at |-> 0]
    /\ said = [id |-> 0, status |-> "none", code |-> 0, cmd |-> "none", val |-> <<>>]

Answer(status, code, val) ==
    /\ said' = [said EXCEPT !.status = status, !.code = code, !.cmd = ctl.cmd, !.val = val]
    /\ ctl' = Idle

Failed(kind) == Answer("error", kind, <<>>)

Continue(c) == ctl' = [c EXCEPT !.ctr = (@ + 1) % 2^16] /\ UNCHANGED said

(***************************************************************************)
(* sendAndReceive: what has arrived is thrown away before a frame is sent; *)
(* tryDecodeFrame compares the command of the frame, not its counter.      *)
(* Error 1 is a failure of the transport, 2 of the protocol.               *)
(***************************************************************************)
sendAndReceive(cmd, p) ==
    LET q == [ctr |-> ctl.ctr, cmd |-> cmd, p |-> p]
        reply == [frame |-> "reply", cmd |-> cmd, p |-> Payload(dev, q)]
        ways == UNION {Exchange(l, <<reply>>) : l \in Drained(wire)}
        lost == UNION {Exchange(l, <<>>) : l \in Drained(wire)}
        Way(d, o) == [d |-> d, line |-> o.line, got |-> o.got,
                      ok |-> "p" \in DOMAIN o.got /\ o.got.cmd = cmd]
    IN  {Way(Served(dev, q), o) : o \in ways} \cup {Way(dev, o) : o \in lost}

\* One of these ways; the handler goes on with Ok(payload) or Fail(error).
Receive(cmd, p, Ok(_), Fail(_)) ==
    \E r \in sendAndReceive(cmd, p) :
        /\ dev' = r.d
        /\ wire' = r.line
        /\ IF r.ok THEN Ok(r.got.p) ELSE Fail(IF r.got = NoFrame THEN 1 ELSE 2)

(* sendExpectNoImmediateResponse: anything but silence is an error. *)
sendExpectNoImmediateResponse(cmd, p) ==
    LET q == [ctr |-> ctl.ctr, cmd |-> cmd, p |-> p]
    IN  \E d \in {dev, Served(dev, q)}, l \in Drained(wire) : \E o \in Reads(l) :
            /\ dev' = d
            /\ wire' = o.line
            /\ IF o.got = NoFrame THEN Continue([ctl EXCEPT !.step = "poll", !.exp = ctl.ctr])
               ELSE Failed(2)

-----------------------------------------------------------------------------
(* ThreeDLaserRadarHandler *)

Handle(c, arg) ==
    /\ ctl.step = "idle" /\ said.id < MaxCommands
    /\ said' = [id |-> said.id + 1, status |-> "none", code |-> 0, cmd |-> c, val |-> <<arg>>]
    /\ ctl' = [Idle EXCEPT !.cmd = c, !.arg = arg, !.step = "begin"]
    /\ UNCHANGED <<wire, dev>>

(* handle: the known commands, resolveConnectionParams and the command's own
   parameters, then ensureSessionOpened. *)
Begin ==
    /\ ctl.step = "begin"
    /\ \/ ctl.cmd = "status" /\ Answer("done", 0, <<"ready">>) /\ UNCHANGED wire
       \/ ctl.cmd \notin knownCommands \cup {"status"} /\ Answer("error", 404, <<>>) /\ UNCHANGED wire
       \/ /\ ctl.cmd \in knownCommands
          /\ \E conn \in ConnectionParams :
               IF ~resolveConnectionParams(conn) \/ ~parseParam(ctl.arg)
               THEN Failed(3) /\ UNCHANGED wire
               ELSE \/ Failed(1) /\ UNCHANGED wire
                    \/ ctl' = [ctl EXCEPT !.step = "open"] /\ wire' = OnOpen(wire) /\ UNCHANGED said
    /\ UNCHANGED dev

(* readRegister: the register in the answer must be the one asked for. *)
ReadRegister ==
    LET r == IF ctl.cmd = "get_reg" THEN RawRegister ELSE RegOf[ctl.cmd]
    IN  /\ ctl.step = "open" /\ ctl.cmd \in DOMAIN RegOf \cup {"get_reg"}
        /\ Receive("RegRead", <<r>>,
              LAMBDA p : IF p[1] = r THEN Answer("done", 0, p) ELSE Failed(2), Failed)

(* writeRegister: the echoed register, too; the echoed value is returned. *)
WriteRegister ==
    /\ ctl.step = "open" /\ ctl.cmd = "set_reg"
    /\ Receive("RegWrite", <<RawRegister, ctl.arg>>,
          LAMBDA p : IF p[1] = RawRegister THEN Answer("done", 0, p) ELSE Failed(2), Failed)

TestEcho ==
    /\ ctl.step = "open" /\ ctl.cmd = "test"
    /\ Receive("Test", <<ctl.arg>>,
          LAMBDA p : IF p[1] = -ctl.arg - 1 THEN Answer("done", 0, p) ELSE Failed(2), Failed)

Query ==
    /\ ctl.step = "open" /\ ctl.cmd = "query"
    /\ Receive("Query", <<ctl.arg>>, LAMBDA p : Answer("done", 0, p), Failed)

Cancel ==
    /\ ctl.step = "open" /\ ctl.cmd = "cancel"
    /\ Receive("Cancel", <<100>>, LAMBDA p : Answer("done", 0, p), Failed)

(* set_imaging_mode and reboot. *)
ImmediateCommand ==
    /\ ctl.step = "open" /\ ctl.cmd \in DOMAIN Immediate
    /\ Receive(Immediate[ctl.cmd], <<100>>, LAMBDA p : Answer("done", 0, p), Failed)

(* get_data: one segment, written to a file. *)
GetData ==
    /\ ctl.step = "open" /\ ctl.cmd = "get_data"
    /\ Receive("GetData", <<ctl.arg>>,
          LAMBDA p : \/ p[1] = ctl.arg /\ Answer("done", 0, p)
                     \/ Failed(IF p[1] = ctl.arg THEN 1 ELSE 2), Failed)

\* Mutant: the record of the last task is not cleared.
resetQueryStateSkipped ==
    /\ ctl.step = "open" /\ ctl.cmd \in DOMAIN TaskOf
    /\ Continue([ctl EXCEPT !.step = "send"])
    /\ UNCHANGED <<wire, dev>>

(* resetQueryState: the device's record of its last task must be clear. *)
resetQueryState ==
    /\ ctl.step = "open" /\ ctl.cmd \in DOMAIN TaskOf
    /\ Receive("Query", <<200>>,
          LAMBDA p : IF p = <<0, "none", "none">> THEN Continue([ctl EXCEPT !.step = "send"])
                     ELSE Failed(2), Failed)

SendTask ==
    /\ ctl.step = "send"
    /\ sendExpectNoImmediateResponse(TaskOf[ctl.cmd], <<Encode(ctl.arg)>>)

(* The end of calib_x, calib_lidar and move_x, and of the task of scan_field. *)
TaskDone(res) ==
    CASE ctl.cmd = "scan_field" /\ res \in {"success", "blank"} ->
           Continue([ctl EXCEPT !.step = "segments", !.res = res])
      [] ctl.cmd # "scan_field" /\ res = "success" -> Answer("done", 0, <<ctl.arg, res>>)
      [] OTHER -> Failed(2)

(***************************************************************************)
(* waitTaskCompleted: a query that fails in transport is repeated, one     *)
(* that fails in protocol is the end; records of other tasks are ignored.  *)
(***************************************************************************)
waitTaskCompleted ==
    /\ ctl.step = "poll"
    /\ Receive("Query", <<100>>,
          LAMBDA p : IF p[1] = ctl.exp /\ p[2] = TaskOf[ctl.cmd] /\ p[3] # "running"
                     THEN TaskDone(p[3]) ELSE UNCHANGED <<ctl, said>>,
          LAMBDA k : IF k = 1 THEN UNCHANGED <<ctl, said>> ELSE Failed(2))

TaskTimeout ==
    /\ ctl.step = "poll"
    /\ Failed(2)
    /\ UNCHANGED <<wire, dev>>

(***************************************************************************)
(* collectAllSegments, the comparison of the byte count, and the file: no  *)
(* segment is asked for twice.                                             *)
(***************************************************************************)
collectAllSegments ==
    /\ ctl.step = "segments" /\ Len(ctl.got) < Segments
    /\ Receive("GetData", <<Len(ctl.got)>>,
          LAMBDA p : IF p[1] = Len(ctl.got) THEN Continue([ctl EXCEPT !.got = Append(@, p)])
                     ELSE Failed(2), Failed)

ScanDone(written) ==
    /\ ctl.step = "segments" /\ Len(ctl.got) = Segments
    /\ IF written THEN Answer("done", 0, ctl.got) ELSE Failed(1)
    /\ UNCHANGED <<wire, dev>>

Next ==
    \/ \E c \in Described \cup {"unknown"} : \E a \in Inputs(c) : Handle(c, a)
    \/ Begin \/ ReadRegister \/ WriteRegister \/ TestEcho \/ Query \/ Cancel \/ ImmediateCommand
    \/ GetData \/ resetQueryState \/ SendTask \/ waitTaskCompleted \/ TaskTimeout
    \/ collectAllSegments \/ \E w \in BOOLEAN : ScanDone(w)
    \/ \E r \in Results : TaskEnds(r)

Spec == Init /\ [][Next]_vars

-----------------------------------------------------------------------------
(* Properties *)

TypeOK ==
    /\ ctl.step \in {"idle", "begin", "open", "send", "poll", "segments"}
    /\ ctl.ctr \in 0..(2^16 - 1)
    /\ Len(ctl.got) <= Segments
    /\ Len(wire) <= MaxLate

(***************************************************************************)
(* What a "done" says is so: registers have the values told, and a task    *)
(* that is reported ended is the one this command started, not one that an *)
(* earlier command left behind; its data are whole and of this scan.       *)
(***************************************************************************)
AnswersAreTrue ==
    LET c == said.cmd
        v == said.val
    IN  said.status = "done" =>
          CASE c \in DOMAIN RegOf -> v = <<RegOf[c], dev.reg[RegOf[c]]>>
            [] c \in {"get_reg", "set_reg"} -> v = <<RawRegister, dev.reg[RawRegister]>>
            [] c \in DOMAIN TaskOf ->
                 /\ dev.task.id = said.id /\ dev.task.res \in {"success", "blank"}
                 /\ c = "move_x" => dev.at = v[1] * 1000
                 /\ c = "scan_field" => v = [i \in 1..Segments |-> <<i - 1, Segments, said.id>>]
            [] OTHER -> TRUE
=============================================================================
