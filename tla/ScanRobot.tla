----------------------------- MODULE ScanRobot ------------------------------
(***************************************************************************)
(* driver_3d_scan_robot: a scanner on a serial line.  Every command opens  *)
(* the port, makes one or more exchanges and closes it (handler.cpp); long *)
(* tasks are started, polled with Query and, for scans, followed by the    *)
(* transfer of the data in segments (radar_session.cpp).                   *)
(*                                                                         *)
(* Frames are checked for their channel and command (protocol_codec.cpp);  *)
(* damaged ones fail the CRC.  Registers hold numbers, the content of a    *)
(* scan is the number of the command that made it.                         *)
(***************************************************************************)
EXTENDS DeviceLine, Integers, FiniteSets

CONSTANTS
    MaxCommands,  \* bound: commands the host gives
    Counters,     \* values of a frame counter (256 in the code)
    Segments,     \* segments of a scan
    Tries         \* attempts per segment (5 in the code)

VARIABLES
    ctl,   \* the command being handled: session, step, what it has got
    wire,  \* frames on the line
    dev,   \* the device: registers, last task, scan data, position
    said   \* the last answer to the host

vars == <<ctl, wire, dev, said>>

-----------------------------------------------------------------------------
(* Commands and their metadata *)

\* Register of each command that reads one (RegId).
RegOf == [get_mode |-> 0, get_state |-> 1, get_switch_x |-> 6, get_switch_y |-> 7,
          get_calib_x |-> 8, get_calib_y |-> 9, get_angles |-> 10, get_version |-> 12]
Written == [set_mode |-> 0, set_addr |-> 13]
SegmentSize == 15
Modes == {10, 20, 30, 40}
McuTemperature == 4
BoardTemperature == 5
Registers == {RegOf[c] : c \in DOMAIN RegOf} \cup {13, SegmentSize, McuTemperature, BoardTemperature}

\* Angles on the wire are hundredths of a degree in 16 bits.
Encode(deg100) == deg100 % 2^16

\* buildMeta: the commands without parameters of their own, and the values
\* the metadata lets through for the others (the ends of each range).
PlainCommands == DOMAIN RegOf \cup
    {"test", "get_addr", "get_temp", "get_distance", "interrupt_test", "scan_progress", "scan_cancel"}
SetCommands == [set_addr |-> {0, 254}, set_mode |-> {10, 15, 40}]
RegisterCommands == [get_reg |-> {0, 13}, set_reg |-> {13}]
TaskCommands == [calib |-> {300}, calib_x |-> {100}, calib_y |-> {200}, move |-> {0, 18600},
                 get_distance_at |-> {0, 18600}]
ScanCommands == [scan_line |-> {0, 18600}, scan_frame |-> {0, 18600}]
DataCommands == [get_data |-> {Segments}, query |-> {100, 200}]

Described == {"status"} \cup PlainCommands \cup DOMAIN SetCommands \cup DOMAIN RegisterCommands
               \cup DOMAIN TaskCommands \cup DOMAIN ScanCommands \cup DOMAIN DataCommands

\* The table of handle(), written a second time in the code.
knownCommands ==
    {"test", "get_addr", "set_addr", "get_mode", "set_mode", "get_temp", "get_state",
     "get_version", "get_angles", "get_switch_x", "get_switch_y", "get_calib_x", "get_calib_y",
     "calib", "calib_x", "calib_y", "move", "get_distance_at", "get_distance", "get_reg",
     "set_reg", "scan_line", "scan_frame", "get_data", "query", "interrupt_test",
     "scan_progress", "scan_cancel"}

Inputs(c) ==
    CASE c \in DOMAIN SetCommands -> SetCommands[c]
      [] c \in DOMAIN RegisterCommands -> RegisterCommands[c]
      [] c \in DOMAIN TaskCommands -> TaskCommands[c]
      [] c \in DOMAIN ScanCommands -> ScanCommands[c]
      [] c \in DOMAIN DataCommands -> DataCommands[c]
      [] OTHER -> {0}

-----------------------------------------------------------------------------
(* The device, external: what a request does to it and what it replies. *)

TaskIds == {"Calibration", "Move", "MoveDist", "ScanLine", "ScanFrame"}
Scans == {"ScanLine", "ScanFrame"}
NoTask == [ctr |-> 0, cmd |-> "none", state |-> "ok", id |-> 0]

Result(t) ==
    CASE t.state = "running" -> 0
      [] t.state = "failed" -> 20
      [] OTHER -> IF t.cmd \in Scans THEN Segments ELSE 10

\* A request is [ch, ctr, cmd, p], p its payload.
Payload(d, q) ==
    CASE q.cmd = "RegRead" -> <<q.p[1], d.reg[q.p[1]]>>
      [] q.cmd = "Query" -> <<d.task.ctr, d.task.cmd, Result(d.task)>>
      [] q.cmd = "GetData" -> <<q.p[1], d.data>>
      [] q.cmd = "TestCom" -> <<-q.p[1] - 1>>
      [] OTHER -> q.p

Served(d, q) ==
    CASE q.cmd = "RegWrite" -> [d EXCEPT !.reg[q.p[1]] = q.p[2]]
      [] q.cmd \in TaskIds ->
           [d EXCEPT !.task = [ctr |-> q.ctr, cmd |-> q.cmd, state |-> "running", id |-> said.id],
                     !.at = q.p[1]]
      [] OTHER -> d

(* A running task ends; a scan that succeeds replaces the data. *)
TaskEnds(ok) ==
    /\ dev.task.state = "running"
    /\ dev' = [dev EXCEPT !.task.state = IF ok THEN "ok" ELSE "failed",
                          !.data = IF ok /\ dev.task.cmd \in Scans THEN dev.task.id ELSE @]
    /\ UNCHANGED <<ctl, wire, said>>

-----------------------------------------------------------------------------
(* RadarSession *)

Idle == [cmd |-> "none", arg |-> 0, step |-> "idle", ctr |-> 0, exp |-> 0, seg |-> 0, try |-> 0,
         got |-> <<>>]

Init ==
    /\ ctl = Idle
    /\ wire = Quiet
    /\ dev = [reg |-> [r \in Registers |-> 1000 + r], task |-> NoTask, data |-> 0, at |-> 0]
    /\ said = [id |-> 0, status |-> "none", code |-> 0, cmd |-> "none", val |-> <<>>]

Answer(status, code, val) ==
    /\ said' = [said EXCEPT !.status = status, !.code = code, !.cmd = ctl.cmd, !.val = val]
    /\ ctl' = Idle

(* tryDecodeFrame: a frame of the channel and command asked for; the counter
   is not looked at. *)
Accepts(q, got) == "p" \in DOMAIN got /\ got.frame = q.ch /\ got.cmd = q.cmd

(***************************************************************************)
(* sendAndReceive: every way it can go.  The request may be lost, the      *)
(* reply may be late, lost or damaged.                                     *)
(***************************************************************************)
sendAndReceive(ch, cmd, p) ==
    LET q == [ch |-> ch, ctr |-> ctl.ctr, cmd |-> cmd, p |-> p]
        reply == [frame |-> ch, ctr |-> q.ctr, cmd |-> cmd, p |-> Payload(dev, q)]
    IN  UNION {{[d |-> x.d, line |-> o.line, got |-> o.got, ok |-> Accepts(q, o.got)] :
                   o \in Exchange(wire, x.r)} :
               x \in {[d |-> dev, r |-> <<>>], [d |-> Served(dev, q), r |-> <<reply>>]}}

\* One of these ways; the handler goes on with Ok(payload, counter) or Fail(error).
Receive(ch, cmd, p, Ok(_, _), Fail(_)) ==
    \E r \in sendAndReceive(ch, cmd, p) :
        /\ dev' = r.d
        /\ wire' = r.line
        /\ IF r.ok THEN Ok(r.got.p, r.got.ctr) ELSE Fail(IF r.got = NoFrame THEN 1 ELSE 2)

nextCounter == (ctl.ctr + 1) % Counters

Goto(step) == ctl' = [ctl EXCEPT !.step = step, !.ctr = nextCounter]

Failed(kind) == Answer("error", kind, <<>>)

-----------------------------------------------------------------------------
(* ThreeDScanRobotHandler *)

(***************************************************************************)
(* handle, up to the opened session.  DriverCore has refused parameters    *)
(* the metadata does not allow.                                            *)
(***************************************************************************)
Handle(c, arg) ==
    /\ ctl.step = "idle" /\ said.id < MaxCommands
    /\ said' = [id |-> said.id + 1, status |-> "none", code |-> 0, cmd |-> c, val |-> <<arg>>]
    /\ ctl' = [Idle EXCEPT !.cmd = c, !.arg = arg, !.step = "begin"]
    /\ UNCHANGED <<wire, dev>>

Begin ==
    /\ ctl.step = "begin"
    /\ \/ ctl.cmd = "status" /\ Answer("done", 0, <<"ready">>) /\ UNCHANGED wire
       \/ ctl.cmd \notin knownCommands \cup {"status"} /\ Answer("error", 404, <<>>) /\ UNCHANGED wire
       \/ /\ ctl.cmd \in knownCommands
          /\ \/ Answer("error", 1, <<>>) /\ UNCHANGED wire
             \/ /\ ctl' = [ctl EXCEPT !.step = "open"]
                /\ wire' = OnOpen(wire)
                /\ UNCHANGED said
    /\ UNCHANGED dev

(* get_mode, get_state, get_switch_*, get_calib_*, get_angles: the register
   in the answer is not compared with the one asked for. *)
ReadRegister ==
    /\ ctl.step = "open" /\ ctl.cmd \in DOMAIN RegOf \ {"get_version"}
    /\ Receive("main", "RegRead", <<RegOf[ctl.cmd], 100>>,
          LAMBDA p, n : Answer("done", 0, p), Failed)

(* handleRegRead: get_version and get_reg do compare it. *)
handleRegRead ==
    /\ ctl.step = "open" /\ ctl.cmd \in {"get_version", "get_reg"}
    /\ LET r == IF ctl.cmd = "get_reg" THEN ctl.arg ELSE RegOf.get_version
       IN  Receive("main", "RegRead", <<r, 100>>,
              LAMBDA p, n : IF p[1] = r THEN Answer("done", 0, p) ELSE Failed(2), Failed)

(* set_mode, set_addr and set_reg. *)
WriteRegister ==
    /\ ctl.step = "open" /\ ctl.cmd \in {"set_mode", "set_addr", "set_reg"}
    /\ ctl.cmd = "set_mode" => ctl.arg \in Modes
    /\ LET r == IF ctl.cmd = "set_reg" THEN ctl.arg ELSE Written[ctl.cmd]
           v == IF ctl.cmd = "set_reg" THEN 1 ELSE ctl.arg
       IN  Receive("main", "RegWrite", <<r, v>>,
              LAMBDA p, n : Answer("done", 0, <<r, p[2]>>), Failed)

(* set_mode with a mode_code in the range of the metadata that is no mode. *)
InvalidMode ==
    /\ ctl.step = "open" /\ ctl.cmd = "set_mode" /\ ctl.arg \notin Modes
    /\ Failed(2)
    /\ UNCHANGED <<wire, dev>>

(* get_temp: two registers, one after the other. *)
GetTemp ==
    /\ ctl.cmd = "get_temp"
    /\ \/ /\ ctl.step = "open"
          /\ Receive("main", "RegRead", <<McuTemperature, 100>>,
                LAMBDA p, n : /\ UNCHANGED said
                              /\ ctl' = [ctl EXCEPT !.step = "board", !.got = p, !.ctr = nextCounter],
                Failed)
       \/ /\ ctl.step = "board"
          /\ Receive("main", "RegRead", <<BoardTemperature, 100>>,
                LAMBDA p, n : Answer("done", 0, ctl.got \o p), Failed)

(* test, get_distance, query and the interrupting commands: one exchange. *)
Single ==
    LET cmd == [test |-> "TestCom", get_distance |-> "GetDistance", query |-> "Query",
                interrupt_test |-> "Test", scan_progress |-> "ScanProgress",
                scan_cancel |-> "ScanCancel"]
        ch == IF ctl.cmd \in {"interrupt_test", "scan_progress", "scan_cancel"}
              THEN "insert" ELSE "main"
    IN  /\ ctl.step = "open" /\ ctl.cmd \in DOMAIN cmd
        /\ Receive(ch, cmd[ctl.cmd], <<ctl.arg>>, LAMBDA p, n : Answer("done", 0, p), Failed)

(* get_addr: to the broadcast address; one read, whose echo is compared. *)
GetAddr ==
    /\ ctl.step = "open" /\ ctl.cmd = "get_addr"
    /\ Receive("main", "TestCom", <<ctl.arg>>,
          LAMBDA p, n : IF p[1] = -ctl.arg - 1 THEN Answer("done", 0, <<dev.reg[13]>>)
                                                ELSE Failed(2), Failed)

TaskOf == [calib |-> "Calibration", calib_x |-> "Calibration", calib_y |-> "Calibration",
           move |-> "Move", get_distance_at |-> "MoveDist", scan_line |-> "ScanLine",
           scan_frame |-> "ScanFrame"]

(* execLongTaskWithResult and the scans: the task is started. *)
StartTask ==
    /\ ctl.step = "open" /\ ctl.cmd \in DOMAIN TaskOf
    /\ Receive("main", TaskOf[ctl.cmd], <<Encode(ctl.arg)>>,
          LAMBDA p, n : /\ ctl' = [ctl EXCEPT !.step = "poll", !.exp = n, !.ctr = nextCounter]
                        /\ UNCHANGED said,
          Failed)

(* The result is of the task that was started, not of an earlier one. *)
Polled(p) == p[1] = ctl.exp /\ p[2] = TaskOf[ctl.cmd]

(* The end of a task: calib, move, get_distance_at, scan_line, scan_frame. *)
TaskDone(r) ==
    CASE ctl.cmd \in {"calib", "calib_x", "calib_y", "move"} ->
           IF r = 10 THEN Answer("done", 0, <<ctl.arg>>) ELSE Failed(2)
      [] ctl.cmd = "get_distance_at" -> Answer("done", 0, <<ctl.arg, r>>)
      [] ctl.cmd = "scan_line" /\ r \in {0, 20} -> Failed(2)
      [] OTHER -> Goto("size") /\ UNCHANGED said

(***************************************************************************)
(* waitTaskCompleted: Query until the task has a result; an exchange that  *)
(* fails and a result of another task are ignored.                         *)
(***************************************************************************)
Poll ==
    /\ ctl.step = "poll"
    /\ Receive("main", "Query", <<100>>,
          LAMBDA p, n : IF Polled(p) /\ p[3] # 0 THEN TaskDone(p[3])
                                                  ELSE Goto("poll") /\ UNCHANGED said,
          LAMBDA k : Goto("poll") /\ UNCHANGED said)

PollTimeout ==
    /\ ctl.step = "poll"
    /\ Failed(2)
    /\ UNCHANGED <<wire, dev>>

GetData ==
    /\ ctl.step = "open" /\ ctl.cmd = "get_data"
    /\ ctl' = [ctl EXCEPT !.step = "size"]
    /\ UNCHANGED <<wire, dev, said>>

(* collectScanData: readSegmentSize, not retried. *)
readSegmentSize ==
    /\ ctl.step = "size"
    /\ Receive("main", "RegRead", <<SegmentSize, 100>>,
          LAMBDA p, n : IF p[1] = SegmentSize THEN Goto("segment") /\ UNCHANGED said ELSE Failed(2),
          LAMBDA k : Failed(2))

\* Mutant: the index of a segment is not compared.
SegmentOfAny(p) == TRUE

SegmentOf(p) == p[1] = ctl.seg

(* collectScanData: the segments in order, each attempted Tries times. *)
collectScanData ==
    LET Again == IF ctl.try + 1 < Tries
                 THEN /\ ctl' = [ctl EXCEPT !.try = @ + 1, !.ctr = nextCounter]
                      /\ UNCHANGED said
                 ELSE Failed(2)
    IN  /\ ctl.step = "segment" /\ ctl.seg < Segments
        /\ Receive("main", "GetData", <<ctl.seg>>,
              LAMBDA p, n : IF SegmentOf(p)
                 THEN /\ ctl' = [ctl EXCEPT !.seg = @ + 1, !.try = 0, !.ctr = nextCounter,
                                            !.got = Append(@, p)]
                      /\ UNCHANGED said
                 ELSE Again,
              LAMBDA k : Again)

ScanDone ==
    /\ ctl.step = "segment" /\ ctl.seg = Segments
    /\ Answer("done", 0, ctl.got)
    /\ UNCHANGED <<wire, dev>>

Next ==
    \/ \E c \in Described \cup {"unknown"} : \E a \in Inputs(c) : Handle(c, a)
    \/ Begin \/ ReadRegister \/ handleRegRead \/ WriteRegister \/ InvalidMode \/ GetTemp \/ Single \/ GetAddr
    \/ StartTask \/ Poll \/ PollTimeout \/ GetData \/ readSegmentSize \/ collectScanData \/ ScanDone
    \/ \E ok \in BOOLEAN : TaskEnds(ok)

Spec == Init /\ [][Next]_vars

-----------------------------------------------------------------------------
(* Properties *)

TypeOK ==
    /\ ctl.step \in {"idle", "begin", "open", "board", "poll", "size", "segment"}
    /\ ctl.seg \in 0..Segments /\ ctl.try \in 0..(Tries - 1)
    /\ ctl.ctr \in 0..(Counters - 1)
    /\ Len(wire) <= MaxLate
    /\ dev.at \in 0..(2^16 - 1)

(***************************************************************************)
(* What a "done" says is so: the register that was asked for has the value *)
(* told, the head is where it was sent, and the segments of a scan are all *)
(* there, in order and of this scan, whatever was late, lost or retried.   *)
(* (scan_frame does not know the result code of a failed task.)            *)
(***************************************************************************)
AnswersAreTrue ==
    LET c == said.cmd
        v == said.val
    IN  said.status = "done" =>
          CASE c \in DOMAIN RegOf -> v = <<RegOf[c], dev.reg[RegOf[c]]>>
            [] c \in {"get_reg", "set_reg", "set_mode", "set_addr"} -> v[2] = dev.reg[v[1]]
            [] c = "get_temp" -> v = <<McuTemperature, dev.reg[McuTemperature],
                                       BoardTemperature, dev.reg[BoardTemperature]>>
            [] c = "move" -> dev.at = v[1] /\ dev.task = [ctr |-> 0, cmd |-> "Move", state |-> "ok",
                                                          id |-> said.id]
            [] c = "get_distance_at" -> dev.at = v[1] /\ dev.task.id = said.id
            [] c \in {"scan_line", "scan_frame"} ->
                 /\ dev.task.id = said.id
                 /\ v = [i \in 1..Segments |-> <<i - 1, dev.data>>]
                 /\ dev.task.state = "ok" => dev.data = said.id
                 /\ c = "scan_line" => dev.task.state = "ok"
            [] c = "get_data" -> [i \in DOMAIN v |-> v[i][1]] = [i \in 1..Segments |-> i - 1]
            [] OTHER -> TRUE
=============================================================================
