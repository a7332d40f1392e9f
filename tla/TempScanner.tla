----------------------------- MODULE TempScanner ----------------------------
(***************************************************************************)
(* driver_3d_temp_scanner: a thermal camera that speaks a subset of Modbus *)
(* RTU on a serial line.  capture writes 100 to the control register,      *)
(* polls it until it is 10 or 20, reads the pixels and saves them          *)
(* (handler.cpp, thermal_session.cpp).                                     *)
(*                                                                         *)
(* The driver checks its parameters itself (autoValidateParams is false).  *)
(***************************************************************************)
EXTENDS DeviceLine, Integers

CONSTANT MaxCommands  \* bound: commands the host gives

VARIABLES ctl, wire, dev, said

vars == <<ctl, wire, dev, said>>

-----------------------------------------------------------------------------
(* Parameters *)

Described == {"status", "capture"}
knownCommands == {"capture"}

Formats == {"png", "json", "csv", "raw"}

\* A device_addr, a format and a path: "" where the host gives none, a suffix
\* for the path.
Params == [addr : {0, 1, 257}, format : {"", "csv", "bmp"}, output : {"", "dat", "txt"}]

\* The address is cut to 8 bits before its range is checked.
DeviceAddr(p) == p.addr % 2^8

resolveSerialParams(p) == DeviceAddr(p) \in 1..254

inferFormatFromPath(suffix) ==
    CASE suffix \in {"json", "csv"} -> suffix
      [] suffix \in {"raw", "bin", "dat"} -> "raw"
      [] OTHER -> "png"

resolveOutputFormat(p) ==
    IF p.format # "" THEN p.format ELSE inferFormatFromPath(p.output)

-----------------------------------------------------------------------------
(* The camera, external: its control register, its image and the address it
   answers to. *)

Start == 100
Success == 10
Failure == 20

CaptureEnds(ok) ==
    /\ dev.ctrl = Start
    /\ dev' = [dev EXCEPT !.ctrl = IF ok THEN Success ELSE Failure,
                          !.image = IF ok THEN dev.run ELSE @]
    /\ UNCHANGED <<ctl, wire, said>>

Served(d, q) == IF q.fc = 6 THEN [d EXCEPT !.ctrl = q.p[2], !.run = said.id] ELSE d

Payload(d, q) ==
    CASE q.fc = 6 -> q.p
      [] q.p[1] = "control" -> <<d.ctrl>>
      [] OTHER -> <<d.image>>

-----------------------------------------------------------------------------
(* ThermalSession *)

NoParams == [addr |-> 1, format |-> "", output |-> ""]
Idle == [cmd |-> "none", step |-> "idle", arg |-> NoParams, image |-> -1]

Init ==
    /\ ctl = Idle
    /\ wire = Quiet
    /\ dev = [ctrl |-> Success, run |-> 0, image |-> 0, file |-> "none"]
    /\ said = [id |-> 0, status |-> "none", code |-> 0, cmd |-> "none", image |-> -1, format |-> ""]

Answer(status, code, image, format) ==
    /\ said' = [said EXCEPT !.status = status, !.code = code, !.image = image, !.format = format]
    /\ ctl' = Idle

Failed(code) == Answer("error", code, -1, "")

Goto(step) == ctl' = [ctl EXCEPT !.step = step] /\ UNCHANGED said

(* parseCommonHeader and the two parsers: address, function code, CRC, length. *)
Parsed(q, got) == "p" \in DOMAIN got /\ got.fc = q.fc /\ got.n = q.n

(* Every way transact can go.  What has arrived is thrown away before the
   request is written.  The device serves it or answers with an exception. *)
transact(q) ==
    LET reply == [frame |-> "reply", fc |-> q.fc, n |-> q.n, p |-> Payload(dev, q)]
        exception == [frame |-> "exception"]
        ways(l, x) == {[d |-> x.d, line |-> o.line, got |-> o.got, ok |-> Parsed(q, o.got)] :
                          o \in Exchange(l, x.r)}
    IN  UNION {ways(l, x) : l \in Drained(wire),
               x \in {[d |-> dev, r |-> <<>>], [d |-> dev, r |-> <<exception>>],
                      [d |-> Served(dev, q), r |-> <<reply>>]}}

\* The echo of a write must be the request.
writeSingleRegister(p) ==
    {[r EXCEPT !.ok = @ /\ r.got.p = p] : r \in transact([fc |-> 6, n |-> 1, p |-> p])}

readRegisters(start, n) == transact([fc |-> 3, n |-> n, p |-> <<start>>])

\* One of ways; the capture goes on with Ok(payload) or fails.
After(ways, Ok(_)) ==
    \E r \in ways :
        /\ dev' = r.d
        /\ wire' = r.line
        /\ IF r.ok THEN Ok(r.got.p) ELSE Failed(2)

-----------------------------------------------------------------------------
(* ThreeDTempScannerHandler *)

Handle(c, p) ==
    /\ ctl.step = "idle" /\ said.id < MaxCommands
    /\ said' = [id |-> said.id + 1, status |-> "none", code |-> 0, cmd |-> c, image |-> -1, format |-> ""]
    /\ ctl' = [Idle EXCEPT !.cmd = c, !.arg = p, !.step = "begin"]
    /\ dev' = [dev EXCEPT !.file = "none"]
    /\ UNCHANGED wire

(* The port is opened before the format is looked at. *)
Begin ==
    /\ ctl.step = "begin"
    /\ \/ ctl.cmd = "status" /\ Answer("done", 0, -1, "") /\ UNCHANGED wire
       \/ ctl.cmd \notin knownCommands \cup {"status"} /\ Failed(404) /\ UNCHANGED wire
       \/ /\ ctl.cmd \in knownCommands
          /\ IF ~resolveSerialParams(ctl.arg) THEN Failed(3) /\ UNCHANGED wire
             ELSE \/ Failed(1) /\ UNCHANGED wire
                  \/ /\ wire' = OnOpen(wire)
                     /\ IF resolveOutputFormat(ctl.arg) \in Formats THEN Goto("start") ELSE Failed(3)
    /\ UNCHANGED dev

StartCapture ==
    /\ ctl.step = "start"
    /\ After(writeSingleRegister(<<"control", Start>>), LAMBDA p : Goto("poll"))

\* Mutant: any value but the failure ends the poll.
StateNotFailure(s) == IF s = Failure THEN "failed" ELSE "done"

State(s) == CASE s = Success -> "done" [] s = Failure -> "failed" [] OTHER -> "busy"

(* The loop of capture: a poll that fails ends the command. *)
PollCapture ==
    /\ ctl.step = "poll"
    /\ After(readRegisters("control", 1),
          LAMBDA p : CASE State(p[1]) = "done" -> Goto("pixels")
                       [] State(p[1]) = "failed" -> Failed(2)
                       [] OTHER -> UNCHANGED <<ctl, said>>)

CaptureTimeout ==
    /\ ctl.step = "poll"
    /\ Failed(2)
    /\ UNCHANGED <<wire, dev>>

ReadPixels ==
    /\ ctl.step = "pixels"
    /\ After(readRegisters("pixels", 768),
          LAMBDA p : ctl' = [ctl EXCEPT !.step = "save", !.image = p[1]] /\ UNCHANGED said)

(***************************************************************************)
(* saveCaptureOutput: the directory may not be made or the file not be     *)
(* opened; png reports a failed save, the other formats do not look at     *)
(* what write returns.                                                     *)
(***************************************************************************)
saveCaptureOutput(outcome) ==
    LET format == resolveOutputFormat(ctl.arg)
    IN  /\ ctl.step = "save"
        /\ IF ctl.arg.output = ""
           THEN outcome = "none" /\ Answer("done", 0, ctl.image, "")
           ELSE /\ outcome = "partial" => format # "png"
                /\ IF outcome = "none" THEN Failed(1) ELSE Answer("done", 0, ctl.image, format)
        /\ dev' = [dev EXCEPT !.file = outcome]
        /\ UNCHANGED wire

Next ==
    \/ \E c \in Described \cup {"unknown"} : \E p \in Params : Handle(c, p)
    \/ Begin \/ StartCapture \/ PollCapture \/ CaptureTimeout \/ ReadPixels
    \/ \E o \in {"none", "partial", "whole"} : saveCaptureOutput(o)
    \/ \E ok \in BOOLEAN : CaptureEnds(ok)

Spec == Init /\ [][Next]_vars

-----------------------------------------------------------------------------
(* Properties *)

TypeOK ==
    /\ ctl.step \in {"idle", "begin", "start", "poll", "pixels", "save"}
    /\ ctl.arg \in Params
    /\ dev.ctrl \in {Start, Success, Failure}
    /\ Len(wire) <= MaxLate

(***************************************************************************)
(* A capture that is done tells the image of this capture, not one that an *)
(* earlier command left in the camera, and a file it names exists (a png   *)
(* whole; see saveCaptureOutput for the others).                           *)
(***************************************************************************)
AnswersAreTrue ==
    said.status = "done" /\ said.cmd = "capture" =>
        /\ said.image = said.id
        /\ said.format # "" => dev.file # "none"
        /\ said.format = "png" => dev.file = "whole"
=============================================================================
