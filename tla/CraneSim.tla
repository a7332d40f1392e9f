------------------------------ MODULE CraneSim ------------------------------
(***************************************************************************)
(* driver_plc_crane_sim: a simulated crane behind a Modbus TCP server.  A  *)
(* write of a master goes to the server's data area, from there to the     *)
(* device (sim_device.cpp), whose timers end its movements; a refresh      *)
(* timer copies the device to the data area (handler.cpp).  The server     *)
(* itself is in ModbusServer.                                              *)
(***************************************************************************)
EXTENDS Naturals, Sequences

CONSTANTS
    MaxCommands,  \* bound: run commands of the host
    MaxWrites,    \* bound: writes of masters
    AddrEnd       \* addresses (65536 in the code); the data area has all of them

VARIABLES
    ctl,   \* m_running, writes so far
    wire,  \* the data area of the server: holding registers, discrete inputs
    dev,   \* SimPlcCraneDevice
    said   \* the last answer or event to the host

vars == <<ctl, wire, dev, said>>

Moving == {"moving_up", "moving_down", "moving_open", "moving_close"}

Init ==
    /\ ctl = [running |-> FALSE, writes |-> 0, commands |-> 0]
    /\ wire = [hr |-> [a \in 0..(AddrEnd - 1) |-> 0], up |-> FALSE, down |-> FALSE,
               open |-> FALSE, closed |-> FALSE]
    /\ dev = [cylinder |-> "at_top", valve |-> "closed", cylinderTimer |-> FALSE, valveTimer |-> FALSE,
              hr |-> [a \in 0..3 |-> 0]]
    /\ said = [status |-> "none", code |-> 0]

-----------------------------------------------------------------------------
(* SimPlcCraneDevice *)

\* A part goes to state; it is there or on its way already.
Go(part, timer, d, there, moving) ==
    IF d[part] \in {there, moving} THEN d ELSE [d EXCEPT ![part] = moving, ![timer] = TRUE]

Halt(part, timer, d) ==
    [d EXCEPT ![timer] = FALSE, ![part] = IF @ \in Moving THEN "idle" ELSE @]

\* What an accepted value makes of the device.
applyCylinderAction(d, v) ==
    LET x == [d EXCEPT !.hr[0] = v]
    IN  CASE v = 0 -> Halt("cylinder", "cylinderTimer", x)
          [] v = 1 -> Go("cylinder", "cylinderTimer", x, "at_top", "moving_up")
          [] OTHER -> Go("cylinder", "cylinderTimer", x, "at_bottom", "moving_down")

applyValveAction(d, v) ==
    LET x == [d EXCEPT !.hr[1] = v]
    IN  CASE v = 0 -> Halt("valve", "valveTimer", x)
          [] v = 1 -> Go("valve", "valveTimer", x, "open", "moving_open")
          [] OTHER -> Go("valve", "valveTimer", x, "closed", "moving_close")

\* Mutant: a valve that stands still between its ends is taken for open.
stepAutoSequenceIdle(d) ==
    IF d.hr[3] # 1 THEN d
    ELSE IF d.valve \notin {"open", "moving_open", "idle"} THEN applyValveAction(d, 1)
    ELSE applyCylinderAction(d, 2)

(* First the valve, then the cylinder (whose own action does nothing when it
   is at the bottom or on its way, but for the register). *)
stepAutoSequence(d) ==
    IF d.hr[3] # 1 THEN d
    ELSE IF d.valve \notin {"open", "moving_open"} THEN applyValveAction(d, 1)
    ELSE IF d.cylinder \notin {"at_bottom", "moving_down"} THEN applyCylinderAction(d, 2)
    ELSE d

applyModeAction(d, v) == stepAutoSequence([d EXCEPT !.hr[3] = v])

\* writeHoldingRegister refuses values out of range, and manual actions in auto mode.
Refuses(d, a, v) == v > (IF a \in {0, 1} THEN 2 ELSE 1) \/ (a \in {0, 1} /\ d.hr[3] = 1)

writeHoldingRegister(d, a, v) ==
    CASE Refuses(d, a, v) -> d
      [] a = 0 -> applyCylinderAction(d, v)
      [] a = 1 -> applyValveAction(d, v)
      [] a = 2 -> [d EXCEPT !.hr[2] = v]
      [] OTHER -> applyModeAction(d, v)

CylinderTimeout ==
    /\ dev.cylinderTimer
    /\ dev' = [dev EXCEPT !.cylinderTimer = FALSE,
                          !.cylinder = CASE @ = "moving_up" -> "at_top"
                                         [] @ = "moving_down" -> "at_bottom" [] OTHER -> @]
    /\ UNCHANGED <<ctl, wire, said>>

ValveTimeout ==
    /\ dev.valveTimer
    /\ dev' = IF dev.valve = "moving_open"
              THEN stepAutoSequence([dev EXCEPT !.valveTimer = FALSE, !.valve = "open"])
              ELSE [dev EXCEPT !.valveTimer = FALSE, !.valve = IF @ = "moving_close" THEN "closed" ELSE @]
    /\ UNCHANGED <<ctl, wire, said>>

-----------------------------------------------------------------------------
(* SimPlcCraneHandler *)

\* syncDataAreaFromDevice; the upper switch of the cylinder is low when reached.
Synced(area, d) ==
    [hr |-> [a \in DOMAIN area.hr |-> IF a \in 0..3 THEN d.hr[a] ELSE area.hr[a]],
     up |-> d.cylinder # "at_top", down |-> d.cylinder = "at_bottom",
     open |-> d.valve = "open", closed |-> d.valve = "closed"]

handleRun ==
    /\ ctl.commands < MaxCommands
    /\ \/ /\ said' = [status |-> "error", code |-> IF ctl.running THEN 3 ELSE 1]
          /\ ctl' = [ctl EXCEPT !.commands = @ + 1]
          /\ UNCHANGED wire
       \/ /\ ~ctl.running
          /\ said' = [status |-> "started", code |-> 0]
          /\ ctl' = [ctl EXCEPT !.commands = @ + 1, !.running = TRUE]
          /\ wire' = Synced(wire, dev)
    /\ UNCHANGED dev

UnknownCommand ==
    /\ ctl.commands < MaxCommands
    /\ ctl' = [ctl EXCEPT !.commands = @ + 1]
    /\ said' = [status |-> "error", code |-> 404]
    /\ UNCHANGED <<wire, dev>>

RefreshTimeout ==
    /\ ctl.running
    /\ wire' = Synced(wire, dev)
    /\ UNCHANGED <<ctl, dev, said>>

(***************************************************************************)
(* onDataWritten: register after register is offered to the device, up to  *)
(* an end that is counted in 16 bits (so none when the last address is     *)
(* written).                                                               *)
(***************************************************************************)
Offer(x, addr, values, i) ==
    LET a == addr + i - 1
    IN  IF a >= (addr + Len(values)) % AddrEnd THEN x
        ELSE IF a > 3 \/ Refuses(x.d, a, values[i]) THEN [x EXCEPT !.rejected = TRUE]
        ELSE [x EXCEPT !.d = writeHoldingRegister(@, a, values[i])]

onDataWritten(addr, values) ==
    LET offered[k \in 0..Len(values)] ==
            IF k = 0 THEN [d |-> dev, rejected |-> FALSE] ELSE Offer(offered[k - 1], addr, values, k)
    IN  offered[Len(values)]

(* A master writes; what the device refused is put back by the copy at the
   end of onDataWritten. *)
MasterWrites(addr, values) ==
    LET x == onDataWritten(addr, values)
        area == [wire EXCEPT !.hr = [a \in DOMAIN @ |-> IF a \in addr..(addr + Len(values) - 1)
                                        THEN values[a - addr + 1] ELSE @[a]]]
    IN  /\ ctl.running /\ ctl.writes < MaxWrites
        /\ ctl' = [ctl EXCEPT !.writes = @ + 1]
        /\ dev' = x.d
        /\ wire' = Synced(area, x.d)
        /\ said' = [status |-> IF x.rejected THEN "sim_write_rejected" ELSE "data_written", code |-> 0]

Next ==
    \/ handleRun \/ UnknownCommand \/ RefreshTimeout \/ CylinderTimeout \/ ValveTimeout
    \/ \E a \in 0..(AddrEnd - 1), v \in 0..3 : MasterWrites(a, <<v>>)
    \/ \E v, w \in 0..2 : MasterWrites(0, <<v, w>>)

Spec == Init /\ [][Next]_vars

-----------------------------------------------------------------------------
(* Properties *)

TypeOK ==
    /\ dev.cylinder \in {"at_top", "moving_up", "at_bottom", "moving_down", "idle"}
    /\ dev.valve \in {"closed", "moving_open", "open", "moving_close", "idle"}
    /\ \A a \in 0..3 : dev.hr[a] \in 0..2

(***************************************************************************)
(* Masters find in the registers what the device has taken, whatever was   *)
(* refused (the cylinder's in auto mode after the next refresh), and never *)
(* both ends of a movement.  A part that moves has its timer running.  In  *)
(* auto mode the crane is at its goal (open, at the bottom) or a timer     *)
(* brings it nearer.                                                       *)
(***************************************************************************)
AnswersAreTrue ==
    /\ ctl.running => \A a \in 0..3 : wire.hr[a] = dev.hr[a] \/ (a = 0 /\ dev.hr[3] = 1)
    /\ ctl.running => ~(~wire.up /\ wire.down) /\ ~(wire.open /\ wire.closed)
    /\ dev.cylinderTimer <=> dev.cylinder \in Moving
    /\ dev.valveTimer <=> dev.valve \in Moving
    /\ dev.hr[3] = 1 =>
         \/ dev.valve = "moving_open"
         \/ dev.valve = "open" /\ dev.cylinder \in {"moving_down", "at_bottom"}
=============================================================================
