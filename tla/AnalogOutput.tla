---------------------------- MODULE AnalogOutput ----------------------------
(***************************************************************************)
(* driver_pqw_analog_output: an analog output module on a serial line, its *)
(* configuration and its channels (handler.cpp).  Values are in            *)
(* thousandths, so that their encoding is the identity within 16 bits.     *)
(***************************************************************************)
EXTENDS ModbusClients

CONSTANT Channels  \* output channels (18 in the code)

RegOf == [unit_id |-> 0, baud_rate |-> 1, comm_watchdog_ms |-> 3, parity |-> 4, stop_bits |-> 5]
RestoreDefaults == 13
OutputBase == 100
ClearOutputs == 118
Holding == 0..5 \cup {RestoreDefaults, ClearOutputs} \cup OutputBase..(OutputBase + Channels - 1)

BaudRates == <<4800, 9600, 14400, 19200, 38400, 56000, 57600, 115200>>

NoCode == -1

\* What a register holds.
Word == 0..65535

engineeringValueToRaw(v) == IF v \in Word THEN v ELSE NoCode

\* Mutant: the offset of the register is left out.
WatchdogNoOffset(ms) ==
    IF ms = 0 THEN 0 ELSE IF ms < 0 \/ ms % 10 # 0 \/ ms \div 10 > 65535 THEN NoCode ELSE ms \div 10

commWatchdogMsToRaw(ms) ==
    IF ms = 0 THEN 0
    ELSE IF ms < 0 \/ ms % 10 # 0 \/ ms \div 10 + 1 > 65535 THEN NoCode ELSE ms \div 10 + 1

commWatchdogRawToMs(raw) == IF raw = 0 THEN 0 ELSE (raw - 1) * 10

baudValueToCode(v) ==
    IF \A i \in DOMAIN BaudRates : BaudRates[i] # v THEN NoCode
    ELSE (CHOOSE i \in DOMAIN BaudRates : BaudRates[i] = v) - 1

(* parityValueToCode, stopBitsValueToCode: parities and stop bits are numbered
   in the order of their codes. *)
Encode(field, v) ==
    CASE field = "baud_rate" -> baudValueToCode(v)
      [] field = "comm_watchdog_ms" -> commWatchdogMsToRaw(v)
      [] field = "parity" -> IF v \in 0..2 THEN v ELSE NoCode
      [] field = "stop_bits" -> IF v \in 0..1 THEN v ELSE NoCode
      [] OTHER -> IF v \in 1..255 THEN v ELSE NoCode

(* decodeConfigRegisters: <<>> where a code is unknown. *)
decodeConfigRegisters(r) ==
    IF Len(r) < 6 \/ r[2][1] \notin 0..7 \/ r[5][1] \notin 0..2 \/ r[6][1] \notin 0..1 THEN <<>>
    ELSE <<r[1], <<BaudRates[r[2][1] + 1]>>, r[5], r[6], <<commWatchdogRawToMs(r[4][1])>>>>

Module == [coil |-> <<>>, discrete |-> <<>>, input |-> <<>>,
           holding |-> [r \in Holding |-> <<IF r \in {0, 1} THEN 1 ELSE 0>>]]

Init == ClientInit({"analog"}, Module)

Failed(cmd) == Answer(cmd, "error", 2, <<>>, <<>>)

GetConfig ==
    Perform(Read(3, 0, 6),
        LAMBDA p : IF decodeConfigRegisters(p) = <<>> THEN Failed("get_config")
                   ELSE Answer("get_config", "done", 0, decodeConfigRegisters(p),
                               decodeConfigRegisters(Due(3, 0, 6))),
        Failed("get_config"))

(***************************************************************************)
(* set_comm_config: the fields in a fixed order, all of them encoded       *)
(* before the first is written; each is one exchange, and the first that   *)
(* fails ends the command.                                                 *)
(***************************************************************************)
buildCommConfigWrites(config) ==
    LET write(f) == IF f \in DOMAIN config
                    THEN <<[reg |-> RegOf[f], raw |-> Encode(f, config[f])]>> ELSE <<>>
    IN  write("unit_id") \o write("baud_rate") \o write("parity") \o write("stop_bits")
          \o write("comm_watchdog_ms")

SetCommConfig(config) ==
    LET writes == buildCommConfigWrites(config)
    IN  IF writes = <<>> \/ \E i \in DOMAIN writes : writes[i].raw = NoCode
        THEN Refuse("set_comm_config", 3)
        ELSE /\ said' = [said EXCEPT !.id = @ + 1, !.status = "none", !.cmd = "set_comm_config",
                                     !.val = writes, !.due = <<>>, !.todo = writes, !.late = FALSE]
             /\ UNCHANGED <<ctl, wire, dev>>

WriteNext ==
    /\ said.todo # <<>>
    /\ LET w == Head(said.todo)
           Told == [said EXCEPT !.late = @ \/ wire # Quiet]
       IN  Perform(Write(6, w.reg, <<<<w.raw>>>>),
              LAMBDA p : said' = [Told EXCEPT !.todo = Tail(@),
                                              !.status = IF Len(said.todo) = 1 THEN "done" ELSE @],
              said' = [Told EXCEPT !.todo = <<>>, !.status = "error", !.code = 2])

(* restore_defaults and clear_outputs *)
Order(cmd, reg) ==
    Perform(Write(6, reg, <<<<1>>>>), LAMBDA p : Answer(cmd, "done", 0, <<<<1>>>>, Due(6, reg, 1)),
            Failed(cmd))

ReadOutputs(start, n) ==
    IF start + n - 1 > Channels THEN Refuse("read_outputs", 3)
    ELSE Perform(Read(3, OutputBase + start - 1, n),
            LAMBDA p : Answer("read_outputs", "done", 0, p, Due(3, OutputBase + start - 1, n)),
            Failed("read_outputs"))

(* write_output and write_outputs *)
WriteOutputs(cmd, fc, start, values) ==
    LET raw == [i \in DOMAIN values |-> <<engineeringValueToRaw(values[i])>>]
    IN  IF values = <<>> \/ start + Len(values) - 1 > Channels \/ \E i \in DOMAIN raw : raw[i] = <<NoCode>>
        THEN Refuse(cmd, 3)
        ELSE Perform(Write(fc, OutputBase + start - 1, raw),
                LAMBDA p : Answer(cmd, "done", 0, raw, Due(fc, OutputBase + start - 1, Len(raw))),
                Failed(cmd))

Configs == {[comm_watchdog_ms |-> ms] : ms \in {0, 10, 15, 655340, 655350}} \cup
           {[unit_id |-> 2, baud_rate |-> b, parity |-> 2] : b \in {4800, 115200, 1200}} \cup
           {[stop_bits |-> 1, comm_watchdog_ms |-> 20]}

\* buildMeta
ConfigMeta == {"status", "get_config", "set_comm_config", "restore_defaults"}
OutputMeta == {"read_outputs", "write_output", "write_outputs", "clear_outputs"}

Command(c) ==
    \/ c = "status" /\ Answer(c, "done", 0, <<>>, <<>>) /\ UNCHANGED <<ctl, wire, dev>>
    \/ c # "status" /\ ConnectFails(c)
    \/ c = "get_config" /\ GetConfig
    \/ c = "set_comm_config" /\ \E config \in Configs : SetCommConfig(config)
    \/ c = "restore_defaults" /\ Order(c, RestoreDefaults)
    \/ c = "clear_outputs" /\ Order(c, ClearOutputs)
    \/ c = "read_outputs" /\ \E start \in 1..Channels, n \in {1, Channels} : ReadOutputs(start, n)
    \/ c = "write_output" /\ \E ch \in {1, Channels}, v \in {-1, 65535, 65536} : WriteOutputs(c, 6, ch, <<v>>)
    \/ c = "write_outputs" /\ \E vs \in {<<>>, <<1000, 2000>>} : WriteOutputs(c, 16, 1, vs)

Handle ==
    /\ said.todo = <<>> /\ said.id < MaxCommands
    /\ (\E c \in ConfigMeta \cup OutputMeta : Command(c)) \/ Refuse("unknown", 404)

Next == Handle \/ WriteNext \/ Disconnected

Spec == Init /\ [][Next]_vars

-----------------------------------------------------------------------------
(* Properties *)

TypeOK ==
    /\ ctl.kind = "analog"
    /\ \A r \in Holding : dev.holding[r][1] \in Word
    /\ Len(wire) <= MaxLate
    /\ said.status = "done" => said.todo = <<>>

(***************************************************************************)
(* Where no answer was late, what is told is what the module holds, and    *)
(* all fields of a set_comm_config that is done are in their registers.    *)
(* Late or not, every field the host gives reads back as it was given.     *)
(***************************************************************************)
AnswersAreTrue ==
    /\ said.status = "done" /\ ~said.late =>
         IF said.cmd = "set_comm_config"
         THEN \A i \in DOMAIN said.val : dev.holding[said.val[i].reg] = <<said.val[i].raw>>
         ELSE said.val = said.due
    /\ \A c \in Configs : "comm_watchdog_ms" \in DOMAIN c =>
         LET raw == commWatchdogMsToRaw(c.comm_watchdog_ms)
         IN  raw # NoCode => commWatchdogRawToMs(raw) = c.comm_watchdog_ms
=============================================================================
