----------------------------- MODULE LimacoRadar ----------------------------
(***************************************************************************)
(* driver_limaco_1_radar and driver_limaco_5_radar: level radars with one  *)
(* and with five points, over a serial line or RTU frames on TCP           *)
(* (driver_limaco_common).                                                 *)
(***************************************************************************)
EXTENDS ModbusClients

Base1 == 0
Base5 == 2650       \* 0x0A5A
ModeRegister == 3855 \* 0x0F0F

-----------------------------------------------------------------------------
(* The radars, external: points of distance and state, in the layouts "1",
   "legacy" and "v2". *)

Points == {[i \in 1..5 |-> <<100 + i, 0>>], [i \in 1..5 |-> <<20, IF i = 2 THEN 20 ELSE 0>>]}

Legacy(pts) == [i \in 1..15 |-> IF i > 10 THEN <<0>> ELSE <<pts[(i + 1) \div 2][IF i % 2 = 1 THEN 1 ELSE 2]>>]
V2(pts) == [i \in 1..15 |-> CASE i % 3 = 1 -> <<20>> [] i % 3 = 2 -> <<pts[(i + 1) \div 3][1]>>
                              [] OTHER -> <<pts[i \div 3][2]>>]

Radar(regs) ==
    [coil |-> <<>>, discrete |-> <<>>, input |-> <<>>,
     holding |-> [a \in Base1..(Base1 + 4) \cup Base5..(Base5 + 14) \cup {ModeRegister} |->
                    CASE a \in 0..4 -> <<a>> [] a = ModeRegister -> <<0>> [] OTHER -> regs[a - Base5 + 1]]]

Init == \E pts \in Points : \E regs \in {Legacy(pts), V2(pts)} : ClientInit({"rtu", "serial"}, Radar(regs))

-----------------------------------------------------------------------------
(* limaco_decode.cpp *)

\* Mutant: one mark is enough.
isV2LayoutFirst(r) == r[1][1] % 256 = 20

isV2Layout(r) == \A i \in {1, 4, 7, 10, 13} : r[i][1] % 256 = 20

(* <<distance in 0.1 mm, valid>>, or <<>>.  The high register counts 65535. *)
decodeLimaco1Distance(r) ==
    IF Len(r) # 5 THEN <<>>
    ELSE IF r[4][1] < 50 THEN <<<<r[1][1] * 65535 + r[2][1], 1>>>> ELSE <<<<0, 0>>>>

(* The five points, each with its distance and its state, or <<>>. *)
decodeLimaco5Distance(r) ==
    LET offset == IF isV2Layout(r) THEN 1 ELSE 0
        padding == IF isV2Layout(r) THEN 3 ELSE 2
        at(i) == offset + padding * (i - 1) + 1
    IN  IF Len(r) # 15 THEN <<>> ELSE [i \in 1..5 |-> <<r[at(i)][1], r[at(i) + 1][1]>>]

-----------------------------------------------------------------------------
(* LimacoModbusTransport *)

\* parseOptions: a serial transport needs the name of its port.
parseOptions(portName) == ctl.kind = "serial" => portName

Decoded(cmd, p) == IF cmd = "read_distance_1" THEN decodeLimaco1Distance(p) ELSE decodeLimaco5Distance(p)

readHoldingRegisters(cmd, addr, n) ==
    Perform(Read(3, addr, n),
        LAMBDA p : IF Decoded(cmd, p) = <<>> THEN Answer(cmd, "error", 2, <<>>, <<>>)
                   ELSE Answer(cmd, "done", 0, Decoded(cmd, p), Due(3, addr, n)),
        Answer(cmd, "error", 2, <<>>, <<>>))

writeMultipleRegisters(cmd, addr, items) ==
    Perform(Write(16, addr, items),
        LAMBDA p : Answer(cmd, "done", 0, items, Due(16, addr, 1)), Answer(cmd, "error", 2, <<>>, <<>>))

\* buildMeta
Meta1 == {"read_distance_1"}
Meta5 == {"read_distance_5", "set_distance_mode"}

(* Limaco1RadarHandler *)
Handle1 == readHoldingRegisters("read_distance_1", Base1, 5)

(* Limaco5RadarHandler *)
Handle5 == \/ readHoldingRegisters("read_distance_5", Base5, 15)
           \/ writeMultipleRegisters("set_distance_mode", ModeRegister, <<<<1>>>>)

Handle ==
    /\ said.id < MaxCommands
    /\ \/ Answer("status", "done", 0, <<>>, <<>>) /\ UNCHANGED <<ctl, wire, dev>>
       \/ Refuse("unknown", 404)
       \/ \E portName \in BOOLEAN :
            IF ~parseOptions(portName) THEN \E c \in Meta1 \cup Meta5 : Refuse(c, 3)
            ELSE (\E c \in Meta1 \cup Meta5 : ConnectFails(c)) \/ Handle1 \/ Handle5

Next == Handle \/ Disconnected

Spec == Init /\ [][Next]_vars

-----------------------------------------------------------------------------
(* Properties *)

TypeOK ==
    /\ ctl.kind \in {"rtu", "serial"}
    /\ Len(wire) <= MaxLate
    /\ said.id \in 0..MaxCommands

(***************************************************************************)
(* Where no answer was late, five points that are told are the radar's, in *)
(* whichever of the two layouts it sends them, and a mode that is set is   *)
(* in its register.                                                        *)
(***************************************************************************)
AnswersAreTrue ==
    said.status = "done" /\ ~said.late =>
        CASE said.cmd = "read_distance_5" ->
               said.val \in Points /\ said.due \in {Legacy(said.val), V2(said.val)}
          [] said.cmd = "set_distance_mode" -> said.val = said.due
          [] OTHER -> TRUE
=============================================================================
