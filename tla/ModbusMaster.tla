---------------------------- MODULE ModbusMaster ----------------------------
(***************************************************************************)
(* driver_modbustcp, driver_modbusrtu and driver_modbusrtu_serial: the     *)
(* commands of the three Modbus masters (main.cpp, handler.cpp).  ctl.kind *)
(* says which driver it is.                                                *)
(***************************************************************************)
EXTENDS ModbusClients

CONSTANT AddrSpace  \* addresses of each area of the slave (65536 in the code)

\* buildMeta of the three drivers, each written out in its own file.
tcpMeta == {"status", "read_coils", "read_discrete_inputs", "write_coil", "write_coils",
            "read_holding_registers", "write_holding_register", "write_holding_registers",
            "write_holding_registers_raw", "read_input_registers"}
rtuMeta == tcpMeta
serialMeta == tcpMeta
Described == [tcp |-> tcpMeta, rtu |-> rtuMeta, serial |-> serialMeta][ctl.kind]

\* Function code of each command that has one only.
FunctionOf == [read_coils |-> 1, read_discrete_inputs |-> 2, read_holding_registers |-> 3,
               read_input_registers |-> 4, write_coil |-> 5, write_holding_register |-> 6,
               write_coils |-> 15, write_holding_registers_raw |-> 16]

\* A type with a byte order, and the ends of the address range.
Typed == ({"uint16"} \X {"big_endian"}) \cup ({"float32", "int64"} \X Orders)
Addresses == {0, AddrSpace - 1}
Value == [uint16 |-> <<7, 8>>, float32 |-> <<1, 2, 3, 4>>, int64 |-> <<1, 2, 3, 4, 5, 6, 7, 8>>]

Slaves == [coil |-> [a \in 0..(AddrSpace - 1) |-> <<a % 2>>],
           discrete |-> [a \in 0..(AddrSpace - 1) |-> <<(a + 1) % 2>>],
           holding |-> [a \in 0..(AddrSpace - 1) |-> <<0, 10 + a>>],
           input |-> [a \in 0..(AddrSpace - 1) |-> <<1, 20 + a>>]]

Init == ClientInit({"tcp", "rtu", "serial"}, Slaves)

(* read_coils and read_discrete_inputs *)
ReadBits(cmd, fc, addr, n) ==
    Perform(Read(fc, addr, n),
        LAMBDA p : Answer(cmd, "done", 0, p, Due(fc, addr, n)),
        Answer(cmd, "error", 2, <<>>, <<>>))

(* read_holding_registers and read_input_registers *)
ReadRegisters(cmd, fc, addr, n, t) ==
    Perform(Read(fc, addr, n),
        LAMBDA p : Answer(cmd, "done", 0, registersToJson(t[1], t[2], p),
                          registersToJson(t[1], t[2], Due(fc, addr, n))),
        Answer(cmd, "error", 2, <<>>, <<>>))

(* The serial driver wants a whole number of values. *)
SerialReadRegisters(cmd, fc, addr, n, t) ==
    IF n % registersPerType[t[1]] # 0 THEN Refuse(cmd, 3) ELSE ReadRegisters(cmd, fc, addr, n, t)

(* write_coil and write_holding_register, write_coils and
   write_holding_registers_raw *)
WriteItems(cmd, fc, addr, items) ==
    Perform(Write(fc, addr, items),
        LAMBDA p : Answer(cmd, "done", 0, items, Due(fc, addr, Len(items))),
        Answer(cmd, "error", 2, <<>>, <<>>))

(* write_holding_registers: a value in the registers of its type.  What is
   due is the value the same type and order read back. *)
WriteValue(addr, t) ==
    LET regs == FromValue(t[1], t[2], Value[t[1]])
    IN  Perform(Write(16, addr, regs),
            LAMBDA p : Answer("write_holding_registers", "done", 0, <<Value[t[1]]>>,
                              registersToJson(t[1], t[2], Due(16, addr, Len(regs)))),
            Answer("write_holding_registers", "error", 2, <<>>, <<>>))

Items == [write_coil |-> <<<<1>>>>, write_coils |-> <<<<1>>, <<1>>>>,
          write_holding_register |-> <<<<9, 9>>>>,
          write_holding_registers_raw |-> <<<<3, 4>>, <<5, 6>>>>]

Command(c) ==
    \/ c = "status" /\ Answer(c, "done", 0, <<>>, <<>>) /\ UNCHANGED <<ctl, wire, dev>>
    \/ c # "status" /\ ConnectFails(c)
    \/ /\ c \in {"read_coils", "read_discrete_inputs"}
       /\ \E addr \in Addresses : ReadBits(c, FunctionOf[c], addr, 1)
    \/ c \in DOMAIN Items /\ \E addr \in Addresses : WriteItems(c, FunctionOf[c], addr, Items[c])
    \/ c = "write_holding_registers" /\ \E t \in Typed : WriteValue(0, t)
    \/ /\ c \in {"read_holding_registers", "read_input_registers"}
       /\ \E t \in Typed, n \in {1, 4} :
            IF ctl.kind = "serial" THEN SerialReadRegisters(c, FunctionOf[c], 0, n, t)
            ELSE ReadRegisters(c, FunctionOf[c], 0, n, t)

Handle ==
    /\ said.id < MaxCommands
    /\ (\E c \in Described : Command(c)) \/ Refuse("unknown", 404)

Next == Handle \/ Disconnected

Spec == Init /\ [][Next]_vars

-----------------------------------------------------------------------------
(* Properties *)

TypeOK ==
    /\ ctl.tx \in 0..(TxIds - 1)
    /\ Len(wire) <= MaxLate
    /\ said.id \in 0..MaxCommands

(***************************************************************************)
(* Reference layout, the one the comments on ByteOrder give                *)
(* (modbus_types.h:45-48: AB CD, CD AB, BA DC, DC BA): the registers of a  *)
(* value in their order, least significant first for the little-endian     *)
(* orders, each turned around for the byte swapped ones.  The drivers'     *)
(* descriptions of byte_order (driver_modbustcp/main.cpp:371 and others)   *)
(* agree with it for the two big-endian orders and give the two            *)
(* little-endian ones the other way round: "little_endian(DC BA)",         *)
(* "little_endian_byte_swap(CD AB)".  The code does what the header says.  *)
(***************************************************************************)
Layout(order, v) ==
    LET n == Len(v) \div 2
        reg(i) == <<v[2 * i - 1], v[2 * i]>>
        at(i) == reg(IF order \in {"little_endian", "little_endian_byte_swap"} THEN n + 1 - i ELSE i)
    IN  [i \in 1..n |-> IF order \in {"big_endian_byte_swap", "little_endian_byte_swap"}
                        THEN <<at(i)[2], at(i)[1]>> ELSE at(i)]

(***************************************************************************)
(* A "done" tells what the slave holds, and a write that is done reads     *)
(* back as the value that was given, with the registers in the layout of   *)
(* their byte order.  Over TCP this holds whatever answers were late; the  *)
(* RTU clients cannot tell a late answer of the same kind from theirs.     *)
(***************************************************************************)
AnswersAreTrue ==
    /\ said.status = "done" /\ (ctl.kind \in {"rtu", "serial"} => ~said.late) => said.val = said.due
    /\ \A t \in Typed : t[1] # "uint16" => FromValue(t[1], t[2], Value[t[1]]) = Layout(t[2], Value[t[1]])
=============================================================================
