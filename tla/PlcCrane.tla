------------------------------ MODULE PlcCrane ------------------------------
(***************************************************************************)
(* driver_plc_crane: a crane's PLC over Modbus TCP, four limit switches to *)
(* read and four registers to write (handler.cpp).                         *)
(***************************************************************************)
EXTENDS ModbusClients

Discrete == 9..14

\* Register and value of each action.
Register == [cylinder_control |-> 0, valve_control |-> 1, set_run |-> 2, set_mode |-> 3]
ActionValue == [cylinder_control |-> [up |-> 1, down |-> 2, stop |-> 0],
                valve_control |-> [open |-> 1, close |-> 2, stop |-> 0],
                set_run |-> [start |-> 1, stop |-> 0],
                set_mode |-> [auto |-> 1, manual |-> 0]]

\* buildMeta
Described == {"status", "read_status"} \cup DOMAIN ActionValue

\* The switches: the cylinder is never up and down, nor the valve open and closed.
Switches == {s \in [Discrete -> {<<0>>, <<1>>}] :
                /\ ~(s[9] = <<0>> /\ s[10] = <<1>>)
                /\ ~(s[13] = <<1>> /\ s[14] = <<1>>)
                /\ s[11] = <<0>> /\ s[12] = <<0>>}

Crane(s) == [coil |-> <<>>, discrete |-> s, holding |-> [r \in 0..3 |-> <<0>>], input |-> <<>>]

Init == \E s \in Switches : ClientInit({"crane"}, Crane(s))

(* External: the crane moves. *)
Moves ==
    /\ \E s \in Switches : s # dev.discrete /\ dev' = [dev EXCEPT !.discrete = s]
    /\ UNCHANGED <<ctl, wire, said>>

\* Mutant: the cylinder's upper switch, which opens when it is reached, is
\* reported as it is read.
StatusAsRead(p) == <<p[1], p[2], p[5], p[6]>>

\* cylinder_up, cylinder_down, valve_open, valve_closed
Status(p) == <<<<1 - p[1][1]>>, p[2], p[5], p[6]>>

ReadStatus ==
    Perform(Read(2, 9, 6),
        LAMBDA p : Answer("read_status", "done", 0, Status(p), Due(2, 9, 6)),
        Answer("read_status", "error", 2, <<>>, <<>>))

(* cylinder_control, valve_control, set_run and set_mode *)
Control(c, action) ==
    IF action \notin DOMAIN ActionValue[c] THEN Refuse(c, 3)
    ELSE LET v == <<<<ActionValue[c][action]>>>>
         IN  Perform(Write(6, Register[c], v),
                LAMBDA p : Answer(c, "done", 0, v, Due(6, Register[c], 1)),
                Answer(c, "error", 2, <<>>, <<>>))

Handle ==
    /\ said.id < MaxCommands
    /\ \/ Refuse("unknown", 404)
       \/ \E c \in Described :
            \/ c = "status" /\ Answer(c, "done", 0, <<>>, <<>>) /\ UNCHANGED <<ctl, wire, dev>>
            \/ c = "read_status" /\ (ConnectFails(c) \/ ReadStatus)
            \/ /\ c \in DOMAIN ActionValue
               /\ ConnectFails(c) \/ \E a \in DOMAIN ActionValue[c] \cup {"else"} : Control(c, a)

Next == Handle \/ Moves \/ Disconnected

Spec == Init /\ [][Next]_vars

-----------------------------------------------------------------------------
(* Properties *)

TypeOK ==
    /\ ctl.kind = "crane" /\ ctl.tx \in 0..(TxIds - 1)
    /\ dev.discrete \in Switches
    /\ Len(wire) <= MaxLate

(***************************************************************************)
(* A status that is told is that of the switches when the command ended,   *)
(* so never both ends of a movement; a command that is done is in its      *)
(* register.  This holds whatever answers are late.                        *)
(***************************************************************************)
AnswersAreTrue ==
    said.status = "done" =>
        IF said.cmd = "read_status"
        THEN /\ said.val = <<<<1 - said.due[1][1]>>, said.due[2], said.due[5], said.due[6]>>
             /\ ~(said.val[1] = <<1>> /\ said.val[2] = <<1>>)
             /\ ~(said.val[3] = <<1>> /\ said.val[4] = <<1>>)
        ELSE said.val = said.due
=============================================================================
