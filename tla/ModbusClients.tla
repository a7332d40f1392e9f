---------------------------- MODULE ModbusClients ---------------------------
(***************************************************************************)
(* The three Modbus clients of the drivers: ModbusClient (TCP, with        *)
(* transaction numbers), ModbusRtuClient (RTU frames over TCP) and         *)
(* ModbusRtuSerialClient (RTU frames on a serial port), and the slave they *)
(* talk to, which is external.                                             *)
(*                                                                         *)
(* Connections are kept from one command to the next, and with them the    *)
(* answers that come too late.  A register is its two bytes, a coil one.   *)
(***************************************************************************)
EXTENDS DeviceLine, ModbusTypes, Integers

CONSTANTS
    MaxCommands,   \* bound: commands the host gives
    TxIds          \* transaction numbers (65536 in the code)

VARIABLES
    ctl,   \* kind of client, its connection, next transaction number
    wire,  \* frames on the connection
    dev,   \* the slave: coil, discrete, holding, input
    said   \* the last answer to the host

vars == <<ctl, wire, dev, said>>

-----------------------------------------------------------------------------
(* The slave, external.  A request is [fc, addr, n, p]: n items are read, or
   the items p are written. *)

Exception(code) == [fc |-> 128, p |-> <<<<code>>>>]

Slave(d, q) ==
    IF ~(q.addr..(q.addr + q.n - 1) \subseteq DOMAIN d[Area(q.fc)]) THEN [d |-> d, re |-> Exception(2)]
    ELSE IF IsRead(q.fc)
    THEN [d |-> d, re |-> [fc |-> q.fc, p |-> [i \in 1..q.n |-> d[Area(q.fc)][q.addr + i - 1]]]]
    ELSE [d |-> [d EXCEPT ![Area(q.fc)] = [a \in DOMAIN @ |-> IF a \in q.addr..(q.addr + q.n - 1)
                                              THEN q.p[a - q.addr + 1] ELSE @[a]]],
          re |-> [fc |-> q.fc, p |-> <<<<q.addr>>, <<q.n>>>>]]

(* Every way a request and the wait for its answer can go on line. *)
Outcomes(line, q, tag) ==
    LET s == Slave(dev, q)
        reply == [frame |-> "reply", tag |-> tag, fc |-> s.re.fc, p |-> s.re.p]
    IN  UNION {{[d |-> x.d, line |-> o.line, got |-> o.got, taken |-> o.taken] :
                   o \in Exchange(line, x.r)} :
               x \in {[d |-> dev, r |-> <<>>], [d |-> s.d, r |-> <<reply>>]}}

IsReply(got) == "p" \in DOMAIN got

\* How a request ends for the client: with the payload of its answer or without.
Way(o, ok) == [d |-> o.d, line |-> o.line, tx |-> ctl.tx, ok |-> ok, p |-> IF ok THEN o.got.p ELSE <<>>]

-----------------------------------------------------------------------------
(* ModbusClient: the answer has the transaction number of the request; what
   comes after it in the same chunk is dropped. *)

\* Mutant: the transaction number is not compared.
tcpAcceptsAny(q, got) == IsReply(got) /\ got.fc = q.fc

tcpAccepts(q, got) == IsReply(got) /\ got.tag = ctl.tx /\ got.fc = q.fc

tcpSendRequest(q) ==
    {[Way(o, tcpAccepts(q, o.got)) EXCEPT !.tx = (ctl.tx + 1) % TxIds] : o \in Outcomes(wire, q, ctl.tx)}

(***************************************************************************)
(* ModbusRtuClient: the CRC is taken over all that was read, so more than  *)
(* one frame is an error; neither the unit nor the function code of the    *)
(* answer is compared.  An answer to another function may fail for its     *)
(* length or be read as if it were the one expected.                       *)
(***************************************************************************)
Misread == {<<>>, <<<<0, 0>>>>}

rtuFails(o) == o.taken # 1 \/ ~IsReply(o.got) \/ o.got.fc = 128

rtuRead(q) ==
    UNION {IF rtuFails(o) THEN {Way(o, FALSE)}
           ELSE IF IsRead(o.got.fc) THEN {Way(o, TRUE)}
           ELSE {Way(o, FALSE)} \cup {[Way(o, TRUE) EXCEPT !.p = v] : v \in Misread} :
           o \in Outcomes(wire, q, 0)}

rtuWrite(q) ==
    UNION {IF rtuFails(o) THEN {Way(o, FALSE)}
           ELSE IF IsRead(o.got.fc) THEN {Way(o, FALSE), [Way(o, TRUE) EXCEPT !.p = <<>>]}
           ELSE {Way(o, TRUE)} :
           o \in Outcomes(wire, q, 0)}

(***************************************************************************)
(* ModbusRtuSerialClient: what has arrived by then is thrown away before   *)
(* the request is sent; unit and function code of the answer are compared, *)
(* its address is not.                                                     *)
(***************************************************************************)
serialParseResponse(q, o) == o.taken = 1 /\ IsReply(o.got) /\ o.got.fc = q.fc

serialSendRequest(q) ==
    {Way(o, serialParseResponse(q, o)) : o \in UNION {Outcomes(l, q, 0) : l \in Drained(wire)}}

-----------------------------------------------------------------------------
(* The reads and writes of the clients. *)

Read(fc, addr, n) == [fc |-> fc, addr |-> addr, n |-> n, p |-> <<>>]
Write(fc, addr, items) == [fc |-> fc, addr |-> addr, n |-> Len(items), p |-> items]

Request(q) ==
    CASE ctl.kind \in {"tcp", "crane"} -> tcpSendRequest(q)
      [] ctl.kind = "rtu" -> IF IsRead(q.fc) THEN rtuRead(q) ELSE rtuWrite(q)
      [] ctl.kind \in {"serial", "analog"} -> serialSendRequest(q)

\* One of the ways of a request; the handler goes on with Ok(payload) or Fail.
Perform(q, Ok(_), Fail) ==
    \E r \in Request(q) :
        /\ dev' = r.d
        /\ wire' = r.line
        /\ ctl' = [ctl EXCEPT !.conn = TRUE, !.tx = r.tx]
        /\ IF r.ok THEN Ok(r.p) ELSE Fail

(* The connection is lost: a new one finds no old frames. *)
Disconnected ==
    /\ ctl.conn
    /\ ctl' = [ctl EXCEPT !.conn = FALSE, !.tx = 0]
    /\ wire' = Quiet
    /\ UNCHANGED <<dev, said>>

ClientInit(kinds, slave) ==
    /\ ctl \in [kind : kinds, conn : {FALSE}, tx : {0}]
    /\ wire = Quiet
    /\ dev = slave
    /\ said = [id |-> 0, status |-> "none", code |-> 0, cmd |-> "none", val |-> <<>>,
               due |-> <<>>, late |-> FALSE, todo |-> <<>>]

(***************************************************************************)
(* An answer: its values, the values that are due (what the slave holds in *)
(* the state the command leaves), whether an earlier answer was on its way *)
(* when the request was sent, and the writes the command has yet to make.  *)
(***************************************************************************)
Answer(cmd, status, code, val, due) ==
    said' = [id |-> said.id + 1, status |-> status, code |-> code, cmd |-> cmd, val |-> val,
             due |-> due, late |-> wire # Quiet, todo |-> <<>>]

(* The memory the command leaves, as the answer should show it. *)
Due(fc, addr, n) ==
    [i \in 1..n |-> IF addr + i - 1 \in DOMAIN dev[Area(fc)] THEN dev'[Area(fc)][addr + i - 1] ELSE <<>>]

Refuse(cmd, code) == Answer(cmd, "error", code, <<>>, <<>>) /\ UNCHANGED <<ctl, wire, dev>>

(* getClient: a cached connection, or a new one that may not be made. *)
getClient(cmd) == ctl.kind \in {"tcp", "rtu", "crane"} /\ ~ctl.conn /\ Refuse(cmd, 1)

(* getConnection: a port that is open with other parameters is refused, too. *)
getConnection(cmd) == ctl.kind \in {"serial", "analog"} /\ Refuse(cmd, 1)

ConnectFails(cmd) == getClient(cmd) \/ getConnection(cmd)
=============================================================================
