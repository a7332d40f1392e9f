---------------------------- MODULE ModbusServer ----------------------------
(***************************************************************************)
(* driver_modbustcp_server, driver_modbusrtu_server and                    *)
(* driver_modbusrtu_serial_server: slaves whose data the host keeps with   *)
(* commands and masters read and write over the network or a serial line.  *)
(* ctl.kind says which of the three it is.                                 *)
(*                                                                         *)
(* A request of a master arrives in two pieces, the second of which makes  *)
(* it whole; a read of the socket may return any number of pieces.         *)
(***************************************************************************)
EXTENDS ModbusTypes, Integers, SequencesExt

CONSTANTS
    Masters,       \* connections (one line for the serial server)
    Size,          \* addresses of a unit's areas
    MaxCommands,   \* bound: commands the host gives
    MaxRequests,   \* bound: requests of a connection
    MaxPieces      \* pieces a receive buffer holds (4096 bytes, 256 on a serial line)

VARIABLES
    ctl,   \* kind, running, event mode
    wire,  \* per connection: open, pieces under way, receive buffer, timer, requests, replies
    dev,   \* the units: unit -> area -> address -> value
    said   \* the last answer to the host; the cells that masters changed since the event mode
           \* was set and that it was not told of

vars == <<ctl, wire, dev, said>>

Areas == {"coil", "discrete", "holding", "input"}
Modes == {"write", "all", "read", "none"}
NewUnit == [a \in Areas |-> [i \in 0..(Size - 1) |-> 0]]

Connections == IF ctl.kind = "serial" THEN {CHOOSE m \in Masters : TRUE} ELSE Masters

Closed == [open |-> FALSE, pipe |-> <<>>, buf |-> <<>>, timer |-> FALSE, sent |-> <<>>, out |-> <<>>,
           sync |-> TRUE]
Open == [Closed EXCEPT !.open = TRUE]

Init ==
    /\ ctl \in [kind : {"tcp", "rtu", "serial"}, running : {FALSE}, mode : {"write"}]
    /\ wire = [m \in Masters |-> Closed]
    /\ dev = [u \in {} |-> NewUnit]
    /\ said = [n |-> 0, cmd |-> "none", status |-> "none", code |-> 0, val |-> <<>>, untold |-> {}]

-----------------------------------------------------------------------------
(* A request on the data of a unit. *)

Write(areas, fc, addr, items) ==
    [areas EXCEPT ![Area(fc)] = [i \in DOMAIN @ |-> IF i \in addr..(addr + Len(items) - 1)
                                    THEN items[i - addr + 1] ELSE @[i]]]

InArea(q) == q.n >= 1 /\ q.addr + q.n <= Size

Functions == {1, 2, 3, 4, 5, 6, 15, 16}

Exception(q, code) == [fc |-> q.fc + 128, p |-> <<code>>]

\* The answer to a request of a unit that is there: reads, then writes.
handleRead(units, q) ==
    IF InArea(q) THEN [fc |-> q.fc, p |-> [i \in 1..q.n |-> units[q.unit][Area(q.fc)][q.addr + i - 1]]]
    ELSE Exception(q, 2)

handleWrite(q) == IF InArea(q) THEN [fc |-> q.fc, p |-> <<q.addr, q.n>>] ELSE Exception(q, 2)

Pdu(units, q) ==
    IF q.fc \notin Functions THEN Exception(q, 1)
    ELSE IF IsRead(q.fc) THEN handleRead(units, q) ELSE handleWrite(q)

(* What a request does: the units, the reply (none or one), the cells it
   changed without an event for them. *)
Effect(units, reply, untold) == [units |-> units, reply |-> reply, untold |-> untold]

Frame(q, pdu) == [tag |-> q.tag, unit |-> q.unit, fc |-> pdu.fc, p |-> pdu.p]

Writes(q) == q.fc \in Functions /\ ~IsRead(q.fc) /\ InArea(q)

Stored(units, q) == IF Writes(q) THEN [units EXCEPT ![q.unit] = Write(@, q.fc, q.addr, q.p)] ELSE units

Cells(q) == {<<q.unit, Area(q.fc), i>> : i \in q.addr..(q.addr + q.n - 1)}

\* Mutant: the event is left out in mode "write".
TellsNot(mode) == mode = "all"

\* connectEvents: data_written is an event in these modes.
TellsWrites(mode) == mode \notin {"none", "read"}

Untold(q) == IF Writes(q) /\ ~TellsWrites(ctl.mode) THEN Cells(q) ELSE {}

(***************************************************************************)
(* ModbusTcpServer::processRequest.  An exception of a handler has its     *)
(* header already when buildResponse puts another one before it: the       *)
(* master finds the first byte of the inner header (of the transaction     *)
(* number, zero here) where the function code should be.                   *)
(***************************************************************************)
Wrapped(f) == [f EXCEPT !.fc = 0, !.p = <<f.tag, f.unit, f.fc>> \o f.p]

processRequest(units, q) ==
    IF q.unit \notin DOMAIN units THEN Effect(units, <<Frame(q, Exception(q, 11))>>, {})
    ELSE LET f == Frame(q, Pdu(units, q))
             inner == q.fc \in Functions /\ f.fc # q.fc
         IN  Effect(Stored(units, q), <<IF inner THEN Wrapped(f) ELSE f>>, Untold(q))

(* ModbusRtuServer::processRtuRequest *)
processRtuRequest(units, q) ==
    IF q.unit \notin DOMAIN units THEN Effect(units, <<Frame(q, Exception(q, 11))>>, {})
    ELSE Effect(Stored(units, q), <<Frame(q, Pdu(units, q))>>, Untold(q))

(* ModbusRtuSerialServer: unit 0 writes to every unit without a reply, and
   without an event; other units that are not there are silent. *)
applyBroadcastWrite(units, q) ==
    [u \in DOMAIN units |-> IF InArea(q) THEN Write(units[u], q.fc, q.addr, q.p) ELSE units[u]]

processSerialRequest(units, q) ==
    IF q.unit = 0 /\ q.fc \in Functions /\ ~IsRead(q.fc) THEN Effect(applyBroadcastWrite(units, q), <<>>, {})
    ELSE IF q.unit \notin DOMAIN units THEN Effect(units, <<>>, {})
    ELSE Effect(Stored(units, q), <<Frame(q, Pdu(units, q))>>, Untold(q))

-----------------------------------------------------------------------------
(* The masters, external, and the connections *)

Request(unit, fc, addr, items, n) == [tag |-> 0, unit |-> unit, fc |-> fc, addr |-> addr, n |-> n, p |-> items]

Requests ==
    {Request(1, fc, 0, <<>>, 1) : fc \in {1, 3}} \cup
    {Request(1, 6, 0, <<1>>, 1), Request(1, 15, 0, <<1, 1>>, 2), Request(1, 4, Size, <<>>, 1),
     Request(1, 99, 0, <<>>, 0), Request(2, 3, 0, <<>>, 1), Request(0, 6, 0, <<1>>, 1)}

\* A header with a length of more than 260: only the TCP server looks at it.
Oversized == -1

Pieces(q) == <<[q |-> q, part |-> 1], [q |-> q, part |-> 2]>>

MasterSends(m) ==
    /\ wire[m].open /\ Len(wire[m].sent) < MaxRequests
    /\ \E r \in Requests \cup {x \in {[Request(1, 3, 0, <<>>, 1) EXCEPT !.fc = Oversized]} : ctl.kind = "tcp"} :
          LET q == [r EXCEPT !.tag = Len(wire[m].sent) + 1]
          IN  wire' = [wire EXCEPT ![m].sent = Append(@, q), ![m].pipe = @ \o Pieces(q)]
    /\ UNCHANGED <<ctl, dev, said>>

(* incomingConnection; the serial line is there from the start. *)
incomingConnection(m) ==
    /\ ctl.running /\ ctl.kind # "serial" /\ ~wire[m].open
    /\ wire' = [wire EXCEPT ![m] = Open]
    /\ UNCHANGED <<ctl, dev, said>>

onDisconnected(m) ==
    /\ ctl.kind # "serial" /\ wire[m].open
    /\ wire' = [wire EXCEPT ![m] = Closed]
    /\ UNCHANGED <<ctl, dev, said>>

\* processRequest of the server that runs.
Processed(units, q) ==
    CASE ctl.kind = "tcp" -> processRequest(units, q)
      [] ctl.kind = "rtu" -> processRtuRequest(units, q)
      [] ctl.kind = "serial" -> processSerialRequest(units, q)

\* The request at place i of buf, if one starts there.
ServeAt(e, buf, starts, i) ==
    IF i \notin starts THEN e
    ELSE LET x == Processed(e.units, buf[i].q)
         IN  Effect(x.units, e.reply \o x.reply, e.untold \cup x.untold)

\* The requests of buf in their order; later ones see what earlier ones wrote.
Served(buf, starts) ==
    LET served[k \in 0..Len(buf)] ==
            IF k = 0 THEN Effect(dev, <<>>, {}) ELSE ServeAt(served[k - 1], buf, starts, k)
    IN  served[Len(buf)]

Serve(m, buf, starts, w) ==
    LET end == Served(buf, starts)
    IN  /\ dev' = end.units
        /\ wire' = [wire EXCEPT ![m] = [w EXCEPT !.out = @ \o end.reply]]
        /\ said' = [said EXCEPT !.untold = @ \cup end.untold]
        /\ UNCHANGED ctl

\* Mutant: a frame is taken when its first piece is there.
WholeFramesOrHalf(buf) == (Len(buf) + 1) \div 2

\* Frames in buf that are there to their end.
WholeFrames(buf) == Len(buf) \div 2

(***************************************************************************)
(* onReadyRead and processBuffer of the TCP server: what is read is        *)
(* appended to the buffer, and every whole frame in it is served.  A       *)
(* header with a length no frame has empties the buffer, and what comes    *)
(* after it can be anything.                                               *)
(***************************************************************************)
processBuffer(m) ==
    /\ ctl.kind = "tcp" /\ wire[m].sync
    /\ \E k \in 1..Len(wire[m].pipe) :
          LET buf == wire[m].buf \o SubSeq(wire[m].pipe, 1, k)
              over == {i \in DOMAIN buf : buf[i].part = 1 /\ buf[i].q.fc = Oversized}
              good == IF over = {} THEN buf ELSE SubSeq(buf, 1, (CHOOSE i \in over : \A j \in over : i <= j) - 1)
              n == WholeFrames(good)
          IN  Serve(m, good, {2 * i - 1 : i \in 1..n},
                    [wire[m] EXCEPT !.pipe = SubSeq(@, k + 1, Len(@)), !.sync = over = {},
                                    !.buf = IF over = {} THEN SubSeq(buf, 2 * n + 1, Len(buf)) ELSE <<>>])

(* onReadyRead of the RTU servers: the timer starts again with every read.
   Both empty a buffer that is full; the serial one leaves the timer alone. *)
Receives(m, k, TimerWhenFull) ==
    LET buf == wire[m].buf \o SubSeq(wire[m].pipe, 1, k)
        full == Len(buf) > MaxPieces
    IN  wire' = [wire EXCEPT ![m].pipe = SubSeq(@, k + 1, Len(@)),
                             ![m].buf = IF full THEN <<>> ELSE buf,
                             ![m].timer = IF full THEN TimerWhenFull ELSE TRUE]

rtuReadyRead(m) ==
    /\ ctl.kind = "rtu"
    /\ \E k \in 1..Len(wire[m].pipe) : Receives(m, k, FALSE)
    /\ UNCHANGED <<ctl, dev, said>>

serialReadyRead(m) ==
    /\ ctl.kind = "serial"
    /\ \E k \in 1..Len(wire[m].pipe) : Receives(m, k, wire[m].timer)
    /\ UNCHANGED <<ctl, dev, said>>

FrameAt(buf, i) == i + 1 \in DOMAIN buf /\ buf[i].part = 1 /\ buf[i + 1] = [buf[i] EXCEPT !.part = 2]

(* ModbusRtuServer::onFrameTimeout: the buffer is searched for frames with a
   right CRC; bytes that start none are dropped. *)
rtuFrameTimeout(m) ==
    LET buf == wire[m].buf
    IN  /\ ctl.kind = "rtu" /\ wire[m].timer
        /\ Serve(m, buf, {i \in DOMAIN buf : FrameAt(buf, i)},
                 [wire[m] EXCEPT !.buf = <<>>, !.timer = FALSE])

(* ModbusRtuSerialServer::onFrameTimeout: the buffer is one frame, or it is
   thrown away. *)
serialFrameTimeout(m) ==
    LET buf == wire[m].buf
    IN  /\ ctl.kind = "serial" /\ wire[m].timer
        /\ Serve(m, buf, IF Len(buf) = 2 /\ FrameAt(buf, 1) THEN {1} ELSE {},
                 [wire[m] EXCEPT !.buf = <<>>, !.timer = FALSE])

-----------------------------------------------------------------------------
(* The host's commands *)

Answer(cmd, status, code, val) ==
    said' = [said EXCEPT !.n = @ + 1, !.cmd = cmd, !.status = status, !.code = code, !.val = val]

\* ... of a command that sets the event mode.
AnswerNewMode(cmd, status, code, val) ==
    said' = [n |-> said.n + 1, cmd |-> cmd, status |-> status, code |-> code, val |-> val, untold |-> {}]

Done(cmd, val) == Answer(cmd, "done", 0, val)
Failed(cmd, code) == Answer(cmd, "error", code, <<>>) /\ UNCHANGED <<ctl, wire, dev>>

(* The socket or the port is there; a serial line has its one master. *)
Listening == [m \in Masters |-> IF ctl.kind = "serial" /\ m \in Connections THEN Open ELSE Closed]

startServer(mode) == ctl' = [ctl EXCEPT !.running = TRUE, !.mode = mode] /\ wire' = Listening

(***************************************************************************)
(* run: listen, then the units one after the other.  The first that cannot *)
(* be added stops the server again; the ones before it stay, and so does   *)
(* the event mode.  The answer is an event.                                *)
(***************************************************************************)
Run(mode, units) ==
    LET bad == {i \in DOMAIN units : units[i] \in DOMAIN dev \cup {units[j] : j \in 1..(i - 1)}}
        added == {units[j] : j \in {k \in DOMAIN units : \A b \in bad : k < b}}
        all == [u \in DOMAIN dev \cup added |-> IF u \in DOMAIN dev THEN dev[u] ELSE NewUnit]
    IN  IF ctl.running THEN Failed("run", 3)
        ELSE \/ Failed("run", 1)
             \/ /\ dev' = all
                /\ IF bad = {} THEN startServer(mode) /\ AnswerNewMode("run", "event", 0, units)
                   ELSE /\ ctl' = [ctl EXCEPT !.mode = mode]
                        /\ UNCHANGED wire
                        /\ AnswerNewMode("run", "error", 3, <<>>)

StartServer(mode) ==
    IF ctl.running THEN Failed("start_server", 3)
    ELSE \/ Failed("start_server", 1)
         \/ startServer(mode) /\ UNCHANGED dev /\ AnswerNewMode("start_server", "done", 0, <<>>)

(* For a mutant: the connections are left open. *)
StopServerKeepsClients ==
    IF ~ctl.running THEN Failed("stop_server", 3)
    ELSE /\ ctl' = [ctl EXCEPT !.running = FALSE]
         /\ Done("stop_server", <<>>)
         /\ UNCHANGED <<wire, dev>>

StopServer ==
    IF ~ctl.running THEN Failed("stop_server", 3)
    ELSE /\ ctl' = [ctl EXCEPT !.running = FALSE]
         /\ wire' = [m \in Masters |-> Closed]
         /\ UNCHANGED dev
         /\ Done("stop_server", <<>>)

addUnit(u) ==
    IF u \in DOMAIN dev THEN Failed("add_unit", 3)
    ELSE /\ dev' = [x \in DOMAIN dev \cup {u} |-> IF x = u THEN NewUnit ELSE dev[x]]
         /\ UNCHANGED <<ctl, wire>>
         /\ Done("add_unit", <<u>>)

removeUnit(u) ==
    IF u \notin DOMAIN dev THEN Failed("remove_unit", 3)
    ELSE /\ dev' = [x \in DOMAIN dev \ {u} |-> dev[x]]
         /\ UNCHANGED <<ctl, wire>>
         /\ Done("remove_unit", <<u>>)

\* The accessors of the data areas fail on a unit or an address that is not there.
hasCell(u, addr) == u \in DOMAIN dev /\ addr < Size
setCell(u, area, addr, v) == dev' = [dev EXCEPT ![u][area][addr] = v]
getCell(u, area, addr) == dev[u][area][addr]

(* set_coil, set_discrete_input, set_holding_register, set_input_register *)
Set(u, area, addr, v) ==
    IF ~hasCell(u, addr) THEN Failed("set", 3)
    ELSE setCell(u, area, addr, v) /\ Done("set", <<v>>) /\ UNCHANGED <<ctl, wire>>

Get(u, area, addr) ==
    IF ~hasCell(u, addr) THEN Failed("get", 3)
    ELSE Done("get", <<getCell(u, area, addr)>>) /\ UNCHANGED <<ctl, wire, dev>>

(***************************************************************************)
(* set_registers_batch: register after register from addr on, the address  *)
(* counted in 16 bits (2 * Size here).  The first one out of range ends    *)
(* the command; the ones before it are written.                            *)
(***************************************************************************)
At(addr, i) == (addr + i - 1) % (2 * Size)

SetBatch(u, addr, values) ==
    LET out == {i \in DOMAIN values : At(addr, i) >= Size}
        done == {i \in DOMAIN values : \A o \in out : i < o}
        new == [a \in 0..(Size - 1) |-> LET at == {i \in done : At(addr, i) = a}
                                        IN  IF at = {} THEN dev[u].holding[a]
                                            ELSE values[CHOOSE i \in at : TRUE]]
    IN  IF u \notin DOMAIN dev THEN Failed("set_registers_batch", 3)
        ELSE /\ dev' = [dev EXCEPT ![u].holding = new]
             /\ UNCHANGED <<ctl, wire>>
             /\ IF out = {} THEN Done("set_registers_batch", values)
                ELSE Answer("set_registers_batch", "error", 3, <<>>)

(* get_registers_batch *)
GetBatch(u, addr, n) ==
    IF u \notin DOMAIN dev \/ \E i \in 1..n : At(addr, i) >= Size THEN Failed("get_registers_batch", 3)
    ELSE /\ Done("get_registers_batch", [i \in 1..n |-> dev[u].holding[At(addr, i)]])
         /\ UNCHANGED <<ctl, wire, dev>>

(* buildMeta, written out in each of the three files: the commands, and for
   run and start_server the event modes. *)
tcpMeta == {"status", "run", "start_server", "stop_server", "add_unit", "remove_unit", "list_units",
            "set", "get", "set_registers_batch", "get_registers_batch"}
rtuMeta == tcpMeta
serialMeta == tcpMeta
Described == [tcp |-> tcpMeta, rtu |-> rtuMeta, serial |-> serialMeta][ctl.kind]

\* An unknown command is looked at after its unit.
Command(c) ==
    \/ c \in {"status", "list_units"} /\ Done(c, SetToSeq(DOMAIN dev)) /\ UNCHANGED <<ctl, wire, dev>>
    \/ c = "run" /\ \E mode \in {"write", "none"}, units \in {<<1>>, <<1, 1>>} : Run(mode, units)
    \/ c = "start_server" /\ StartServer("all")
    \/ c = "stop_server" /\ StopServer
    \/ c = "add_unit" /\ addUnit(1)
    \/ c = "remove_unit" /\ removeUnit(1)
    \/ c = "set" /\ Set(1, "coil", 0, 1)
    \/ c = "get" /\ Get(1, "coil", 0)
    \/ c = "set_registers_batch" /\ \E addr \in {0, Size - 1} : SetBatch(1, addr, <<2, 3>>)
    \/ c = "get_registers_batch" /\ \E addr \in {0, Size - 1} : GetBatch(1, addr, 2)
    \/ c = "unknown" /\ Failed(c, IF 1 \in DOMAIN dev THEN 404 ELSE 3)

Handle == said.n < MaxCommands /\ \E c \in Described \cup {"unknown"} : Command(c)

Next ==
    \/ Handle
    \/ \E m \in Masters :
          \/ MasterSends(m) \/ incomingConnection(m) \/ onDisconnected(m)
          \/ processBuffer(m) \/ rtuReadyRead(m) \/ serialReadyRead(m)
          \/ rtuFrameTimeout(m) \/ serialFrameTimeout(m)

Spec == Init /\ [][Next]_vars

-----------------------------------------------------------------------------
(* Properties *)

TypeOK ==
    /\ ctl.mode \in Modes
    /\ \A m \in Masters : wire[m].open => ctl.running
    /\ \A m \in Masters : Len(wire[m].buf) <= IF ctl.kind = "tcp" THEN 2 * MaxRequests ELSE MaxPieces
    /\ \A u \in DOMAIN dev : DOMAIN dev[u] = Areas

Tags(frames) == [i \in DOMAIN frames |-> frames[i].tag]

(***************************************************************************)
(* A master's replies are to its requests and in their order, however they *)
(* were cut into reads; over TCP no request that arrived is left without   *)
(* one.  In the modes "write" and "all" the host has been told of every    *)
(* write of a master (a broadcast excepted).                               *)
(***************************************************************************)
AnswersAreTrue ==
    /\ \A m \in Masters :
          LET w == wire[m]
              arrived == Len(w.sent) - ((Len(w.buf) + Len(w.pipe) + 1) \div 2)
          IN  /\ \A i, j \in DOMAIN w.out : i < j => w.out[i].tag < w.out[j].tag
              /\ \A i \in DOMAIN w.out : w.out[i].unit = w.sent[w.out[i].tag].unit
              /\ ctl.kind = "tcp" /\ w.sync => Tags(w.out) = [i \in 1..arrived |-> i]
    /\ ctl.mode \in {"write", "all"} => said.untold = {}
=============================================================================
