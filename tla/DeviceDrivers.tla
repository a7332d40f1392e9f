--------------------------- MODULE DeviceDrivers ----------------------------
(***************************************************************************)
(* The driver executables under src/drivers.  A driver is a process of its *)
(* own that answers the commands of one host (module DriverCore); drivers  *)
(* share no state, so a behaviour of this specification is a behaviour of  *)
(* one of them, fixed by the variable driver.  Each module below has the   *)
(* same four variables and says what they hold.                            *)
(***************************************************************************)
EXTENDS Integers, FiniteSets

CONSTANTS
    MaxCommands,     \* bound: commands a host gives to a device driver
    VisionCommands,  \* bound: commands given to driver_3dvision
    ServerCommands,  \* bound: commands given to driver_opcua_server
    WalkCommands,    \* bound: commands given to driver_opcua
    MaxLate, LateAcross,                     \* DeviceLine
    Counters, Segments, Tries,               \* ScanRobot, LaserRadar
    TxIds, AddrSpace, Channels,              \* Modbus clients
    Masters, Size, MaxRequests, MaxPieces,   \* Modbus servers
    MaxWrites, AddrEnd,                      \* CraneSim
    Addrs, Topics,                           \* Vision3D
    OpcSpecs, ClientWrites, MaxBatch, MaxRun,  \* OpcUaServer
    OpcNodes, MaxChanges                     \* OpcUaClient

ASSUME DevicesAssumption ==
    /\ Addrs # {} /\ OpcNodes # {} /\ IsFiniteSet(OpcNodes)
    /\ MaxBatch \in Nat /\ MaxRun \in Nat
    /\ {MaxCommands, VisionCommands, MaxLate, Segments, MaxRequests, MaxPieces} \subseteq Nat
    /\ {Counters, Tries, TxIds, AddrSpace, Channels} \subseteq Nat \ {0}
    /\ AddrEnd \in Nat /\ AddrEnd > 3        \* the crane's four registers have addresses
    /\ \A s \in OpcSpecs : s.id # "i=85"  \* the server's own objects

VARIABLES
    driver,  \* the driver that runs
    ctl,     \* its command handlers and what they remember
    wire,    \* the line, socket or session to the other side
    dev,     \* the device, or the data a server driver serves
    said     \* the answers given

Robot == INSTANCE ScanRobot
Laser == INSTANCE LaserRadar
Thermal == INSTANCE TempScanner
Master == INSTANCE ModbusMaster
Crane == INSTANCE PlcCrane
Analog == INSTANCE AnalogOutput
Limaco == INSTANCE LimacoRadar
Slave == INSTANCE ModbusServer
Sim == INSTANCE CraneSim
Vision == INSTANCE Vision3D WITH MaxCommands <- VisionCommands
UaServer == INSTANCE OpcUaServer WITH
                NodeSpecs <- OpcSpecs, MaxCommands <- ServerCommands, MaxWrites <- ClientWrites
UaClient == INSTANCE OpcUaClient WITH MaxCommands <- WalkCommands

vars == <<driver, ctl, wire, dev, said>>

Init ==
    \/ driver = "3d_scan_robot" /\ Robot!Init
    \/ driver = "3d_laser_radar" /\ Laser!Init
    \/ driver = "3d_temp_scanner" /\ Thermal!Init
    \/ driver = "modbus" /\ Master!Init
    \/ driver = "plc_crane" /\ Crane!Init
    \/ driver = "pqw_analog_output" /\ Analog!Init
    \/ driver = "limaco_radar" /\ Limaco!Init
    \/ driver = "modbus_server" /\ Slave!Init
    \/ driver = "plc_crane_sim" /\ Sim!Init
    \/ driver = "3dvision" /\ Vision!Init
    \/ driver = "opcua_server" /\ UaServer!Init
    \/ driver = "opcua" /\ UaClient!Init

DriverStep ==
    \/ driver = "3d_scan_robot" /\ Robot!Next
    \/ driver = "3d_laser_radar" /\ Laser!Next
    \/ driver = "3d_temp_scanner" /\ Thermal!Next
    \/ driver = "modbus" /\ Master!Next
    \/ driver = "plc_crane" /\ Crane!Next
    \/ driver = "pqw_analog_output" /\ Analog!Next
    \/ driver = "limaco_radar" /\ Limaco!Next
    \/ driver = "modbus_server" /\ Slave!Next
    \/ driver = "plc_crane_sim" /\ Sim!Next
    \/ driver = "3dvision" /\ Vision!Next
    \/ driver = "opcua_server" /\ UaServer!Next
    \/ driver = "opcua" /\ UaClient!Next

Next == DriverStep /\ UNCHANGED driver

Spec == Init /\ [][Next]_vars

-----------------------------------------------------------------------------
(* Properties *)

(* Every driver keeps its state within its types and bounds. *)
TypeOK ==
    /\ driver = "3d_scan_robot" => Robot!TypeOK
    /\ driver = "3d_laser_radar" => Laser!TypeOK
    /\ driver = "3d_temp_scanner" => Thermal!TypeOK
    /\ driver = "modbus" => Master!TypeOK
    /\ driver = "plc_crane" => Crane!TypeOK
    /\ driver = "pqw_analog_output" => Analog!TypeOK
    /\ driver = "limaco_radar" => Limaco!TypeOK
    /\ driver = "modbus_server" => Slave!TypeOK
    /\ driver = "plc_crane_sim" => Sim!TypeOK
    /\ driver = "3dvision" => Vision!TypeOK
    /\ driver = "opcua_server" => UaServer!TypeOK
    /\ driver = "opcua" => UaClient!TypeOK

(***************************************************************************)
(* What the scanners' drivers answer "done" to is so: the register asked   *)
(* for has the value told, the head is where it was sent, a scan has all   *)
(* its segments in order, and a capture is that of this command, whatever  *)
(* was late, lost, damaged or asked for again (radar_session.cpp,          *)
(* laser_session.cpp, thermal_session.cpp).                                *)
(***************************************************************************)
ScannerAnswers ==
    /\ driver = "3d_scan_robot" => Robot!AnswersAreTrue
    /\ driver = "3d_laser_radar" => Laser!AnswersAreTrue
    /\ driver = "3d_temp_scanner" => Thermal!AnswersAreTrue

(***************************************************************************)
(* What a Modbus client says it read the device has, and what it says it   *)
(* wrote is there, with late answers of earlier requests on the line and   *)
(* the values taken to registers and back in the byte order asked for, as  *)
(* modbus_types.h defines its name (modbus_client.cpp, modbus_types.cpp    *)
(* and the drivers that use them).                                         *)
(***************************************************************************)
ModbusAnswers ==
    /\ driver = "modbus" => Master!AnswersAreTrue
    /\ driver = "plc_crane" => Crane!AnswersAreTrue
    /\ driver = "pqw_analog_output" => Analog!AnswersAreTrue
    /\ driver = "limaco_radar" => Limaco!AnswersAreTrue

(***************************************************************************)
(* The replies a Modbus server gives a master are to its requests and in   *)
(* their order, however the requests were cut into reads, and the host is  *)
(* told of every write of a master that its event mode covers              *)
(* (modbus_tcp_server.cpp, modbus_rtu_server.cpp, handler.cpp).  The       *)
(* simulated crane's registers say what the device has taken, a part that  *)
(* moves has its timer running, and in auto mode the crane gets to its     *)
(* goal (sim_device.cpp, driver_plc_crane_sim/handler.cpp).                *)
(***************************************************************************)
ServerAnswers ==
    /\ driver = "modbus_server" => Slave!AnswersAreTrue
    /\ driver = "plc_crane_sim" => Sim!AnswersAreTrue

(***************************************************************************)
(* With commands handled inside the event loops of others, a request of    *)
(* driver_3dvision goes to the address and with the token its command      *)
(* named, the WebSocket is connected only if the host's last word on it    *)
(* asked for that, and the server's subscriptions are the client's         *)
(* (main.cpp, http_client.cpp, websocket_client.cpp).                      *)
(***************************************************************************)
VisionAnswers == driver = "3dvision" => Vision!AnswersAreTrue

(***************************************************************************)
(* upsert_nodes that succeeds has all its nodes, one that fails takes back *)
(* every node it finished and leaves at most the one it created and could  *)
(* not finish, delete_nodes leaves none of its nodes, a node always has    *)
(* its parent and, once its writes are reported, its entry, whatever       *)
(* failed half way while clients wrote (opcua_server_runtime.cpp).         *)
(***************************************************************************)
OpcUaAnswers == driver = "opcua_server" => UaServer!AnswersAreTrue

(***************************************************************************)
(* The walk of driver_opcua lists exactly the nodes to be reached, unless  *)
(* one is deleted meanwhile, and never goes deeper than there are nodes,   *)
(* whatever cycles the references make and whoever deletes nodes           *)
(* (driver_opcua/handler.cpp, readNodeSnapshot and browseChildren).        *)
(***************************************************************************)
OpcUaWalk == driver = "opcua" => UaClient!AnswersAreTrue
=============================================================================
