----------------------------- MODULE OpcUaServer ----------------------------
(***************************************************************************)
(* driver_opcua_server: an OPC UA server whose nodes the host keeps with   *)
(* commands and clients read and write.                                    *)
(*                                                                         *)
(* Two threads: the host's commands, which hold m_outputMutex from their   *)
(* first to their last line, and the thread start() creates, which serves  *)
(* the clients inside UA_Server_run_iterate and whose callbacks take       *)
(* m_outputMutex to emit an event.                                         *)
(***************************************************************************)
EXTENDS OpcUaTypes, SequencesExt, FiniteSets

CONSTANTS
    NodeSpecs,     \* the nodes that commands describe
    MaxCommands,   \* bound: commands the host gives
    MaxBatch,      \* bound: nodes in one command
    MaxRun,        \* bound: nodes run is given
    MaxWrites      \* bound: requests the clients make

VARIABLES
    ctl,   \* the runtime: up, event mode; what the host's thread is doing
    wire,  \* the serving thread: threadRunning, where it is, requests so far
    dev,   \* nodes of the server's namespace 1, and nodeEntries
    said   \* the last answer, the nodes there were before it, events emitted

vars == <<ctl, wire, dev, said>>

EventModes == {"none", "write", "session", "all"}
isSessionEventMode(mode) == mode \in {"session", "all"}
isWriteEventMode(mode) == mode \in {"write", "all"}

\* What the host may describe.
parseNodeSpec(s) ==
    s.class = "folder" \/ (s.class = "variable" /\ s.type # "" /\ s.access \in {"read_only", "read_write"})

Specs == {s \in NodeSpecs : parseNodeSpec(s)}
Batches(max) == UNION {[1..n -> Specs] : n \in 0..max}

ThreadAt == {"none", "sleep", "iterate", "callback", "emit"}
NoThread == [run |-> FALSE, at |-> "none", node |-> "", val |-> 0, n |-> 0]
\* The command under way.  item: the value written; todo, next, moved, made: the
\* nodes to do, those for the next pass, whether this one got anywhere and the
\* nodes recorded as created; at, created: the step upsertNode has to do for the
\* first node to do, and whether it created that node; ids, recursive: the nodes
\* to delete.
UpsertSteps == {"node", "access", "value", "entry", "context"}
NoJob == [item |-> <<>>, todo |-> <<>>, next |-> <<>>, moved |-> FALSE, made |-> <<>>,
          at |-> "node", created |-> FALSE, ids |-> <<>>, recursive |-> FALSE]
Down == [up |-> FALSE, mode |-> "write", main |-> "idle", fail |-> FALSE, job |-> NoJob]
Nothing == [nodes |-> [i \in {} |-> 0], entries |-> [i \in {} |-> 0]]

Init ==
    /\ ctl = Down
    /\ wire = NoThread
    /\ dev = Nothing
    /\ said = [n |-> 0, cmd |-> "none", status |-> "none", code |-> 0, before |-> {}, val |-> {}]

-----------------------------------------------------------------------------
(* Nodes *)

nodeExists(d, id) == id = Root \/ id \in DOMAIN d.nodes

Children(d, id) == {i \in DOMAIN d.nodes : d.nodes[i].parent = id}

\* The node and its descendants.
Tree(d, id) ==
    {i \in DOMAIN d.nodes : \A S \in SUBSET DOMAIN d.nodes :
        id \in S /\ (\A j \in S : Children(d, j) \subseteq S) => i \in S}

\* collectDescendantNodeIds: without recursion, one level.
collectDescendantNodeIds(d, id, recursive) == IF recursive THEN Tree(d, id) ELSE {id} \cup Children(d, id)

Without(d, ids, entries) ==
    [nodes |-> [i \in DOMAIN d.nodes \ ids |-> d.nodes[i]],
     entries |-> [i \in DOMAIN d.entries \ entries |-> d.entries[i]]]

Put(f, i, x) == [j \in DOMAIN f \cup {i} |-> IF j = i THEN x ELSE f[j]]

\* A variable is created with a value of its type.
createVariableNode(s) == s.val # <<>> /\ jsonToVariant(s.type, s.val[1], TRUE) # Rejected

\* A node without the context and the callback: clients see it, the driver does
\* not hear of what they write.
NewNode(s) ==
    [parent |-> s.parent, class |-> s.class, type |-> s.type, access |-> s.access, linked |-> FALSE,
     val |-> IF s.class = "folder" THEN 0 ELSE jsonToVariant(s.type, s.val[1], TRUE)[1]]

\* ensureEntry, and currentValue if a value is given.
ensureEntry(d, s) ==
    LET cur == IF s.val # <<>> THEN s.val
               ELSE IF s.id \in DOMAIN d.entries THEN d.entries[s.id].cur ELSE <<>>
    IN  Put(d.entries, s.id, [class |-> s.class, cur |-> cur])

\* readNodeSnapshot and browseChildren: only directories are expanded.
Snapshot(d, id, recurse) ==
    LET isDir(i) == i = Root \/ d.nodes[i].class = "folder"
        kids(i) == IF isDir(i) THEN Children(d, i) ELSE {}
        down[k \in Nat] == IF k = 0 THEN {id} ELSE down[k - 1] \cup UNION {kids(i) : i \in down[k - 1]}
    IN  down[IF recurse THEN Cardinality(DOMAIN d.nodes) ELSE 1] \ {Root}

-----------------------------------------------------------------------------
(* OpcUaServerHandler: the host's thread. *)

Answer(cmd, status, code, val) ==
    said' = [said EXCEPT !.n = @ + 1, !.cmd = cmd, !.status = status, !.code = code,
                         !.before = DOMAIN dev.nodes, !.val = val]

Refuse(cmd, code) ==
    /\ Answer(cmd, "error", code, {})
    /\ UNCHANGED <<ctl, wire, dev>>

StatusCommand == Answer("status", "done", 0, DOMAIN dev.entries) /\ UNCHANGED <<ctl, wire, dev>>

IdsOf(batch) == {batch[i].id : i \in DOMAIN batch}

\* start: port or configuration may fail; the thread runs from here on.
start(mode, main, batch) ==
    /\ ctl' = [ctl EXCEPT !.up = TRUE, !.mode = mode, !.main = main, !.job.todo = batch]
    /\ wire' = [NoThread EXCEPT !.run = TRUE, !.at = "sleep", !.n = wire.n]

StartServer(mode) ==
    \/ ctl.up /\ Refuse("start_server", 3)
    \/ ~ctl.up /\ Answer("start_server", "error", 1, {})
         /\ ctl' = [ctl EXCEPT !.mode = mode] /\ UNCHANGED <<wire, dev>>
    \/ ~ctl.up /\ start(mode, "idle", <<>>) /\ Answer("start_server", "done", 0, {}) /\ UNCHANGED dev

\* run starts, then loads its nodes; on success it gives no answer.
RunServer(mode, batch) ==
    \/ ctl.up /\ Refuse("run", 3)
    \/ ~ctl.up /\ Answer("run", "error", 1, {})
         /\ ctl' = [ctl EXCEPT !.mode = mode] /\ UNCHANGED <<wire, dev>>
    \/ /\ ~ctl.up
       /\ start(mode, "upsert", batch)
       /\ Answer("run", "none", 0, IdsOf(batch))
       /\ UNCHANGED dev

\* stop: the flag, then join with m_outputMutex held.
StopServer ==
    \/ ~ctl.up /\ Refuse("stop_server", 3)
    \/ /\ ctl.up
       /\ ctl' = [ctl EXCEPT !.main = "join"]
       /\ wire' = [wire EXCEPT !.run = FALSE]
       /\ Answer("stop_server", "none", 0, {})
       /\ UNCHANGED dev

Joined ==
    /\ ctl.main = "join"
    /\ wire.at = "none"
    /\ ctl' = [Down EXCEPT !.mode = ctl.mode]
    /\ dev' = Nothing
    /\ said' = IF ctl.fail THEN [said EXCEPT !.status = "error", !.code = 2]
               ELSE [said EXCEPT !.status = "done"]
    /\ UNCHANGED wire

UpsertNodes(batch) ==
    /\ ctl' = [ctl EXCEPT !.main = "upsert", !.job.todo = batch]
    /\ Answer("upsert_nodes", "none", 0, IdsOf(batch))
    /\ UNCHANGED <<wire, dev>>

DeleteNodes(ids, recursive) ==
    /\ ctl' = [ctl EXCEPT !.main = "delete", !.job.ids = ids, !.job.recursive = recursive]
    /\ Answer("delete_nodes", "none", 0, ToSet(ids))
    /\ UNCHANGED <<wire, dev>>

Ends(status, code) ==
    /\ ctl' = [ctl EXCEPT !.main = "idle", !.job = NoJob]
    /\ said' = [said EXCEPT !.status = status, !.code = code]

(***************************************************************************)
(* upsertNodes goes over its nodes, again and again; a node whose parent   *)
(* is missing is left for the next pass.  upsertNode takes several calls   *)
(* of the server for a node, and the clients write between them.           *)
(***************************************************************************)
Upserts(step) == ctl.main = "upsert" /\ ctl.job.todo # <<>> /\ ctl.job.at = step
firstSpec == Head(ctl.job.todo)

OrphanWaits ==
    /\ Upserts("node") /\ ~nodeExists(dev, firstSpec.parent)
    /\ ctl' = [ctl EXCEPT !.job.todo = Tail(@), !.job.next = Append(@, firstSpec)]
    /\ UNCHANGED <<wire, dev, said>>

\* A node that exists keeps its parent.
NodeFound ==
    /\ Upserts("node") /\ nodeExists(dev, firstSpec.parent)
    /\ firstSpec.id \in DOMAIN dev.nodes /\ dev.nodes[firstSpec.id].class = firstSpec.class
    /\ ctl' = [ctl EXCEPT !.job.at = "access"]
    /\ UNCHANGED <<wire, dev, said>>

NodeCreated ==
    /\ Upserts("node") /\ nodeExists(dev, firstSpec.parent)
    /\ firstSpec.id \notin DOMAIN dev.nodes
    /\ firstSpec.class = "variable" => createVariableNode(firstSpec)
    /\ dev' = [dev EXCEPT !.nodes = Put(@, firstSpec.id, NewNode(firstSpec))]
    /\ ctl' = [ctl EXCEPT !.job.at = "access", !.job.created = TRUE]
    /\ UNCHANGED <<wire, said>>

\* The names; of a variable, new or not, the access level and then the value.
updateAccess ==
    /\ Upserts("access")
    /\ dev.nodes[firstSpec.id].type = firstSpec.type
    /\ dev' = [dev EXCEPT !.nodes[firstSpec.id].access = firstSpec.access]
    /\ ctl' = [ctl EXCEPT !.job.at = IF firstSpec.class = "variable" THEN "value" ELSE "entry"]
    /\ UNCHANGED <<wire, said>>

updateValue ==
    /\ Upserts("value")
    /\ IF firstSpec.val = <<>> THEN UNCHANGED dev
       ELSE /\ jsonToVariant(firstSpec.type, firstSpec.val[1], TRUE) # Rejected
            /\ dev' = [dev EXCEPT !.nodes[firstSpec.id].val = jsonToVariant(firstSpec.type, firstSpec.val[1], TRUE)[1]]
    /\ ctl' = [ctl EXCEPT !.job.at = "entry"]
    /\ UNCHANGED <<wire, said>>

EntryEnsured ==
    /\ Upserts("entry")
    /\ dev' = [dev EXCEPT !.entries = ensureEntry(dev, firstSpec)]
    /\ ctl' = [ctl EXCEPT !.job.at = "context"]
    /\ UNCHANGED <<wire, said>>

\* updateEntryContext and installValueCallback.  Only now is a node recorded as
\* created.
NodeLinked ==
    /\ Upserts("context")
    /\ dev' = [dev EXCEPT !.nodes[firstSpec.id].linked = TRUE]
    /\ ctl' = [ctl EXCEPT !.job.at = "node", !.job.todo = Tail(@), !.job.moved = TRUE, !.job.created = FALSE,
                          !.job.made = IF ctl.job.created THEN Append(@, firstSpec.id) ELSE @]
    /\ UNCHANGED <<wire, said>>

\* The node is refused, or a call of the server fails: what was done to this
\* node stays.
upsertNodeFails ==
    /\ ctl.main = "upsert" /\ ctl.job.todo # <<>> /\ ctl.job.at # "entry"
    /\ ctl' = [ctl EXCEPT !.main = "undo"]
    /\ UNCHANGED <<wire, dev, said>>

upsertNode ==
    \/ OrphanWaits \/ NodeFound \/ NodeCreated \/ updateAccess \/ updateValue \/ EntryEnsured \/ NodeLinked
    \/ upsertNodeFails

(* A pass is over; one that got nowhere is the last.  run has no answer but
   its events. *)
PassEnds ==
    /\ ctl.main = "upsert" /\ ctl.job.todo = <<>>
    /\ \/ ctl.job.next = <<>> /\ Ends(IF said.cmd = "run" THEN "started" ELSE "done", 0)
       \/ /\ ctl.job.next # <<>>
          /\ ctl' = IF ctl.job.moved
                    THEN [ctl EXCEPT !.job.todo = ctl.job.next, !.job.next = <<>>, !.job.moved = FALSE]
                    ELSE [ctl EXCEPT !.main = "undo"]
          /\ UNCHANGED said
    /\ UNCHANGED <<wire, dev>>

(* For a mutant: the nodes made are taken from the table alone. *)
rollbackEntries ==
    /\ ctl.main = "undo" /\ ctl.job.made # <<>>
    /\ dev' = Without(dev, {}, {Last(ctl.job.made)})
    /\ ctl' = [ctl EXCEPT !.job.made = Front(@)]
    /\ UNCHANGED <<wire, said>>

(* What is recorded as made is deleted, the last node first; what was updated
   stays.  The server deletes a node that is there. *)
rollback_failure ==
    /\ ctl.main = "undo" /\ ctl.job.made # <<>>
    /\ dev' = Without(dev, Tree(dev, Last(ctl.job.made)), {Last(ctl.job.made)})
    /\ ctl' = [ctl EXCEPT !.job.made = Front(@)]
    /\ UNCHANGED <<wire, said>>

(* run stops the server that it started. *)
UpsertFails ==
    /\ ctl.main = "undo" /\ ctl.job.made = <<>>
    /\ IF said.cmd = "run"
       THEN /\ ctl' = [ctl EXCEPT !.main = "join", !.fail = TRUE, !.job = NoJob]
            /\ wire' = [wire EXCEPT !.run = FALSE]
            /\ UNCHANGED said
       ELSE Ends("error", 2) /\ UNCHANGED wire
    /\ UNCHANGED dev

(* deleteNodes: one after the other; the server deletes a node with all below
   it.  A refusal leaves the earlier ones deleted. *)
DeleteOne ==
    /\ ctl.main = "delete" /\ ctl.job.ids # <<>>
    /\ LET id == Head(ctl.job.ids)
           refused == id \notin DOMAIN dev.nodes \/ (dev.nodes[id].class = "folder" /\ ~ctl.job.recursive)
       IN  IF refused THEN Ends("error", 2) /\ UNCHANGED dev
           ELSE /\ dev' = Without(dev, Tree(dev, id), collectDescendantNodeIds(dev, id, ctl.job.recursive))
                /\ ctl' = [ctl EXCEPT !.job.ids = Tail(@)]
                /\ UNCHANGED said
    /\ UNCHANGED wire

DeleteEnds ==
    /\ ctl.main = "delete" /\ ctl.job.ids = <<>>
    /\ Ends("done", 0)
    /\ UNCHANGED <<wire, dev>>

(* write_values, one item: the value goes to the server, then to the entry. *)
Takes(id, v, strict) ==
    IF id \in DOMAIN dev.nodes
    THEN /\ dev.nodes[id].class = "variable" /\ dev.nodes[id].access = "read_write"
         /\ jsonToVariant(dev.nodes[id].type, v, strict) # Rejected
    ELSE FALSE

writeSingleValue(id, v, strict) ==
    \/ ~Takes(id, v, strict) /\ Refuse("write_values", 2)
    \/ /\ Takes(id, v, strict)
       /\ dev' = [dev EXCEPT !.nodes[id].val = jsonToVariant(dev.nodes[id].type, v, strict)[1]]
       /\ ctl' = [ctl EXCEPT !.main = "written", !.job.item = <<id, v>>]
       /\ Answer("write_values", "none", 0, {id})
       /\ UNCHANGED wire

WriteCached ==
    /\ ctl.main = "written"
    /\ IF ctl.job.item[1] \in DOMAIN dev.entries
       THEN dev' = [dev EXCEPT !.entries[ctl.job.item[1]].cur = <<ctl.job.item[2]>>]
       ELSE UNCHANGED dev
    /\ Ends("done", 0)
    /\ UNCHANGED wire

InspectNode(id, recurse) ==
    \/ id \notin DOMAIN dev.nodes /\ Refuse("inspect_node", 2)
    \/ /\ id \in DOMAIN dev.nodes
       /\ Answer("inspect_node", "done", 0, Snapshot(dev, id, recurse))
       /\ UNCHANGED <<ctl, wire, dev>>

SnapshotNodes(recurse) ==
    /\ Answer("snapshot_nodes", "done", 0, Snapshot(dev, Root, recurse))
    /\ UNCHANGED <<ctl, wire, dev>>

\* buildMeta and resolve*: what the parameters may be.
Ids == {s.id : s \in Specs}
IdLists == UNION {[1..n -> Ids] : n \in 0..MaxBatch}
Values == {Number(3), Number(-1), [k |-> "decimal", x |-> 4], [k |-> "text", x |-> 0]}

\* The commands on nodes need a running server.
HandleNodes ==
    \/ ~ctl.up /\ Refuse("other", 3)
    \/ /\ ctl.up
       /\ \/ \E b \in Batches(MaxBatch) : UpsertNodes(b)
          \/ \E ids \in IdLists, r \in BOOLEAN : DeleteNodes(ids, r)
          \/ \E i \in Ids, v \in Values, strict \in BOOLEAN : writeSingleValue(i, v, strict)
          \/ \E i \in Ids, r \in BOOLEAN : InspectNode(i, r)
          \/ \E r \in BOOLEAN : SnapshotNodes(r)
          \/ Refuse("unknown", 404)

handle ==
    /\ said.n < MaxCommands
    /\ ctl.main = "idle"
    /\ \/ StatusCommand
       \/ \E m \in EventModes : StartServer(m)
       \/ StopServer
       \/ \E m \in EventModes, b \in Batches(MaxRun) : RunServer(m, b)
       \/ HandleNodes

-----------------------------------------------------------------------------
(* The serving thread. *)

Iterate ==
    /\ wire.at = "sleep"
    /\ wire' = [wire EXCEPT !.at = IF wire.run THEN "iterate" ELSE "none"]
    /\ UNCHANGED <<ctl, dev, said>>

IterateEnds ==
    /\ wire.at = "iterate"
    /\ wire' = [wire EXCEPT !.at = "sleep"]
    /\ UNCHANGED <<ctl, dev, said>>

\* A session is activated or closed: an event in the session modes.
SessionChanges ==
    /\ wire.at = "iterate" /\ wire.n < MaxWrites
    /\ wire' = [wire EXCEPT !.n = @ + 1, !.at = IF isSessionEventMode(ctl.mode) THEN "emit" ELSE @]
    /\ UNCHANGED <<ctl, dev, said>>

\* A client writes a writable variable: the value, then variableWritten if the
\* node has the callback.
ExternalWrite(id) ==
    /\ wire.at = "iterate" /\ wire.n < MaxWrites
    /\ id \in DOMAIN dev.nodes /\ dev.nodes[id].access = "read_write"
    /\ dev' = [dev EXCEPT !.nodes[id].val = 7]
    /\ wire' = IF dev.nodes[id].linked THEN [wire EXCEPT !.n = @ + 1, !.at = "callback", !.node = id, !.val = 7]
               ELSE [wire EXCEPT !.n = @ + 1]
    /\ UNCHANGED <<ctl, said>>

\* The entry may be gone: its memory is freed, and what the callback does
\* with it is undefined; here it has no effect.
variableWritten ==
    /\ wire.at = "callback"
    /\ IF isWriteEventMode(ctl.mode) /\ wire.node \in DOMAIN dev.entries /\ wire.node \in DOMAIN dev.nodes
       THEN /\ dev' = [dev EXCEPT !.entries[wire.node].cur =
                                     <<variantToJson(dev.nodes[wire.node].type, wire.val)>>]
            /\ wire' = [wire EXCEPT !.at = "emit"]
       ELSE /\ wire' = [wire EXCEPT !.at = "iterate"]
            /\ UNCHANGED dev
    /\ UNCHANGED <<ctl, said>>

\* eventCallback waits for m_outputMutex.
emitEvent ==
    /\ wire.at = "emit"
    /\ ctl.main = "idle"
    /\ wire' = [wire EXCEPT !.at = "iterate"]
    /\ UNCHANGED <<ctl, dev, said>>

HostSteps ==
    \/ upsertNode \/ PassEnds \/ rollback_failure \/ UpsertFails
    \/ DeleteOne \/ DeleteEnds \/ WriteCached \/ Joined
ThreadSteps == Iterate \/ IterateEnds \/ variableWritten \/ emitEvent

Next ==
    \/ handle
    \/ HostSteps
    \/ ThreadSteps
    \/ SessionChanges
    \/ \E id \in Ids : ExternalWrite(id)

Spec == Init /\ [][Next]_vars

\* Both threads are scheduled.
FairSpec == Spec /\ WF_vars(HostSteps) /\ WF_vars(ThreadSteps)

-----------------------------------------------------------------------------
(* Properties *)

TypeOK ==
    /\ ctl.main \in {"idle", "upsert", "undo", "delete", "written", "join"} /\ ctl.mode \in EventModes
    /\ ctl.job.at \in UpsertSteps
    /\ wire.at \in ThreadAt /\ (wire.at # "none" => ctl.up)
    /\ DOMAIN dev.nodes \subseteq Ids /\ DOMAIN dev.entries \subseteq Ids
    /\ \A i \in DOMAIN dev.nodes : dev.nodes[i].class = "variable" =>
         dev.nodes[i].val \in RangeOf(dev.nodes[i].type)

(***************************************************************************)
(* upsert_nodes that succeeds has all its nodes, in whatever order they    *)
(* were given.  One that fails takes nothing away and takes back every     *)
(* node it finished; it leaves at most one node of its own, which it       *)
(* created and could not finish.  delete_nodes that succeeds leaves none   *)
(* of its nodes.  A node always has its parent, and one whose writes the   *)
(* driver hears of has the entry they are noted in, whatever was deleted   *)
(* or rolled back while clients wrote.                                     *)
(***************************************************************************)
AnswersAreTrue ==
    /\ said.cmd = "upsert_nodes" =>
         /\ said.status = "done" => DOMAIN dev.nodes = said.before \cup said.val
         /\ said.status = "error" =>
              /\ said.before \subseteq DOMAIN dev.nodes
              /\ \A i, j \in DOMAIN dev.nodes \ said.before : i = j /\ i \in said.val /\ ~dev.nodes[i].linked
    /\ said.cmd = "delete_nodes" /\ said.status = "done" => said.val \cap DOMAIN dev.nodes = {}
    /\ \A i \in DOMAIN dev.nodes :
         /\ nodeExists(dev, dev.nodes[i].parent)
         /\ dev.nodes[i].linked => i \in DOMAIN dev.entries

\* stop_server stops the server: a command that waits for the thread gets on.
StopServerStops == ctl.main = "join" ~> ctl.main = "idle"
=============================================================================
