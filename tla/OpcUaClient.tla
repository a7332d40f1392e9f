----------------------------- MODULE OpcUaClient ----------------------------
(***************************************************************************)
(* driver_opcua: inspect_node and snapshot_nodes walk the nodes of a       *)
(* server, one service call after another (readNodeSnapshot and            *)
(* browseChildren, which call each other), while others change them.       *)
(*                                                                         *)
(* The hierarchical references may lead back to a node: `visited' keeps    *)
(* the walk from going round.                                              *)
(***************************************************************************)
EXTENDS Naturals, SequencesExt, FiniteSets

CONSTANTS
    MaxCommands,   \* bound: commands the host gives
    OpcNodes,      \* nodes of the server
    MaxChanges     \* bound: nodes others delete

VARIABLES
    ctl,   \* the command under way: calls of readNodeSnapshot not yet returned, visited
    wire,  \* whether the client is connected
    dev,   \* the server, external: class and references of the nodes, those still there
    said   \* the last answer: the nodes it lists, each as often as it is listed, and
           \* the nodes there when it was given, if none was deleted during the walk

vars == <<ctl, wire, dev, said>>

Objects == CHOOSE n \in OpcNodes : TRUE   \* the Objects folder

isDirectory(n) == dev.class[n] \in {"object", "view"}

\* isBrowsableSnapshotNode: methods, types and the like are left out.
isBrowsable(n) == isDirectory(n) \/ dev.class[n] = "variable"

Quiet == [cmd |-> "none", stack |-> <<>>, visited |-> {}, listed |-> <<>>, recurse |-> FALSE, start |-> {}]

Init ==
    /\ ctl = Quiet
    /\ wire = FALSE
    /\ dev \in [class : [OpcNodes -> {"object", "variable", "method"}], refs : [OpcNodes -> SUBSET OpcNodes],
                there : {OpcNodes}, changes : {0}]
    /\ dev.class[Objects] = "object"
    /\ said = [n |-> 0, cmd |-> "none", status |-> "none", code |-> 0, listed |-> <<>>, root |-> Objects,
               recurse |-> FALSE, stable |-> TRUE, there |-> {}]

-----------------------------------------------------------------------------
Answer(status, code) ==
    /\ said' = [said EXCEPT !.status = status, !.code = code, !.listed = ctl.listed, !.recurse = ctl.recurse,
                            !.stable = (dev.there = ctl.start), !.there = dev.there]
    /\ ctl' = Quiet
    /\ wire' = FALSE      \* ~UaClientHandle

Begin(cmd) == [said EXCEPT !.n = @ + 1, !.cmd = cmd, !.listed = <<>>]

\* A call of readNodeSnapshot: the node, whether it expands its children,
\* and the children browseChildren has still to go to, in the server's order.
Call(n, expand) == [node |-> n, expand |-> expand, read |-> FALSE, todo |-> {}]

\* resolveConnectionOptions, parseNodeIdString: refused before connecting.
InvalidParameters(cmd) ==
    /\ said' = [Begin(cmd) EXCEPT !.status = "error", !.code = 3]
    /\ UNCHANGED <<ctl, wire, dev>>

ConnectFails(cmd) ==
    /\ said' = [Begin(cmd) EXCEPT !.status = "error", !.code = 1]
    /\ UNCHANGED <<ctl, wire, dev>>

Walk(cmd, root, recurse) ==
    /\ said' = [Begin(cmd) EXCEPT !.status = "none", !.root = root]
    /\ ctl' = [Quiet EXCEPT !.cmd = cmd, !.stack = <<Call(root, TRUE)>>, !.recurse = recurse, !.start = dev.there]
    /\ wire' = TRUE
    /\ UNCHANGED dev

\* buildMeta: snapshot_nodes has no parameters of its own.
Described == {"status", "inspect_node", "snapshot_nodes"}

handle ==
    /\ ctl.cmd = "none"
    /\ said.n < MaxCommands
    /\ \E c \in Described \cup {"unknown"} :
         \/ /\ c \in {"status", "unknown"}
            /\ said' = IF c = "status" THEN [Begin(c) EXCEPT !.status = "done", !.code = 0]
                       ELSE [Begin(c) EXCEPT !.status = "error", !.code = 404]
            /\ UNCHANGED <<ctl, wire, dev>>
         \/ c \notin {"status", "unknown"} /\ (InvalidParameters(c) \/ ConnectFails(c))
         \/ c = "inspect_node" /\ \E n \in OpcNodes, r \in BOOLEAN : Walk(c, n, r)
         \/ c = "snapshot_nodes" /\ Walk(c, Objects, TRUE)

Top == Last(ctl.stack)

\* The references of the node that the walk follows; the snapshot leaves out
\* the standard nodes right under the Objects folder, which are not modelled.
Followed(n) == {m \in dev.refs[n] \cap dev.there : isBrowsable(m)}

\* Mutant: nodes that were visited are expanded again.
readNodeSnapshotAgain ==
    /\ ctl.stack # <<>> /\ ~Top.read
    /\ Top.node \in dev.there
    /\ LET n == Top.node
       IN  ctl' = [ctl EXCEPT !.visited = @ \cup {n}, !.listed = Append(@, n),
                     !.stack = Append(Front(@), [Top EXCEPT !.read = TRUE,
                                !.todo = IF Top.expand /\ isDirectory(n) THEN Followed(n) ELSE {}])]
    /\ UNCHANGED <<wire, dev, said>>

(* readNodeSnapshot reads the attributes, lists the node and, for a
   directory not visited before, browses. *)
readNodeSnapshot ==
    /\ ctl.stack # <<>> /\ ~Top.read
    /\ Top.node \in dev.there
    /\ LET n == Top.node
           expands == n \notin ctl.visited /\ Top.expand /\ isDirectory(n)
       IN  ctl' = [ctl EXCEPT !.visited = @ \cup {n}, !.listed = Append(@, n),
                     !.stack = Append(Front(@), [Top EXCEPT !.read = TRUE,
                                                   !.todo = IF expands THEN Followed(n) ELSE {}])]
    /\ UNCHANGED <<wire, dev, said>>

(* browseChildren goes to the next child; children are expanded only if the
   command recurses. *)
browseChildren ==
    /\ ctl.stack # <<>> /\ Top.read
    /\ \E m \in Top.todo :
         ctl' = [ctl EXCEPT !.stack = Append(Append(Front(@), [Top EXCEPT !.todo = @ \ {m}]),
                                             Call(m, ctl.recurse))]
    /\ UNCHANGED <<wire, dev, said>>

Returns ==
    /\ ctl.stack # <<>> /\ Top.read /\ Top.todo = {}
    /\ IF Len(ctl.stack) > 1
       THEN ctl' = [ctl EXCEPT !.stack = Front(@)] /\ UNCHANGED <<wire, said>>
       ELSE Answer("done", 0)
    /\ UNCHANGED dev

\* A read of a node that is gone, a timeout, a lost connection: the command fails.
ReadFails ==
    /\ ctl.stack # <<>>
    /\ Answer("error", 2)
    /\ UNCHANGED dev

NodeDeleted(n) ==
    /\ dev.changes < MaxChanges
    /\ n \in dev.there \ {Objects}
    /\ dev' = [dev EXCEPT !.there = @ \ {n}, !.changes = @ + 1]
    /\ UNCHANGED <<ctl, wire, said>>

Next ==
    \/ handle
    \/ readNodeSnapshot
    \/ browseChildren
    \/ Returns
    \/ ReadFails
    \/ \E n \in OpcNodes : NodeDeleted(n)

Spec == Init /\ [][Next]_vars

-----------------------------------------------------------------------------
(* Properties *)

TypeOK ==
    /\ wire = (ctl.cmd # "none")
    /\ ctl.visited = ToSet(ctl.listed)
    /\ Len(ctl.listed) <= 1 + Cardinality(OpcNodes) * Cardinality(OpcNodes)
    /\ said.status \in {"none", "done", "error"}

\* What a client that asked once would see: nodes on paths of directories, as
\* far as the command goes.
Children(n) ==
    IF isDirectory(n) THEN {m \in dev.refs[n] \cap said.there : isBrowsable(m)} ELSE {}

Closed(S) == \A n \in S : Children(n) \subseteq S

Reachable(root) ==
    IF said.recurse
    THEN {m \in OpcNodes : \A S \in SUBSET OpcNodes : root \in S /\ Closed(S) => m \in S}
    ELSE {root} \cup Children(root)

(***************************************************************************)
(* Whatever the references, cycles included: an answer lists exactly the   *)
(* nodes to be reached through directories (all of them, or one level),    *)
(* provided no node was deleted during the walk, and the calls nest no     *)
(* deeper than there are nodes.                                            *)
(***************************************************************************)
AnswersAreTrue ==
    /\ said.status = "done" /\ said.cmd \in {"inspect_node", "snapshot_nodes"} /\ said.stable
         => ToSet(said.listed) = Reachable(said.root)
    /\ Len(ctl.stack) <= Cardinality(OpcNodes) + 1
=============================================================================
