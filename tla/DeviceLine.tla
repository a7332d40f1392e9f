----------------------------- MODULE DeviceLine -----------------------------
(***************************************************************************)
(* The line between a driver and its device (a serial port or a socket),   *)
(* as the drivers under src/drivers use it: a request is written, and one  *)
(* frame is waited for until a timeout.  The line is the sequence of the   *)
(* frames the device has sent and the driver has not yet taken from it.    *)
(*                                                                         *)
(* Devices and cables are external: an answer may come in time, too late,  *)
(* damaged or not at all; frames keep their order.  A driver that reads    *)
(* the first of several frames may find others in the same chunk and throw *)
(* them away with its buffer.                                              *)
(***************************************************************************)
EXTENDS Naturals, Sequences

CONSTANTS
    MaxLate,    \* bound: frames on a line at a time
    LateAcross  \* may an answer come after the line was closed and opened again?

Quiet == <<>>
NoFrame == [frame |-> "timeout"]
BadFrame == [frame |-> "damaged"]

(* What a session that opens the line finds on it. *)
OnOpen(line) == IF LateAcross THEN line ELSE Quiet

(***************************************************************************)
(* Every way to wait for a frame on line: the time is up and what is on    *)
(* its way stays there, or its first frame is got, whole or damaged, and   *)
(* perhaps others with it.                                                 *)
(***************************************************************************)
Reads(line) ==
    {[line |-> line, got |-> NoFrame, taken |-> 0]}
      \cup {[line |-> SubSeq(line, k + 1, Len(line)), got |-> f, taken |-> k] :
               k \in 1..Len(line), f \in {line[i] : i \in {1} \cap DOMAIN line} \cup {BadFrame}}

(* The lines that throwing away what has arrived by now can leave. *)
Drained(line) == {SubSeq(line, k + 1, Len(line)) : k \in 0..Len(line)}

(* A request whose answers are replies, in order; any of them may be lost. *)
Exchange(line, replies) ==
    UNION {Reads(l) : l \in {x \in {line, line \o replies} : Len(x) <= MaxLate}}
=============================================================================
