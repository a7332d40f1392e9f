----------------------------- MODULE DriverCore -----------------------------
(***************************************************************************)
(* The driver side of the protocol: DriverCore in stdio mode               *)
(* (driver/driver_core.cpp) with StdioResponder, and the guard client      *)
(* (guard/process_guard_client.cpp) that ends the process when its parent  *)
(* is gone.  A thread reads lines from standard input and posts them to    *)
(* the main thread, which handles them one after the other.                *)
(*                                                                         *)
(* What the handler of a driver does is open: it may send events before    *)
(* its answer, answer with or without data or with an error, and the       *)
(* process may die at any time.  The actions change core; what a process    *)
(* writes is connected to the host by the composing module.                *)
(***************************************************************************)
EXTENDS Naturals, Sequences

CONSTANTS
    Processes,  \* driver processes
    MaxEvents   \* bound: events a handler sends before it answers

VARIABLE core  \* per process: its threads, queues and flags

\* A line is a request and what DriverCore will find it to be.
LineKinds == {"meta", "invalid", "cmd"}
Eof == [req |-> 0, kind |-> "eof"]

NotStarted == [alive |-> FALSE, profile |-> "oneshot", stdin |-> <<>>, closed |-> FALSE,
               reading |-> FALSE, posted |-> <<>>, accept |-> FALSE, stop |-> FALSE,
               quit |-> FALSE, work |-> 0, events |-> 0]

Flags == {"alive", "closed", "reading", "accept", "stop", "quit"}

CoreTypeOK ==
    \A d \in Processes :
        /\ DOMAIN core[d] = DOMAIN NotStarted
        /\ \A f \in Flags : core[d][f] \in BOOLEAN
        /\ core[d].profile \in {"oneshot", "keepalive"}
        /\ core[d].events \in 0..MaxEvents
        /\ core[d].work \in Nat

CoreInit == core = [d \in Processes |-> NotStarted]

(* run and runStdioMode up to app->exec(); startFromArgs has begun to connect. *)
Started(profile) ==
    [NotStarted EXCEPT !.alive = TRUE, !.profile = profile, !.reading = TRUE, !.accept = TRUE]

Alive(d) == core[d].alive

(* The reader thread: a line of standard input is posted to the main thread. *)
ReadLine(d) ==
    /\ Alive(d) /\ core[d].reading /\ ~core[d].stop
    /\ core[d].stdin # <<>>
    /\ core' = [core EXCEPT ![d].stdin = Tail(@), ![d].posted = Append(@, Head(core[d].stdin))]

\* Mutant: the end of the input overtakes lines already posted.
ReaderEndsFirst(d) ==
    /\ Alive(d) /\ core[d].reading
    /\ core[d].stop \/ core[d].closed
    /\ core' = [core EXCEPT ![d].reading = FALSE, ![d].posted = <<Eof>> \o @]

(* Its loop ends, at the end of the input or when it is told to stop. *)
ReaderEnds(d) ==
    /\ Alive(d) /\ core[d].reading
    /\ core[d].stop \/ (core[d].closed /\ core[d].stdin = <<>>)
    /\ core' = [core EXCEPT ![d].reading = FALSE, ![d].posted = Append(@, Eof)]

(* handleStdioLineOnMainThread after processOneLine, and scheduleStdioQuit. *)
LineDone(c) ==
    IF c.profile = "oneshot"
    THEN [c EXCEPT !.work = 0, !.accept = FALSE, !.stop = TRUE, !.quit = TRUE]
    ELSE [c EXCEPT !.work = 0]

(***************************************************************************)
(* The main thread takes what was posted first.  processOneLine answers    *)
(* meta commands and parameters that do not validate by itself (Reply),    *)
(* and hands any other command to the handler.                             *)
(***************************************************************************)
HandlePosted(d) ==
    LET c == core[d]
        line == Head(c.posted)
        rest == [c EXCEPT !.posted = Tail(@)]
    IN  /\ Alive(d) /\ ~c.quit /\ c.work = 0
        /\ c.posted # <<>>
        /\ \/ /\ line = Eof
              /\ core' = [core EXCEPT ![d] = [rest EXCEPT !.stop = TRUE, !.quit = TRUE]]
           \/ /\ line # Eof /\ ~c.accept
              /\ core' = [core EXCEPT ![d] = rest]
           \/ /\ line.kind \in {"meta", "invalid"} /\ c.accept
              /\ core' = [core EXCEPT ![d] = LineDone(rest)]
           \/ /\ line.kind = "cmd" /\ c.accept
              /\ core' = [core EXCEPT ![d] = [rest EXCEPT !.work = line.req, !.events = 0]]

\* What HandlePosted writes; req = 0 for nothing.
Reply(d) ==
    LET line == Head(core[d].posted)
    IN  IF core[d].accept /\ line.kind \in {"meta", "invalid"}
        THEN [req |-> line.req, status |-> IF line.kind = "meta" THEN "done" ELSE "error"]
        ELSE [req |-> 0, status |-> "none"]

(* The handler of a driver: StdioResponder::event, done and error for the
   request at work. *)
HandlerEvent(d) ==
    /\ Alive(d) /\ core[d].work # 0
    /\ core[d].events < MaxEvents
    /\ core' = [core EXCEPT ![d].events = @ + 1]

HandlerAnswers(d) ==
    /\ Alive(d) /\ core[d].work # 0
    /\ core' = [core EXCEPT ![d] = LineDone(core[d])]

(* app->exec() returns; the reader thread is joined or terminated. *)
ProcessExits(d) ==
    /\ Alive(d) /\ core[d].quit
    /\ core' = [core EXCEPT ![d] = NotStarted]

ProcessCrashes(d) ==
    /\ Alive(d)
    /\ core' = [core EXCEPT ![d] = NotStarted]

(***************************************************************************)
(* ProcessGuardClient: its thread leaves with forceFastExit when it cannot *)
(* connect to the guard of the parent or loses the connection.             *)
(***************************************************************************)
GuardLost(d, listening) ==
    /\ Alive(d)
    /\ ~listening
    /\ core' = [core EXCEPT ![d] = NotStarted]
=============================================================================
