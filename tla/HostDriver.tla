----------------------------- MODULE HostDriver -----------------------------
(***************************************************************************)
(* The host side of the protocol: Driver (host/driver.cpp), Task           *)
(* (host/task.cpp) and waitAnyNext (host/wait_any.cpp).  A Driver writes   *)
(* requests to the standard input of a process and reads the answers from  *)
(* its standard output, where nothing says which request a line answers.   *)
(*                                                                         *)
(* A line is two fragments, because a read may end inside a line.  A       *)
(* message carries the request it answers, which the host cannot see: it   *)
(* is there for the properties.  All operators map a state of the host     *)
(* (a record of link and task) to another one, since one call of the       *)
(* library makes several of these changes in a row.                        *)
(***************************************************************************)
EXTENDS Naturals, Sequences, FiniteSetsExt

CONSTANTS
    Drivers,      \* the Driver objects of the host
    MaxRequests,  \* bound: requests the host makes
    MaxBuffer     \* kMaxOutputBufferBytes, in fragments

ASSUME HostAssumption ==
    /\ Drivers # {}
    /\ MaxRequests \in Nat
    /\ MaxBuffer \in Nat

VARIABLES
    link,  \* per Driver: QProcess::state, unread output, m_buf, m_cur, m_meta
    task   \* per request: its TaskState

Requests == 1..MaxRequests
NoRequest == 0

\* "null" is done without data; the last three are errors the host makes up
\* (1001 process exited, 1000 invalid response, 1002 buffer overflow).
Statuses == {"event", "done", "null", "error", "exited", "invalid", "overflow"}
Message == [req : {NoRequest} \cup Requests, status : Statuses]
NoMessage == [req |-> NoRequest, status |-> "none"]
Fragment == [req : Requests, status : Statuses, part : {"head", "end"}]

TaskStates == [used : BOOLEAN, term : BOOLEAN, queue : Seq(Message)]
NoTask == [used |-> FALSE, term |-> FALSE, queue |-> <<>>]
NewTask == [used |-> TRUE, term |-> FALSE, queue |-> <<>>]

Links == [proc : {"idle", "running", "exited"}, out : Seq(Fragment), buf : Seq(Fragment),
          cur : {NoRequest} \cup Requests, meta : BOOLEAN]
NoLink == [proc |-> "idle", out |-> <<>>, buf |-> <<>>, cur |-> NoRequest, meta |-> FALSE]

HostTypeOK ==
    /\ link \in [Drivers -> Links]
    /\ task \in [Requests -> TaskStates]
    /\ \A d \in Drivers : Len(link[d].buf) <= MaxBuffer

HostInit ==
    /\ link = [d \in Drivers |-> NoLink]
    /\ task = [r \in Requests |-> NoTask]

Host == [link |-> link, task |-> task]

-----------------------------------------------------------------------------
(* Driver *)

isRunning(h, d) == h.link[d].proc = "running"

(* pushError: the task ends with an error of the host, but stays m_cur. *)
PushError(h, r, error) ==
    [h EXCEPT !.task[r].term = TRUE,
              !.task[r].queue = Append(@, [req |-> NoRequest, status |-> error])]

(* The process is started; its earlier output, if any, is gone. *)
StartProcess(h, d) == [h EXCEPT !.link[d].proc = "running", !.link[d].out = <<>>]

(* QProcess learns of the exit; what the process wrote can still be read. *)
NoticeExit(h, d) ==
    IF isRunning(h, d) THEN [h EXCEPT !.link[d].proc = "exited"] ELSE h

(***************************************************************************)
(* request: a new TaskState becomes m_cur, whatever the old one was still  *)
(* waiting for.  A process that is not running, or that turns out to be    *)
(* gone while the line is flushed, fails the task.  m_buf is cleared, the  *)
(* pipe is not.                                                            *)
(***************************************************************************)
Request(h, d, r, gone) ==
    LET h1 == [h EXCEPT !.link[d].cur = r, !.task[r] = NewTask, !.link[d].buf = <<>>]
        h2 == IF gone THEN NoticeExit(h1, d) ELSE h1
    IN  IF isRunning(h2, d) THEN h2 ELSE PushError(h2, r, "exited")

(* What readAllStandardOutput may return: some of what is there, and all of it
   once the process is over. *)
Readable(h, d) ==
    LET n == Len(h.link[d].out)
    IN  IF isRunning(h, d) /\ n > 0 THEN 1..n ELSE {n}

\* Mutant: the limit of the buffer is not enforced.
PumpUnbounded(h, d, k) ==
    LET l == h.link[d]
        b == l.buf \o SubSeq(l.out, 1, k)
        stops == {i \in 1..Len(b) : b[i].part = "end" /\ b[i].status # "event"}
        last == IF stops # {} THEN Min(stops) ELSE 0
    IN  IF l.cur = NoRequest THEN h
        ELSE [h EXCEPT !.link[d].buf = SubSeq(b, last + 1, Len(b)),
                       !.link[d].out = SubSeq(l.out, k + 1, Len(l.out)),
                       !.link[d].cur = IF last # 0 THEN NoRequest ELSE @,
                       !.task[l.cur].term = @ \/ last # 0,
                       !.task[l.cur].queue =
                          IF last = 0 THEN @
                          ELSE Append(@, [req |-> b[last].req, status |-> b[last].status])]

(***************************************************************************)
(* pumpStdout, when a read returns k fragments: the lines go to m_cur, up  *)
(* to the first that ends it (done or error) or cannot be parsed, here     *)
(* because its beginning was cleared away.  done and error release m_cur;  *)
(* an error of the host does not.                                          *)
(***************************************************************************)
Pump(h, d, k) ==
    LET l == h.link[d]
        b == l.buf \o SubSeq(l.out, 1, k)
        read == [h EXCEPT !.link[d].out = SubSeq(l.out, k + 1, Len(l.out))]
        ends == {i \in 1..Len(b) : b[i].part = "end"}
        bad(i) == i = 1 \/ b[i - 1].part = "end"
        stops == {i \in ends : bad(i) \/ b[i].status # "event"}
        last == IF stops # {} THEN Min(stops) ELSE IF ends # {} THEN Max(ends) ELSE 0
        upto == IF last # 0 /\ bad(last) THEN last - 1 ELSE last
        lines == SelectSeq(SubSeq(b, 1, upto), LAMBDA f : f.part = "end")
        parsed == [read EXCEPT !.link[d].buf = SubSeq(b, last + 1, Len(b)),
                               !.task[l.cur].queue = @ \o [i \in 1..Len(lines) |->
                                    [req |-> lines[i].req, status |-> lines[i].status]]]
    IN  IF l.cur = NoRequest THEN h
        ELSE IF Len(b) > MaxBuffer
             THEN [PushError(read, l.cur, "overflow") EXCEPT !.link[d].buf = <<>>]
        ELSE IF upto # last THEN PushError(parsed, l.cur, "invalid")
        ELSE IF stops # {} THEN [parsed EXCEPT !.task[l.cur].term = TRUE, !.link[d].cur = NoRequest]
        ELSE parsed

(* terminate, when waitForFinished(200) sees the end of the process or not. *)
Kill(h, d, seen) == IF seen THEN NoticeExit(h, d) ELSE h

-----------------------------------------------------------------------------
(* Task.  Owner(r) is the driver of request r. *)

isDone(h, r) == h.task[r].term /\ h.task[r].queue = <<>>

(* tryNext finds the process gone and makes up an error, without a last read. *)
MustFail(h, d, r) ==
    /\ h.task[r].queue = <<>>
    /\ ~h.task[r].term
    /\ ~isRunning(h, d)

(* tryNext returns something. *)
Ready(h, d, r) == h.task[r].queue # <<>> \/ MustFail(h, d, r)

forceTerminal(h, r) == IF h.task[r].term THEN h ELSE PushError(h, r, "exited")

(* tryNext, when it returns something: the message and the state after. *)
TryNext(h, d, r) ==
    LET h1 == IF MustFail(h, d, r) THEN forceTerminal(h, r) ELSE h
    IN  [h |-> [h1 EXCEPT !.task[r].queue = Tail(@)], msg |-> Head(h1.task[r].queue)]

-----------------------------------------------------------------------------
(* waitAnyNext on the tasks ts, a sequence of requests; own maps them to drivers. *)

FirstReady(h, own, ts) ==
    LET ready == {i \in 1..Len(ts) : Ready(h, own[ts[i]], ts[i])}
    IN  IF ready = {} THEN 0 ELSE Min(ready)

allDone(h, ts) == \A i \in 1..Len(ts) : isDone(h, ts[i])

(* Outcome 0: nothing before the timeout, or every task is done. *)
Took(h, own, ts) ==
    LET i == FirstReady(h, own, ts)
        n == TryNext(h, own[ts[i]], ts[i])
    IN  IF i = 0 THEN [h |-> h, index |-> 0, msg |-> NoMessage]
                 ELSE [h |-> n.h, index |-> i, msg |-> n.msg]

(* One read of each driver in ds; how much each returns is open. *)
PumpEach(h, ds) ==
    {FoldSet(LAMBDA d, g : Pump(g, d, k[d]), h, ds) :
        k \in {f \in [ds -> 0..Max({Len(h.link[d].out) : d \in ds} \cup {0})] :
                  \A d \in ds : f[d] \in Readable(h, d)}}

(***************************************************************************)
(* All that waitAnyNext may do: take what is queued; else, unless all is   *)
(* done, read and wait in its event loop, in which the exits of the        *)
(* processes in dead may be noticed, and take what has come.  It returns   *)
(* nothing when the time is up and none of them has ended.  Task::waitNext *)
(* is the case of one task.                                                *)
(***************************************************************************)
waitAnyNext(h, own, ts, dead) ==
    IF FirstReady(h, own, ts) # 0 \/ allDone(h, ts) THEN {Took(h, own, ts)}
    ELSE LET ds == {own[ts[i]] : i \in 1..Len(ts)}
             after(D) == PumpEach(FoldSet(LAMBDA d, g : NoticeExit(g, d), h, D), ds)
             outcomes(D) == {Took(g, own, ts) : g \in after(D)}
         IN  {o \in UNION {outcomes(D) : D \in SUBSET (dead \cap ds)} :
                 o.index # 0 \/ \A d \in dead \cap ds : ~isRunning(o.h, d)}
=============================================================================
