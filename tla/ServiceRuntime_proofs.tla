------------------------ MODULE ServiceRuntime_proofs -----------------------
(***************************************************************************)
(* Proofs about ServiceRuntime, for any drivers, any number of requests    *)
(* and events, and any size of the output buffer.                          *)
(***************************************************************************)
EXTENDS ServiceRuntime, SequenceTheorems, WellFoundedInduction, TLAPS

\* What is posted to the main thread of a driver: lines, and the end of input.
Line == [req : Requests, kind : Core!LineKinds]
Posted == Line \cup {Core!Eof}

CoreStates ==
    [alive : BOOLEAN, profile : {"oneshot", "keepalive"}, stdin : Seq(Line), closed : BOOLEAN,
     reading : BOOLEAN, posted : Seq(Posted), accept : BOOLEAN, stop : BOOLEAN,
     quit : BOOLEAN, work : {NoRequest} \cup Requests, events : 0..MaxEvents]

(***************************************************************************)
(* How a keep-alive driver comes to its end: the reader stops only at the  *)
(* end of the input and posts Eof last; the main thread quits only when it *)
(* has taken that.                                                         *)
(***************************************************************************)
EndsInOrder(c) ==
    /\ c.stop => c.quit
    /\ c.quit => ~c.reading /\ c.posted = <<>>
    /\ ~c.reading => c.closed /\ c.stdin = <<>>
    /\ \A i \in DOMAIN c.posted : c.posted[i] = Core!Eof => i = Len(c.posted) /\ ~c.reading

Drains(c) == c.alive /\ c.profile = "keepalive" => EndsInOrder(c)

(* KeepAliveDrains with the way that leads to it; standard input is closed
   only when the service is gone, so that nothing is sent afterwards. *)
CoreInv ==
    /\ core \in [Drivers -> CoreStates]
    /\ \A d \in Drivers : Drains(core[d])
    /\ \A d \in Drivers : core[d].closed => service = "gone"

-----------------------------------------------------------------------------
(* A set of numbers that is not empty has a least one. *)
LEMMA LeastNumber ==
    ASSUME NEW S, S \subseteq Nat, S # {}
    PROVE  \E m \in S : \A n \in S : m <= n
  <1> DEFINE R == {p \in Nat \X Nat : p[1] < p[2]}
  <1>1. IsWellFoundedOn(R, Nat)
    BY NatLessThanWellFounded DEF OpToRel
  <1>2. PICK m \in S : \A n \in S : ~(<<n, m>> \in R)
    BY <1>1, WFMin
  <1>3. \A n \in S : m <= n
    <2> TAKE n \in S
    <2>1. <<n, m>> \notin R
      BY <1>2
    <2>2. ~(n < m)
      BY <2>1
    <2> QED  BY <2>2
  <1> QED  BY <1>3

(* The next request is one that has not been made. *)
LEMMA NextIsFree ==
    ASSUME Free # {}
    PROVE  NextRequest \in Free /\ NextRequest \in Requests
  <1>1. Free \subseteq Nat
    BY DEF Free, Requests
  <1>2. \E m \in Free : \A n \in Free : m <= n
    BY <1>1, LeastNumber
  <1> QED  BY <1>2 DEF NextRequest, Min, Free

(* The states of a process that starts, and of one that is over. *)
LEMMA FreshProcess ==
    /\ Core!NotStarted \in CoreStates /\ Drains(Core!NotStarted) /\ ~Core!NotStarted.closed
    /\ \A p \in {"oneshot", "keepalive"} :
         LET c == Core!Started(p) IN
         c \in CoreStates /\ Drains(c) /\ ~c.closed /\ c.stdin = <<>> /\ c.reading /\ c.alive
  <1>1. Core!NotStarted \in CoreStates
    BY RuntimeAssumption DEF Core!NotStarted, CoreStates, NoRequest
  <1>2. ASSUME NEW p \in {"oneshot", "keepalive"}
        PROVE  Core!Started(p) \in CoreStates
    BY <1>1, <1>2 DEF Core!Started, CoreStates
  <1> QED  BY <1>1, <1>2 DEF Core!Started, Core!NotStarted, Drains, EndsInOrder

-----------------------------------------------------------------------------
(* A step that changes one process. *)
LEMMA OneProcess ==
    ASSUME CoreInv, NEW d \in Drivers, NEW c \in CoreStates,
           core' = [core EXCEPT ![d] = c], service' = service,
           Drains(c), c.closed => service = "gone"
    PROVE  CoreInv'
  BY DEF CoreInv

(* A line joins what the process may still read. *)
LEMMA LineArrives ==
    ASSUME CoreInv, service = "up", NEW d \in Drivers, NEW line \in Line
    PROVE  LET c == [core[d] EXCEPT !.stdin = Append(@, line)] IN
           c \in CoreStates /\ Drains(c) /\ ~c.closed
  <1>1. core[d] \in CoreStates /\ Drains(core[d]) /\ ~core[d].closed
    BY DEF CoreInv
  <1>2. Append(core[d].stdin, line) \in Seq(Line)
    BY <1>1 DEF CoreStates
  <1>3. [core[d] EXCEPT !.stdin = Append(@, line)] \in CoreStates
    BY <1>1, <1>2 DEF CoreStates
  <1> QED  BY <1>1, <1>3 DEF CoreStates, Drains, EndsInOrder

(* The reader thread posts a line. *)
LEMMA ReadLineDrains ==
    ASSUME CoreInv, NEW d \in Drivers, Core!ReadLine(d), service' = service
    PROVE  CoreInv'
  <1> DEFINE a == core[d]
             c == [a EXCEPT !.stdin = Tail(@), !.posted = Append(@, Head(a.stdin))]
  <1>1. a \in CoreStates /\ Drains(a) /\ (a.closed => service = "gone")
    BY DEF CoreInv
  <1>2. a.stdin # <<>> /\ a.reading /\ ~a.stop /\ a.alive
    BY DEF Core!ReadLine, Core!Alive
  <1>3. Tail(a.stdin) \in Seq(Line) /\ Head(a.stdin) \in Line
    BY <1>1, <1>2, HeadTailProperties DEF CoreStates
  <1>4. /\ Append(a.posted, Head(a.stdin)) \in Seq(Posted)
        /\ Len(Append(a.posted, Head(a.stdin))) = Len(a.posted) + 1
        /\ \A i \in 1..Len(a.posted) : Append(a.posted, Head(a.stdin))[i] = a.posted[i]
        /\ Append(a.posted, Head(a.stdin))[Len(a.posted) + 1] = Head(a.stdin)
    BY <1>1, <1>3, AppendProperties DEF CoreStates, Posted
  <1>5. core' = [core EXCEPT ![d] = c]
    BY DEF Core!ReadLine, CoreInv
  <1>6. c \in CoreStates
    BY <1>1, <1>3, <1>4 DEF CoreStates
  <1>7. Head(a.stdin) # Core!Eof
    BY <1>3 DEF Line, Core!LineKinds, Core!Eof
  <1>8. c.posted = Append(a.posted, Head(a.stdin)) /\ c.reading = a.reading /\ c.stop = a.stop
        /\ c.quit = a.quit /\ c.profile = a.profile /\ c.alive = a.alive /\ c.closed = a.closed
    BY <1>1 DEF CoreStates
  <1>9. Drains(c)
    <2> SUFFICES ASSUME a.profile = "keepalive"
                 PROVE  EndsInOrder(c)
      BY <1>8 DEF Drains
    <2>1. EndsInOrder(a)
      BY <1>1, <1>2 DEF Drains
    <2>2. \A i \in 1..Len(a.posted) : a.posted[i] # Core!Eof
      <3>1. a.posted \in Seq(Posted)
        BY <1>1 DEF CoreStates
      <3> QED  BY <3>1, <2>1, <1>2 DEF EndsInOrder
    <2>3. \A i \in 1..(Len(a.posted) + 1) : Append(a.posted, Head(a.stdin))[i] # Core!Eof
      <3>1. Len(a.posted) \in Nat
        BY <1>1 DEF CoreStates
      <3> QED  BY <3>1, <2>2, <1>4, <1>7
    <2>4. \A i \in DOMAIN c.posted : c.posted[i] # Core!Eof
      BY <2>3, <1>4, <1>8
    <2> QED  BY <2>1, <2>4, <1>2, <1>8 DEF EndsInOrder
  <1> QED  BY <1>1, <1>5, <1>6, <1>8, <1>9, OneProcess

(* The reader thread posts the end of the input. *)
LEMMA ReaderEndsDrains ==
    ASSUME CoreInv, NEW d \in Drivers, Core!ReaderEnds(d), service' = service
    PROVE  CoreInv'
  <1> DEFINE a == core[d]
             q == Append(a.posted, Core!Eof)
             c == [a EXCEPT !.reading = FALSE, !.posted = q]
  <1>1. a \in CoreStates /\ Drains(a) /\ (a.closed => service = "gone")
    BY DEF CoreInv
  <1>2. a.reading /\ a.alive /\ (a.stop \/ (a.closed /\ a.stdin = <<>>))
    BY DEF Core!ReaderEnds, Core!Alive
  <1>3. /\ q \in Seq(Posted)
        /\ Len(q) = Len(a.posted) + 1 /\ Len(a.posted) \in Nat
        /\ \A i \in 1..Len(a.posted) : q[i] = a.posted[i]
    BY <1>1, AppendProperties DEF CoreStates, Posted
  <1>4. core' = [core EXCEPT ![d] = c]
    BY DEF Core!ReaderEnds, CoreInv
  <1>5. c \in CoreStates
    BY <1>1, <1>3 DEF CoreStates
  <1>6. c.posted = q /\ ~c.reading /\ c.stop = a.stop /\ c.stdin = a.stdin
        /\ c.quit = a.quit /\ c.profile = a.profile /\ c.alive = a.alive /\ c.closed = a.closed
    BY <1>1 DEF CoreStates
  <1>7. Drains(c)
    <2> SUFFICES ASSUME a.profile = "keepalive"
                 PROVE  EndsInOrder(c)
      BY <1>6 DEF Drains
    <2>1. EndsInOrder(a)
      BY <1>1, <1>2 DEF Drains
    <2>2. ~a.quit /\ ~a.stop
      BY <2>1, <1>2 DEF EndsInOrder
    <2>3. \A i \in 1..Len(a.posted) : a.posted[i] # Core!Eof
      <3>1. a.posted \in Seq(Posted)
        BY <1>1 DEF CoreStates
      <3> QED  BY <3>1, <2>1, <1>2 DEF EndsInOrder
    <2>4. \A i \in DOMAIN q : q[i] = Core!Eof => i = Len(q)
      <3>1. DOMAIN q = 1..Len(q)
        BY <1>3
      <3> HIDE DEF a, q
      <3> QED  BY <3>1, <2>3, <1>3
    <2> QED  BY <2>2, <2>4, <1>2, <1>6 DEF EndsInOrder
  <1> QED  BY <1>1, <1>4, <1>5, <1>6, <1>7, OneProcess

(* A line is over: a one-shot driver quits, which says nothing of a keep-alive one. *)
LEMMA LineDoneDrains ==
    ASSUME NEW a \in CoreStates, Drains(a)
    PROVE  /\ Core!LineDone(a) \in CoreStates
           /\ Drains(Core!LineDone(a))
           /\ Core!LineDone(a).closed = a.closed
  <1>1. CASE a.profile = "oneshot"
    <2> DEFINE c == [a EXCEPT !.work = 0, !.accept = FALSE, !.stop = TRUE, !.quit = TRUE]
    <2>1. Core!LineDone(a) = c
      BY <1>1 DEF Core!LineDone
    <2>2. c \in CoreStates /\ c.profile = "oneshot" /\ c.closed = a.closed
      BY <1>1 DEF CoreStates, NoRequest
    <2> QED  BY <2>1, <2>2 DEF Drains
  <1>2. CASE a.profile # "oneshot"
    <2> DEFINE c == [a EXCEPT !.work = 0]
    <2>1. Core!LineDone(a) = c
      BY <1>2 DEF Core!LineDone
    <2>2. c \in CoreStates
      BY DEF CoreStates, NoRequest
    <2>3. /\ c.stop = a.stop /\ c.quit = a.quit /\ c.reading = a.reading /\ c.posted = a.posted
          /\ c.closed = a.closed /\ c.stdin = a.stdin /\ c.alive = a.alive
          /\ c.profile = a.profile
      BY DEF CoreStates
    <2> QED  BY <2>1, <2>2, <2>3 DEF Drains, EndsInOrder
  <1> QED  BY <1>1, <1>2

(* Taking what was posted first leaves the rest in order. *)
LEMMA TakePosted ==
    ASSUME NEW a \in CoreStates, Drains(a), a.posted # <<>>, a.alive, ~a.quit
    PROVE  LET c == [a EXCEPT !.posted = Tail(@)] IN
           /\ c \in CoreStates /\ Drains(c) /\ c.closed = a.closed
           /\ Head(a.posted) \in Posted
           /\ a.profile = "keepalive" /\ Head(a.posted) = Core!Eof
                => ~c.reading /\ c.posted = <<>>
  <1> DEFINE q == Tail(a.posted)
             c == [a EXCEPT !.posted = q]
  <1>1. a.posted \in Seq(Posted)
    BY DEF CoreStates
  <1>2. /\ q \in Seq(Posted) /\ Head(a.posted) \in Posted /\ Head(a.posted) = a.posted[1]
        /\ Len(q) = Len(a.posted) - 1 /\ Len(a.posted) \in Nat \ {0}
        /\ \A i \in 1..Len(q) : q[i] = a.posted[i + 1]
    BY <1>1, HeadTailProperties, EmptySeq, LenProperties
  <1>3. c \in CoreStates
    BY <1>2 DEF CoreStates
  <1>4. /\ c.stop = a.stop /\ c.quit = a.quit /\ c.reading = a.reading /\ c.posted = q
        /\ c.closed = a.closed /\ c.stdin = a.stdin /\ c.alive = a.alive /\ c.profile = a.profile
    BY DEF CoreStates
  <1>5. ASSUME a.profile = "keepalive"
        PROVE  /\ EndsInOrder(c)
               /\ Head(a.posted) = Core!Eof => ~c.reading /\ q = <<>>
    <2>1. EndsInOrder(a)
      BY <1>5 DEF Drains
    <2>2. DOMAIN a.posted = 1..Len(a.posted) /\ DOMAIN q = 1..Len(q)
      BY <1>1, <1>2
    <2>3. \A i \in DOMAIN q : q[i] = Core!Eof => i = Len(q) /\ ~a.reading
      <3>1. \A i \in 1..Len(a.posted) : a.posted[i] = Core!Eof => i = Len(a.posted) /\ ~a.reading
        BY <2>1, <2>2 DEF EndsInOrder
      <3> HIDE DEF q
      <3> QED  BY <3>1, <2>2, <1>2
    <2>4. Head(a.posted) = Core!Eof => ~a.reading /\ Len(q) = 0
      <3>0. 1 \in DOMAIN a.posted
        <4> HIDE DEF q
        <4> QED  BY <2>2, <1>2
      <3>1. a.posted[1] = Core!Eof => 1 = Len(a.posted) /\ ~a.reading
        BY <2>1, <3>0 DEF EndsInOrder
      <3> HIDE DEF q
      <3> QED  BY <3>1, <1>2
    <2>5. Len(q) = 0 => q = <<>>
      BY <1>2, EmptySeq
    <2>6. EndsInOrder(c)
      <3>1. a.stop => a.quit
        BY <2>1 DEF EndsInOrder
      <3>2. ~a.reading => a.closed /\ a.stdin = <<>>
        BY <2>1 DEF EndsInOrder
      <3> QED  BY <3>1, <3>2, <2>3, <1>4 DEF EndsInOrder
    <2> QED  BY <2>4, <2>5, <2>6, <1>4
  <1>6. Drains(c)
    BY <1>4, <1>5 DEF Drains
  <1> QED  BY <1>2, <1>3, <1>4, <1>5, <1>6

(* The main thread takes a line or the end of the input. *)
LEMMA HandlePostedDrains ==
    ASSUME CoreInv, NEW d \in Drivers, Core!HandlePosted(d), service' = service
    PROVE  CoreInv'
  <1> DEFINE a == core[d]
             rest == [a EXCEPT !.posted = Tail(@)]
             line == Head(a.posted)
  <1>1. a \in CoreStates /\ Drains(a) /\ (a.closed => service = "gone")
    BY DEF CoreInv
  <1>2. a.alive /\ ~a.quit /\ a.posted # <<>>
    BY DEF Core!HandlePosted, Core!Alive
  <1>3. /\ rest \in CoreStates /\ Drains(rest) /\ rest.closed = a.closed
        /\ line \in Posted
        /\ a.profile = "keepalive" /\ line = Core!Eof => ~rest.reading /\ rest.posted = <<>>
    BY <1>1, <1>2, TakePosted
  <1>4. ASSUME NEW c \in CoreStates, Drains(c), c.closed = rest.closed,
               core' = [core EXCEPT ![d] = c]
        PROVE  CoreInv'
    BY <1>1, <1>3, <1>4, OneProcess
  <1>5. ASSUME line = Core!Eof,
               core' = [core EXCEPT ![d] = [rest EXCEPT !.stop = TRUE, !.quit = TRUE]]
        PROVE  CoreInv'
    <2> DEFINE c == [rest EXCEPT !.stop = TRUE, !.quit = TRUE]
    <2>0. rest.profile = a.profile
      BY <1>1 DEF CoreStates
    <2> HIDE DEF rest
    <2>1. c \in CoreStates
      BY <1>3 DEF CoreStates
    <2>2. c.stop /\ c.quit /\ c.reading = rest.reading /\ c.posted = rest.posted
          /\ c.closed = rest.closed /\ c.stdin = rest.stdin /\ c.alive = rest.alive
          /\ c.profile = rest.profile
      BY <1>3 DEF CoreStates
    <2>3. Drains(c)
      <3> SUFFICES ASSUME rest.profile = "keepalive", rest.alive
                   PROVE  EndsInOrder(c)
        BY <2>2 DEF Drains
      <3>1. EndsInOrder(rest) /\ ~rest.reading /\ rest.posted = <<>>
        BY <1>3, <1>5, <2>0 DEF Drains
      <3> QED  BY <3>1, <2>2 DEF EndsInOrder
    <2> HIDE DEF c
    <2> QED  BY <2>1, <2>2, <2>3, <1>4, <1>5 DEF c
  <1>6. ASSUME line # Core!Eof,
               core' = [core EXCEPT ![d] = [rest EXCEPT !.work = line.req, !.events = 0]]
        PROVE  CoreInv'
    <2> DEFINE c == [rest EXCEPT !.work = line.req, !.events = 0]
    <2>0. line.req \in Requests
      BY <1>3, <1>6 DEF Posted, Line
    <2> DEFINE req == line.req
    <2> HIDE DEF rest, line
    <2>1. c \in CoreStates
      <3>1. 0 \in 0..MaxEvents
        BY RuntimeAssumption
      <3>2. req \in {NoRequest} \cup Requests
        BY <2>0
      <3> HIDE DEF req
      <3>3. [rest EXCEPT !.work = req, !.events = 0] \in CoreStates
        BY <1>3, <3>1, <3>2 DEF CoreStates
      <3> QED  BY <3>3 DEF req
    <2>2. c.stop = rest.stop /\ c.quit = rest.quit /\ c.reading = rest.reading
          /\ c.posted = rest.posted /\ c.closed = rest.closed /\ c.stdin = rest.stdin
          /\ c.alive = rest.alive /\ c.profile = rest.profile
      BY <1>3 DEF CoreStates
    <2>3. Drains(c)
      BY <1>3, <2>2 DEF Drains, EndsInOrder
    <2> HIDE DEF c
    <2> QED  BY <2>1, <2>2, <2>3, <1>4, <1>6 DEF c
  <1>7. ASSUME core' = [core EXCEPT ![d] = Core!LineDone(rest)]
        PROVE  CoreInv'
    <2> HIDE DEF rest
    <2> QED  BY <1>3, <1>4, <1>7, LineDoneDrains
  <1>8. ASSUME core' = [core EXCEPT ![d] = rest]
        PROVE  CoreInv'
    BY <1>3, <1>4, <1>8
  <1>9. \/ line = Core!Eof /\ core' = [core EXCEPT ![d] = [rest EXCEPT !.stop = TRUE, !.quit = TRUE]]
        \/ core' = [core EXCEPT ![d] = rest]
        \/ core' = [core EXCEPT ![d] = Core!LineDone(rest)]
        \/ line.kind = "cmd"
             /\ core' = [core EXCEPT ![d] = [rest EXCEPT !.work = line.req, !.events = 0]]
    BY DEF Core!HandlePosted
  <1>10. line.kind = "cmd" => line # Core!Eof
    BY DEF Core!Eof
  <1> HIDE DEF rest, line
  <1> QED  BY <1>5, <1>6, <1>7, <1>8, <1>9, <1>10

(* A process is over, however it ended. *)
LEMMA ProcessOverDrains ==
    ASSUME CoreInv, NEW d \in Drivers, core' = [core EXCEPT ![d] = Core!NotStarted],
           service' = service
    PROVE  CoreInv'
  BY FreshProcess, OneProcess

(* The handler of a driver sends an event. *)
LEMMA HandlerEventDrains ==
    ASSUME CoreInv, NEW d \in Drivers, Core!HandlerEvent(d), service' = service
    PROVE  CoreInv'
  <1> DEFINE a == core[d]
             n == a.events + 1
             c == [a EXCEPT !.events = n]
  <1>1. a \in CoreStates /\ Drains(a) /\ (a.closed => service = "gone")
    BY DEF CoreInv
  <1>2. n \in 0..MaxEvents
    <2>1. a.events \in 0..MaxEvents
      BY <1>1 DEF CoreStates
    <2>2. a.events < MaxEvents
      BY DEF Core!HandlerEvent
    <2> HIDE DEF a
    <2> QED  BY <2>1, <2>2, RuntimeAssumption
  <1>3. core' = [core EXCEPT ![d] = c]
    BY DEF Core!HandlerEvent, CoreInv
  <1> HIDE DEF n
  <1>4. c \in CoreStates
    BY <1>1, <1>2 DEF CoreStates
  <1>5. /\ c.stop = a.stop /\ c.quit = a.quit /\ c.reading = a.reading /\ c.posted = a.posted
        /\ c.closed = a.closed /\ c.stdin = a.stdin /\ c.alive = a.alive /\ c.profile = a.profile
    BY <1>1 DEF CoreStates
  <1>6. Drains(c)
    BY <1>1, <1>5 DEF Drains, EndsInOrder
  <1> HIDE DEF c
  <1> QED  BY <1>1, <1>3, <1>4, <1>5, <1>6, OneProcess

(* The steps of the processes. *)
LEMMA ProcessStepDrains ==
    ASSUME CoreInv, NEW d \in Drivers, ProcessStep(d) \/ ProcessCrash(d)
    PROVE  CoreInv'
  <1>0. service' = service
    BY DEF ProcessStep, ProcessCrash
  <1>1. CASE Core!ReadLine(d)
    BY <1>0, <1>1, ReadLineDrains
  <1>2. CASE Core!ReaderEnds(d)
    BY <1>0, <1>2, ReaderEndsDrains
  <1>3. CASE Core!HandlePosted(d)
    BY <1>0, <1>3, HandlePostedDrains
  <1>4. CASE Core!HandlerEvent(d)
    BY <1>0, <1>4, HandlerEventDrains
  <1>5. CASE Core!HandlerAnswers(d)
    <2>1. core' = [core EXCEPT ![d] = Core!LineDone(core[d])]
      BY <1>5 DEF Core!HandlerAnswers
    <2>2. core[d] \in CoreStates /\ Drains(core[d]) /\ (core[d].closed => service = "gone")
      BY DEF CoreInv
    <2>3. /\ Core!LineDone(core[d]) \in CoreStates /\ Drains(Core!LineDone(core[d]))
          /\ Core!LineDone(core[d]).closed = core[d].closed
      BY <2>2, LineDoneDrains
    <2> QED  BY <1>0, <2>1, <2>2, <2>3, OneProcess
  <1>6. CASE Core!ProcessExits(d) \/ Core!ProcessCrashes(d) \/ Core!GuardLost(d, service = "up")
    <2>1. core' = [core EXCEPT ![d] = Core!NotStarted]
      BY <1>6 DEF Core!ProcessExits, Core!ProcessCrashes, Core!GuardLost
    <2> QED  BY <1>0, <2>1, ProcessOverDrains
  <1> QED  BY <1>1, <1>2, <1>3, <1>4, <1>5, <1>6 DEF ProcessStep, ProcessCrash

(* A request is sent to a process, if that lives. *)
LEMMA SendDrains ==
    ASSUME CoreInv, service = "up", service' = service, NEW d \in Drivers, NEW k,
           NEW lineKind \in Core!LineKinds, NEW r \in Requests, Send(d, k, lineKind, r)
    PROVE  CoreInv'
  <1> DEFINE line == [req |-> r, kind |-> lineKind]
             c == [core[d] EXCEPT !.stdin = Append(@, line)]
  <1>1. line \in Line
    BY DEF Line
  <1> HIDE DEF line
  <1>2. c \in CoreStates /\ Drains(c) /\ ~c.closed
    BY <1>1, LineArrives
  <1>3. core' = core \/ core' = [core EXCEPT ![d] = c]
    BY DEF Send, line, CoreInv
  <1> HIDE DEF c
  <1>4. CASE core' = core
    BY <1>4 DEF CoreInv
  <1>5. CASE core' = [core EXCEPT ![d] = c]
    BY <1>2, <1>5, OneProcess
  <1> QED  BY <1>3, <1>4, <1>5

(* openDriver starts a process with its first line in the pipe. *)
LEMMA OpenDriverDrains ==
    ASSUME CoreInv, NEW d \in Drivers, OpenDriver(d)
    PROVE  CoreInv'
  <1> DEFINE r == NextRequest
             line == [req |-> r, kind |-> "meta"]
             s == Core!Started("keepalive")
             c == [s EXCEPT !.stdin = <<line>>]
  <1>1. r \in Requests
    BY NextIsFree DEF OpenDriver
  <1>2. core' = [core EXCEPT ![d] = c] /\ service' = service
    BY DEF OpenDriver
  <1> HIDE DEF r
  <1>3. line \in Line
    BY <1>1 DEF Line, Core!LineKinds
  <1>4. s \in CoreStates /\ Drains(s) /\ ~s.closed /\ s.stdin = <<>> /\ s.reading /\ s.alive
    BY FreshProcess
  <1>5. /\ ~s.stop /\ ~s.quit /\ s.posted = <<>>
    BY DEF Core!Started, Core!NotStarted
  <1> HIDE DEF line, s
  <1>6. c \in CoreStates
    <2>1. <<line>> \in Seq(Line)
      BY <1>3
    <2> QED  BY <1>4, <2>1 DEF CoreStates
  <1>7. ~c.closed /\ c.reading /\ ~c.stop /\ ~c.quit /\ c.posted = <<>>
    BY <1>4, <1>5 DEF CoreStates
  <1> HIDE DEF c
  <1>8. Drains(c)
    BY <1>7 DEF Drains, EndsInOrder
  <1> QED  BY <1>2, <1>6, <1>7, <1>8, OneProcess

(* The end of the service closes the input of every process. *)
LEMMA ServiceEndsDrains ==
    ASSUME CoreInv, NEW k \in BOOLEAN, ServiceEnds(k)
    PROVE  CoreInv'
  <1>1. service' = "gone" /\ core' = [d \in Drivers |-> [core[d] EXCEPT !.closed = TRUE]]
    BY DEF ServiceEnds
  <1>2. ASSUME NEW d \in Drivers
        PROVE  core'[d] \in CoreStates /\ Drains(core'[d])
    <2> DEFINE a == core[d]
               c == [a EXCEPT !.closed = TRUE]
    <2>1. a \in CoreStates /\ Drains(a)
      BY DEF CoreInv
    <2>2. c \in CoreStates
      BY <2>1 DEF CoreStates
    <2>3. /\ c.stop = a.stop /\ c.quit = a.quit /\ c.reading = a.reading /\ c.posted = a.posted
          /\ c.closed /\ c.stdin = a.stdin /\ c.alive = a.alive /\ c.profile = a.profile
      BY <2>1 DEF CoreStates
    <2>4. Drains(c)
      BY <2>1, <2>3 DEF Drains, EndsInOrder
    <2> QED  BY <1>1, <2>2, <2>4
  <1> QED  BY <1>1, <1>2 DEF CoreInv

(* The way to the end holds in every step. *)
LEMMA DrainStep ==
    ASSUME CoreInv, [Next]_vars
    PROVE  CoreInv'
  <1>1. ASSUME NEW d \in Drivers, ProcessStep(d) \/ ProcessCrash(d)
        PROVE  CoreInv'
    BY <1>1, ProcessStepDrains
  <1>2. ASSUME core' = core, service' = service
        PROVE  CoreInv'
    BY <1>2 DEF CoreInv
  <1>3. ASSUME NEW h, NEW d, Terminated(h, d), service' = service
        PROVE  CoreInv'
    <2>1. core' = [core EXCEPT ![d] = Core!NotStarted]
      BY <1>3 DEF Terminated
    <2>2. CASE d \in Drivers
      BY <1>3, <2>1, <2>2, ProcessOverDrains
    <2>3. CASE d \notin Drivers
      <3>1. core' = core
        BY <2>1, <2>3 DEF CoreInv
      <3> QED  BY <1>2, <1>3, <3>1
    <2> QED  BY <2>2, <2>3
  <1>4. ASSUME NEW d \in Drivers, OpenDriver(d)
        PROVE  CoreInv'
    BY <1>4, OpenDriverDrains
  <1>5. ASSUME NEW d \in Drivers, NEW p \in {"oneshot", "keepalive"}, StartRaw(d, p)
        PROVE  CoreInv'
    BY <1>5, FreshProcess, OneProcess DEF StartRaw
  <1>6. ASSUME NEW d \in Drivers, NEW t \in BOOLEAN, NEW k \in {"invalid", "cmd"},
               ProxyCall(d, t, k)
        PROVE  CoreInv'
    <2>1. NextRequest \in Requests /\ service = "up" /\ service' = service
      BY <1>6, NextIsFree DEF ProxyCall, Running
    <2>2. k \in Core!LineKinds
      BY DEF Core!LineKinds
    <2> QED  BY <1>6, <2>1, <2>2, SendDrains DEF ProxyCall
  <1>7. ASSUME NEW d \in Drivers, RawRequest(d, "cmd")
        PROVE  CoreInv'
    <2>1. NextRequest \in Requests /\ service = "up" /\ service' = service
      BY <1>7, NextIsFree DEF RawRequest, Running
    <2>2. "cmd" \in Core!LineKinds
      BY DEF Core!LineKinds
    <2> QED  BY <1>7, <2>1, <2>2, SendDrains DEF RawRequest
  <1>8. ASSUME NEW d \in Drivers, Close(d)
        PROVE  CoreInv'
    BY <1>3, <1>8 DEF Close
  <1>9. ASSUME ScriptStep
        PROVE  CoreInv'
    <2>1. ASSUME NEW r, NEW t, RawWaitAny(r, t) \/ RawWaitNext(r) \/ RawTryNext(r)
          PROVE  CoreInv'
      BY <1>2, <2>1 DEF RawWaitAny, RawWaitNext, RawTryNext
    <2>2. ASSUME NEW d \in Drivers, OpenFails(d)
          PROVE  CoreInv'
      BY <1>2, <2>2 DEF OpenFails
    <2> QED  BY <1>4, <1>5, <1>6, <1>7, <1>8, <1>9, <2>1, <2>2 DEF ScriptStep
  <1>10. ASSUME NEW k \in BOOLEAN, ServiceEnds(k)
         PROVE  CoreInv'
    BY <1>10, ServiceEndsDrains
  <1>11. ASSUME vars' = vars \/ ProcessEvents \/ PollTasks \/ PollGroups \/ JobsDone
         PROVE  CoreInv'
    BY <1>2, <1>11 DEF vars, ProcessEvents, PollTasks, PollGroups, JobsDone
  <1>12. ASSUME SyncReturns
         PROVE  CoreInv'
    <2>1. service' = service
      BY <1>12 DEF SyncReturns
    <2>2. core' = core \/ \E h : Terminated(h, call[sync].drv)
      BY <1>12 DEF SyncReturns
    <2> QED  BY <1>2, <1>3, <2>1, <2>2
  <1>13. ASSUME RunJob
         PROVE  CoreInv'
    <2>1. service' = service
      BY <1>13 DEF RunJob
    <2>2. core' = core \/ Terminated(Host, call[Head(jobs).req].drv)
      BY <1>13 DEF RunJob
    <2> QED  BY <1>2, <1>3, <2>1, <2>2
  <1> QED  BY <1>1, <1>9, <1>10, <1>11, <1>12, <1>13 DEF Next, LoopStep

(***************************************************************************)
(* A keep-alive driver whose input ends has carried out every request it   *)
(* was sent when it quits, for any number of requests in the pipe, however *)
(* the reader thread and the main thread take turns (driver_core.cpp).     *)
(***************************************************************************)
THEOREM InputIsDrained == Spec => []KeepAliveDrains
  <1>1. Init => CoreInv
    BY FreshProcess DEF Init, Core!CoreInit, CoreInv
  <1>2. CoreInv /\ [Next]_vars => CoreInv'
    BY DrainStep
  <1>3. CoreInv => KeepAliveDrains
    BY DEF CoreInv, Drains, EndsInOrder, KeepAliveDrains
  <1> QED  BY <1>1, <1>2, <1>3, PTL DEF Spec
=============================================================================
