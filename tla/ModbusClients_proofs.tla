------------------------- MODULE ModbusClients_proofs -------------------------
(***************************************************************************)
(* Proofs about the drivers that are Modbus clients (ModbusMaster,         *)
(* PlcCrane, AnalogOutput, LimacoRadar) as drivers of DeviceDrivers: for   *)
(* any bounds on the commands and on what is late on the line, any range   *)
(* of transaction numbers, any size of the address space and any number of *)
(* channels.                                                               *)
(*                                                                         *)
(* What a client says is true for one of two reasons.  Over TCP a request  *)
(* has a number and what is late has an earlier one, as long as there are  *)
(* no more commands than numbers.  On a serial line an answer has none,    *)
(* and what is told is true when nothing was late.  The byte orders, the   *)
(* layouts of the radars and the codes of the analog module's parameters   *)
(* take a value to registers and back unchanged.                           *)
(***************************************************************************)
EXTENDS DeviceDrivers, SequenceTheorems, TLAPS

-----------------------------------------------------------------------------
(***************************************************************************)
(* Sequences without a type, and what an exchange leaves on a line.  The   *)
(* servers and the scanners rest on the same facts: they are proved here   *)
(* again because a module that extends those proofs carries all of them in *)
(* every obligation, and takes the prover half as long again.              *)
(***************************************************************************)

Elements(s) == {s[i] : i \in DOMAIN s}
IsSeq(s) == s \in Seq(Elements(s))

(* A sequence over any set is one over its own elements. *)
LEMMA SeqIsSeq == ASSUME NEW S, NEW s \in Seq(S) PROVE IsSeq(s)
  <1>1. \A i \in 1..Len(s) : s[i] \in Elements(s)
    BY DEF Elements
  <1>2. Len(s) \in Nat /\ s = [i \in 1..Len(s) |-> s[i]]
    OBVIOUS
  <1> QED  BY <1>1, <1>2, IsASeq DEF IsSeq

(* Concatenation. *)
LEMMA ConcatAny ==
    ASSUME NEW s, IsSeq(s), NEW t, IsSeq(t)
    PROVE  /\ IsSeq(s \o t) /\ Len(s) \in Nat /\ Len(t) \in Nat
           /\ Len(s \o t) = Len(s) + Len(t)
           /\ \A i \in 1..Len(s) : (s \o t)[i] = s[i]
           /\ \A i \in 1..Len(t) : (s \o t)[Len(s) + i] = t[i]
  <1> DEFINE S == Elements(s) \cup Elements(t)
  <1>1. s \in Seq(Elements(s)) /\ t \in Seq(Elements(t))
    BY DEF IsSeq
  <1> HIDE DEF IsSeq
  <1>2. s \in Seq(S) /\ t \in Seq(S)
    BY <1>1, SeqMonotonic
  <1> HIDE DEF S
  <1>3. s \o t \in Seq(S) /\ Len(s \o t) = Len(s) + Len(t) /\ Len(s) \in Nat /\ Len(t) \in Nat
    BY <1>2
  <1>4. \A i \in 1..Len(s) : (s \o t)[i] = s[i]
    BY <1>2, <1>3
  <1>5. \A i \in 1..Len(t) : (s \o t)[Len(s) + i] = t[i]
    BY <1>2, <1>3
  <1> QED  BY <1>3, <1>4, <1>5, SeqIsSeq

(* Subsequences. *)
LEMMA SubAny ==
    ASSUME NEW s, IsSeq(s), NEW m \in 1..(Len(s) + 1), NEW n \in (m - 1)..Len(s)
    PROVE  /\ IsSeq(SubSeq(s, m, n))
           /\ Len(SubSeq(s, m, n)) = n - m + 1
           /\ \A i \in 1..(n - m + 1) : SubSeq(s, m, n)[i] = s[m + i - 1]
  <1> DEFINE S == Elements(s)
  <1>1. s \in Seq(S) /\ Len(s) \in Nat
    BY DEF IsSeq
  <1> HIDE DEF S
  <1>2. \A i \in m..n : s[i] \in S
    BY <1>1
  <1>3. SubSeq(s, m, n) \in Seq(S) /\ Len(SubSeq(s, m, n)) = n - m + 1
    BY <1>1, <1>2
  <1>4. \A i \in 1..(n - m + 1) : SubSeq(s, m, n)[i] = s[m + i - 1]
    BY <1>1, <1>3
  <1> QED  BY <1>3, <1>4, SeqIsSeq

(* Sequences of none, one and two. *)
LEMMA SmallSeqs ==
    /\ IsSeq(<<>>) /\ Len(<<>>) = 0
    /\ \A x : IsSeq(<<x>>) /\ Len(<<x>>) = 1 /\ <<x>>[1] = x
    /\ \A x, y : IsSeq(<<x, y>>) /\ Len(<<x, y>>) = 2 /\ <<x, y>>[1] = x /\ <<x, y>>[2] = y
  <1>1. <<>> \in Seq({})
    OBVIOUS
  <1>2. ASSUME NEW x PROVE <<x>> \in Seq({x})
    OBVIOUS
  <1>3. ASSUME NEW x, NEW y PROVE <<x, y>> \in Seq({x, y})
    OBVIOUS
  <1> QED  BY <1>1, <1>2, <1>3, SeqIsSeq

Line == INSTANCE DeviceLine

(* A read takes a frame of the line, or finds one damaged or none. *)
LEMMA ReadsAny ==
    ASSUME NEW line, IsSeq(line), NEW r \in Line!Reads(line)
    PROVE  /\ IsSeq(r.line) /\ Len(r.line) \in Nat /\ Len(line) \in Nat /\ Len(r.line) <= Len(line)
           /\ Elements(r.line) \subseteq Elements(line)
           /\ r.got \in Elements(line) \cup {Line!NoFrame, Line!BadFrame}
           /\ r.got # Line!NoFrame => Len(r.line) < Len(line)
  <1>1. Len(line) \in Nat /\ line \in Seq(Elements(line))
    BY DEF IsSeq
  <1>2. CASE r = [line |-> line, got |-> Line!NoFrame, taken |-> 0]
    <2>1. r.line = line /\ r.got = Line!NoFrame
      BY <1>2
    <2> QED  BY <1>1, <2>1
  <1>3. CASE r # [line |-> line, got |-> Line!NoFrame, taken |-> 0]
    <2>1. PICK k \in 1..Len(line), f \in {line[i] : i \in {1} \cap DOMAIN line} \cup {Line!BadFrame} :
             r = [line |-> SubSeq(line, k + 1, Len(line)), got |-> f, taken |-> k]
      BY <1>3 DEF Line!Reads
    <2>2. r.line = SubSeq(line, k + 1, Len(line)) /\ r.got = f
      BY <2>1
    <2>3. f \in Elements(line) \cup {Line!BadFrame}
      BY <2>1 DEF Elements
    <2>4. k + 1 \in 1..(Len(line) + 1) /\ Len(line) \in (k + 1 - 1)..Len(line) /\ k \in Nat
      BY <1>1
    <2>5. /\ IsSeq(r.line) /\ Len(r.line) = Len(line) - (k + 1) + 1
          /\ \A i \in 1..(Len(line) - (k + 1) + 1) : r.line[i] = line[(k + 1) + i - 1]
      <3> HIDE DEF IsSeq
      <3> QED  BY <2>2, <2>4, SubAny
    <2>6. Len(r.line) = Len(line) - k /\ \A i \in 1..(Len(line) - k) : r.line[i] = line[k + i]
      BY <1>1, <2>4, <2>5
    <2>7. Elements(r.line) \subseteq Elements(line)
      <3>1. SUFFICES ASSUME NEW i \in DOMAIN r.line PROVE \E j \in DOMAIN line : r.line[i] = line[j]
        BY DEF Elements
      <3>2. i \in 1..(Len(line) - k) /\ DOMAIN line = 1..Len(line)
        BY <1>1, <2>5, <2>6 DEF IsSeq
      <3>3. k + i \in 1..Len(line)
        BY <1>1, <2>4, <3>2
      <3> QED  BY <2>6, <3>2, <3>3
    <2> QED  BY <1>1, <2>2, <2>3, <2>4, <2>5, <2>6, <2>7
  <1> QED  BY <1>2, <1>3

(* Draining leaves an end of the line. *)
LEMMA DrainedAny ==
    ASSUME NEW line, IsSeq(line), NEW l \in Line!Drained(line)
    PROVE  /\ IsSeq(l) /\ Len(l) \in Nat /\ Len(line) \in Nat /\ Len(l) <= Len(line)
           /\ Elements(l) \subseteq Elements(line)
  <1>1. Len(line) \in Nat /\ line \in Seq(Elements(line))
    BY DEF IsSeq
  <1>2. PICK k \in 0..Len(line) : l = SubSeq(line, k + 1, Len(line))
    BY DEF Line!Drained
  <1>4. k + 1 \in 1..(Len(line) + 1) /\ Len(line) \in (k + 1 - 1)..Len(line) /\ k \in Nat
    BY <1>1
  <1>5. /\ IsSeq(l) /\ Len(l) = Len(line) - (k + 1) + 1
        /\ \A i \in 1..(Len(line) - (k + 1) + 1) : l[i] = line[(k + 1) + i - 1]
    BY <1>2, <1>4, SubAny
  <1>6. Len(l) = Len(line) - k /\ \A i \in 1..(Len(line) - k) : l[i] = line[k + i]
    BY <1>1, <1>4, <1>5
  <1>7. Elements(l) \subseteq Elements(line)
    <2>1. SUFFICES ASSUME NEW i \in DOMAIN l PROVE \E j \in DOMAIN line : l[i] = line[j]
      BY DEF Elements
    <2>2. i \in 1..(Len(line) - k) /\ DOMAIN line = 1..Len(line)
      BY <1>1, <1>5, <1>6 DEF IsSeq
    <2>3. k + i \in 1..Len(line)
      BY <1>1, <1>4, <2>2
    <2> QED  BY <1>6, <2>2, <2>3
  <1> QED  BY <1>1, <1>4, <1>5, <1>6, <1>7

(* Nothing is the only sequence of length 0. *)
LEMMA NoElements ==
    ASSUME NEW s, IsSeq(s), Len(s) = 0
    PROVE  s = <<>>
  BY DEF IsSeq

(* What the device sends comes behind what is on the line. *)
LEMMA AnswerElements ==
    ASSUME NEW line, IsSeq(line), NEW f
    PROVE  /\ IsSeq(line \o <<f>>) /\ Len(line \o <<f>>) = Len(line) + 1 /\ Len(line) \in Nat
           /\ Elements(line \o <<f>>) \subseteq Elements(line) \cup {f}
  <1>1. IsSeq(<<f>>) /\ Len(<<f>>) = 1 /\ <<f>>[1] = f
    BY SmallSeqs
  <1>2. /\ IsSeq(line \o <<f>>) /\ Len(line) \in Nat /\ Len(line \o <<f>>) = Len(line) + Len(<<f>>)
        /\ \A i \in 1..Len(line) : (line \o <<f>>)[i] = line[i]
        /\ \A i \in 1..Len(<<f>>) : (line \o <<f>>)[Len(line) + i] = <<f>>[i]
    BY <1>1, ConcatAny
  <1>3. PICK l, n : l = line \o <<f>> /\ n = Len(line)
    OBVIOUS
  <1>4. n \in Nat /\ Len(l) = n + 1 /\ \A i \in 1..n : l[i] = line[i]
    BY <1>1, <1>2, <1>3
  <1>5. l[n + 1] = f
    BY <1>1, <1>2, <1>3
  <1>6. DOMAIN l = 1..(n + 1) /\ DOMAIN line = 1..n
    BY <1>2, <1>3, <1>4 DEF IsSeq
  <1>7. \A i \in 1..(n + 1) : i \in 1..n \/ i = n + 1
    BY <1>4
  <1>8. Elements(l) \subseteq Elements(line) \cup {f}
    BY <1>4, <1>5, <1>6, <1>7 DEF Elements
  <1> QED  BY <1>2, <1>3, <1>4, <1>8

(* An exchange in which the device answers. *)
LEMMA ExchangeAny ==
    ASSUME NEW line, IsSeq(line), NEW f, NEW o \in Line!Exchange(line, <<f>>)
    PROVE  /\ IsSeq(o.line) /\ Len(o.line) \in Nat /\ Len(o.line) <= MaxLate
           /\ Elements(o.line) \subseteq Elements(line) \cup {f}
           /\ o.got \in Elements(line) \cup {f, Line!NoFrame, Line!BadFrame}
           /\ o.got # Line!NoFrame /\ line = <<>> => o.line = <<>>
  <1>1. PICK l : /\ l = line \/ l = line \o <<f>>
                 /\ Len(l) <= MaxLate /\ o \in Line!Reads(l)
    BY DEF Line!Exchange
  <1>2. /\ IsSeq(l) /\ Len(l) \in Nat /\ Len(line) \in Nat /\ Len(l) <= Len(line) + 1
        /\ Elements(l) \subseteq Elements(line) \cup {f}
    <2>1. Len(line) \in Nat
      BY DEF IsSeq
    <2>2. CASE l = line
      BY <2>1, <2>2
    <2>3. CASE l = line \o <<f>>
      <3>1. /\ IsSeq(line \o <<f>>) /\ Len(line \o <<f>>) = Len(line) + 1
            /\ Elements(line \o <<f>>) \subseteq Elements(line) \cup {f}
        BY AnswerElements
      <3>2. Len(l) = Len(line) + 1 /\ IsSeq(l) /\ Elements(l) \subseteq Elements(line) \cup {f}
        BY ONLY <2>3, <3>1
      <3> QED  BY ONLY <2>1, <3>2
    <2> QED  BY <1>1, <2>2, <2>3
  <1>3. /\ IsSeq(o.line) /\ Len(o.line) \in Nat /\ Len(o.line) <= Len(l)
        /\ Elements(o.line) \subseteq Elements(l)
        /\ o.got \in Elements(l) \cup {Line!NoFrame, Line!BadFrame}
        /\ o.got # Line!NoFrame => Len(o.line) < Len(l)
    BY <1>1, <1>2, ReadsAny
  <1>4. o.got # Line!NoFrame /\ line = <<>> => o.line = <<>>
    <2> SUFFICES ASSUME o.got # Line!NoFrame, line = <<>> PROVE o.line = <<>>
      OBVIOUS
    <2>1. Len(line) = 0
      OBVIOUS
    <2>2. Len(o.line) = 0
      BY ONLY <1>2, <1>3, <2>1, o.got # Line!NoFrame
    <2> QED  BY <1>3, <2>2, NoElements
  <1>5. Len(o.line) <= MaxLate
    <2>1. MaxLate \in Nat
      BY DevicesAssumption
    <2> QED  BY ONLY <1>1, <1>2, <1>3, <2>1
  <1> QED  BY <1>2, <1>3, <1>4, <1>5

(* An exchange in which it does not. *)
LEMMA LostAny ==
    ASSUME NEW line, IsSeq(line), NEW o \in Line!Exchange(line, <<>>)
    PROVE  /\ IsSeq(o.line) /\ Len(o.line) \in Nat /\ Len(o.line) <= MaxLate
           /\ Elements(o.line) \subseteq Elements(line)
           /\ o.got \in Elements(line) \cup {Line!NoFrame, Line!BadFrame}
           /\ o.got # Line!NoFrame /\ line = <<>> => o.line = <<>>
  <1>1. PICK l : /\ l = line \/ l = line \o <<>>
                 /\ Len(l) <= MaxLate /\ o \in Line!Reads(l)
    BY DEF Line!Exchange
  <1>2. IsSeq(l) /\ Len(l) \in Nat /\ l = line
    BY <1>1 DEF IsSeq
  <1>3. /\ IsSeq(o.line) /\ Len(o.line) \in Nat /\ Len(o.line) <= Len(l)
        /\ Elements(o.line) \subseteq Elements(l)
        /\ o.got \in Elements(l) \cup {Line!NoFrame, Line!BadFrame}
        /\ o.got # Line!NoFrame => Len(o.line) < Len(l)
    BY <1>1, <1>2, ReadsAny
  <1>4. o.got # Line!NoFrame /\ line = <<>> => o.line = <<>>
    <2> SUFFICES ASSUME o.got # Line!NoFrame, line = <<>> PROVE o.line = <<>>
      OBVIOUS
    <2>1. Len(l) = 0
      BY <1>2
    <2>2. Len(o.line) = 0
      BY ONLY <1>2, <1>3, <2>1, o.got # Line!NoFrame
    <2> QED  BY <1>3, <2>2, NoElements
  <1>5. Len(o.line) <= MaxLate
    <2>1. MaxLate \in Nat
      BY DevicesAssumption
    <2> QED  BY ONLY <1>1, <1>2, <1>3, <2>1
  <1> QED  BY <1>2, <1>3, <1>4, <1>5

-----------------------------------------------------------------------------
(***************************************************************************)
(* One request of a client.  The four drivers make the same requests       *)
(* (the lemmas ...Requests say so), so they are treated once, as those of  *)
(* an instance of ModbusClients.                                           *)
(***************************************************************************)
Clients == INSTANCE ModbusClients

LEMMA ClientsSlave ==
    \A d, q : /\ Master!Slave(d, q) = Clients!Slave(d, q) /\ Crane!Slave(d, q) = Clients!Slave(d, q)
              /\ Analog!Slave(d, q) = Clients!Slave(d, q) /\ Limaco!Slave(d, q) = Clients!Slave(d, q)
  BY DEF Master!Slave, Crane!Slave, Analog!Slave, Limaco!Slave, Clients!Slave,
     Master!Exception, Crane!Exception, Analog!Exception, Limaco!Exception, Clients!Exception,
     Master!Area, Crane!Area, Analog!Area, Limaco!Area, Clients!Area,
     Master!IsRead, Crane!IsRead, Analog!IsRead, Limaco!IsRead, Clients!IsRead

LEMMA MasterRequests == \A q : Master!Request(q) = Clients!Request(q)
  BY DEF Master!Request, Clients!Request, Master!tcpSendRequest, Clients!tcpSendRequest, 
     Master!rtuRead, Clients!rtuRead, Master!rtuWrite, Clients!rtuWrite,
     Master!serialSendRequest, Clients!serialSendRequest, Master!Way, Clients!Way,
     Master!tcpAccepts, Clients!tcpAccepts, Master!IsReply, Clients!IsReply,
     Master!rtuFails, Clients!rtuFails, Master!serialParseResponse, Clients!serialParseResponse, 
     Master!Misread, Clients!Misread, Master!Outcomes, Clients!Outcomes,
     Master!Drained, Clients!Drained, Master!Exchange, Clients!Exchange, Master!Reads, Clients!Reads,
     Master!NoFrame, Clients!NoFrame, Master!BadFrame, Clients!BadFrame,
     Master!Slave, Clients!Slave, Master!Exception, Clients!Exception,
     Master!Area, Clients!Area, Master!IsRead, Clients!IsRead

LEMMA ClientsArea == \A fc : Clients!Area(fc) = Master!Area(fc) /\ Clients!IsRead(fc) = Master!IsRead(fc)
  BY DEF Master!IsRead, Clients!IsRead, Master!Area, Clients!Area

Networked == {"tcp", "crane"}
ClientKinds == {"tcp", "rtu", "serial", "crane", "analog"}
ClientAreas == {"coil", "discrete", "holding", "input"}
FunctionCodes == {1, 2, 3, 4, 5, 6, 15, 16}

\* The number a request goes with, and the reply to it.
ClientTag == IF ctl.kind \in Networked THEN ctl.tx ELSE 0
ClientReply(q) ==
    [frame |-> "reply", tag |-> ClientTag, fc |-> Clients!Slave(dev, q).re.fc,
     p |-> Clients!Slave(dev, q).re.p]

LEMMA ClientsLine ==
    /\ Clients!Quiet = <<>> /\ Clients!NoFrame = Line!NoFrame /\ Clients!BadFrame = Line!BadFrame
    /\ \A l, s : Clients!Exchange(l, s) = Line!Exchange(l, s)
    /\ \A l : Clients!Drained(l) = Line!Drained(l)
  BY DEF Clients!Quiet, Clients!NoFrame, Line!NoFrame, Clients!BadFrame, Line!BadFrame,
     Clients!Exchange, Line!Exchange, Clients!Reads, Line!Reads, Clients!Drained, Line!Drained

LEMMA ClientsOutcome ==
    ASSUME NEW line, IsSeq(line), NEW q, NEW o \in Clients!Outcomes(line, q, ClientTag)
    PROVE  /\ IsSeq(o.line) /\ Len(o.line) \in Nat /\ Len(o.line) <= MaxLate
           /\ Elements(o.line) \subseteq Elements(line) \cup {ClientReply(q)}
           /\ o.d \in {dev, Clients!Slave(dev, q).d}
           /\ \/ o.got \in Elements(line) \cup {Line!NoFrame, Line!BadFrame}
              \/ o.got = ClientReply(q) /\ o.d = Clients!Slave(dev, q).d
  <1> DEFINE s == Clients!Slave(dev, q)
  <1>0. PICK x \in {[d |-> dev, r |-> <<>>], [d |-> s.d, r |-> <<ClientReply(q)>>]} :
             \E e \in Clients!Exchange(line, x.r) :
                o = [d |-> x.d, line |-> e.line, got |-> e.got, taken |-> e.taken]
    BY DEF Clients!Outcomes, ClientReply
  <1>1. PICK e \in Clients!Exchange(line, x.r) :
             o = [d |-> x.d, line |-> e.line, got |-> e.got, taken |-> e.taken]
    BY <1>0
  <1>2. /\ o.d = x.d /\ o.line = e.line /\ o.got = e.got
    BY <1>1
  <1> HIDE DEF s
  <1>3. CASE x = [d |-> dev, r |-> <<>>]
    <2>1. x.d = dev /\ x.r = <<>>
      BY <1>3
    <2>2. e \in Line!Exchange(line, <<>>)
      BY <1>1, <2>1, ClientsLine
    <2>3. /\ IsSeq(e.line) /\ Len(e.line) \in Nat /\ Len(e.line) <= MaxLate
          /\ Elements(e.line) \subseteq Elements(line)
          /\ e.got \in Elements(line) \cup {Line!NoFrame, Line!BadFrame}
      BY <2>2, LostAny
    <2> QED  BY <1>2, <2>1, <2>3
  <1>4. CASE x = [d |-> s.d, r |-> <<ClientReply(q)>>]
    <2>1. x.d = s.d /\ x.r = <<ClientReply(q)>>
      BY <1>4
    <2>2. e \in Line!Exchange(line, <<ClientReply(q)>>)
      BY <1>1, <2>1, ClientsLine
    <2>3. /\ IsSeq(e.line) /\ Len(e.line) \in Nat /\ Len(e.line) <= MaxLate
          /\ Elements(e.line) \subseteq Elements(line) \cup {ClientReply(q)}
          /\ e.got \in Elements(line) \cup {ClientReply(q), Line!NoFrame, Line!BadFrame}
      BY <2>2, ExchangeAny
    <2> QED  BY <1>2, <2>1, <2>3 DEF s
  <1> QED  BY <1>0, <1>3, <1>4

\* What the slave does with a request it accepts.
Accepted(d, q) ==
    /\ q.addr..(q.addr + q.n - 1) \subseteq DOMAIN d[Clients!Area(q.fc)]
    /\ Clients!IsRead(q.fc) =>
          /\ Clients!Slave(d, q).d = d
          /\ Clients!Slave(d, q).re.p = [i \in 1..q.n |-> d[Clients!Area(q.fc)][q.addr + i - 1]]
    /\ ~Clients!IsRead(q.fc) =>
          Clients!Slave(d, q).d =
             [d EXCEPT ![Clients!Area(q.fc)] =
                 [a \in DOMAIN @ |-> IF a \in q.addr..(q.addr + q.n - 1)
                                     THEN q.p[a - q.addr + 1] ELSE @[a]]]

LEMMA SlaveAccepts ==
    ASSUME NEW d, NEW q, q.fc \in FunctionCodes, q.addr \in Nat, q.n \in Nat,
           Clients!Slave(d, q).re.fc = q.fc
    PROVE  Accepted(d, q)
  <1> DEFINE A == Clients!Area(q.fc)
  <1>1. q.addr..(q.addr + q.n - 1) \subseteq DOMAIN d[A]
    <2> SUFFICES ASSUME ~(q.addr..(q.addr + q.n - 1) \subseteq DOMAIN d[A]) PROVE FALSE
      OBVIOUS
    <2>1. Clients!Slave(d, q) = [d |-> d, re |-> Clients!Exception(2)]
      BY DEF Clients!Slave
    <2>2. Clients!Slave(d, q).re.fc = 128
      BY <2>1 DEF Clients!Exception
    <2> QED  BY <2>2 DEF FunctionCodes
  <1> DEFINE held == [i \in 1..q.n |-> d[A][q.addr + i - 1]]
             put == [d EXCEPT ![A] = [a \in DOMAIN @ |-> IF a \in q.addr..(q.addr + q.n - 1)
                                                         THEN q.p[a - q.addr + 1] ELSE @[a]]]
             reply == <<<<q.addr>>, <<q.n>>>>
  <1>2. ASSUME Clients!IsRead(q.fc)
        PROVE  Clients!Slave(d, q) = [d |-> d, re |-> [fc |-> q.fc, p |-> held]]
    BY <1>1, <1>2 DEF Clients!Slave
  <1>3. ASSUME ~Clients!IsRead(q.fc)
        PROVE  Clients!Slave(d, q) = [d |-> put, re |-> [fc |-> q.fc, p |-> reply]]
    BY <1>1, <1>3 DEF Clients!Slave
  <1>4. \A x, y : [d |-> d, re |-> [fc |-> x, p |-> y]].d = d
                  /\ [d |-> d, re |-> [fc |-> x, p |-> y]].re.p = y
    OBVIOUS
  <1>5. \A w, x, y : [d |-> w, re |-> [fc |-> x, p |-> y]].d = w
    OBVIOUS
  <1>6. Clients!IsRead(q.fc) => Clients!Slave(d, q).d = d /\ Clients!Slave(d, q).re.p = held
    <2> HIDE DEF held
    <2> QED  BY <1>2, <1>4
  <1>7. ~Clients!IsRead(q.fc) => Clients!Slave(d, q).d = put
    <2> HIDE DEF put, reply
    <2> QED  BY <1>3, <1>5
  <1> QED  BY <1>1, <1>6, <1>7 DEF Accepted

(* A slave answers a request with its function code or an exception. *)
LEMMA SlaveCodes ==
    \A d, q : Clients!Slave(d, q).re.fc \in {q.fc, 128}
  BY DEF Clients!Slave, Clients!Exception

\* An outcome o of a request, for a client that found the frames of line.
ClientWay(q, line, o, r) ==
    /\ IsSeq(line) /\ Elements(line) \subseteq Elements(wire)
    /\ wire = <<>> => line = <<>>
    /\ o \in Clients!Outcomes(line, q, ClientTag)
    /\ r.d = o.d /\ r.line = o.line

LEMMA TcpWays ==
    ASSUME IsSeq(wire), ctl.kind \in Networked, NEW q, NEW r \in Clients!Request(q)
    PROVE  /\ r.tx = (ctl.tx + 1) % TxIds
           /\ \E o : /\ ClientWay(q, wire, o, r)
                     /\ r.ok => "p" \in DOMAIN o.got /\ o.got.tag = ctl.tx /\ o.got.fc = q.fc /\ r.p = o.got.p
  <1>1. ClientTag = ctl.tx
    BY DEF ClientTag
  <1>2. Clients!Request(q) = Clients!tcpSendRequest(q)
    BY DEF Clients!Request, Networked
  <1>3. PICK o \in Clients!Outcomes(wire, q, ctl.tx) :
           r = [Clients!Way(o, Clients!tcpAccepts(q, o.got)) EXCEPT !.tx = (ctl.tx + 1) % TxIds]
    BY <1>2 DEF Clients!tcpSendRequest
  <1>4. PICK b : b = Clients!tcpAccepts(q, o.got)
    OBVIOUS
  <1>5. PICK t : t = (ctl.tx + 1) % TxIds
    OBVIOUS
  <1>6. /\ r.d = o.d /\ r.line = o.line /\ r.tx = t /\ r.ok = b
        /\ b => r.p = o.got.p
    BY <1>3, <1>4, <1>5 DEF Clients!Way
  <1>7. b => "p" \in DOMAIN o.got /\ o.got.tag = ctl.tx /\ o.got.fc = q.fc
    BY <1>4 DEF Clients!tcpAccepts, Clients!IsReply
  <1> QED  BY <1>1, <1>3, <1>5, <1>6, <1>7 DEF ClientWay

LEMMA RtuWays ==
    ASSUME IsSeq(wire), ctl.kind = "rtu", NEW q, NEW r \in Clients!Request(q)
    PROVE  /\ r.tx = ctl.tx
           /\ \E o : /\ ClientWay(q, wire, o, r)
                     /\ r.ok => /\ "p" \in DOMAIN o.got /\ o.got.fc # 128
                                /\ Clients!IsRead(q.fc) /\ Clients!IsRead(o.got.fc) => r.p = o.got.p
  <1>1. ClientTag = 0
    BY DEF ClientTag, Networked
  <1>2. Clients!Request(q) = IF Clients!IsRead(q.fc) THEN Clients!rtuRead(q) ELSE Clients!rtuWrite(q)
    BY DEF Clients!Request
  <1>3. CASE Clients!IsRead(q.fc)
    <2> DEFINE ways(o) ==
                   IF Clients!rtuFails(o) THEN {Clients!Way(o, FALSE)}
                   ELSE IF Clients!IsRead(o.got.fc) THEN {Clients!Way(o, TRUE)}
                   ELSE {Clients!Way(o, FALSE)}
                           \cup {[Clients!Way(o, TRUE) EXCEPT !.p = v] : v \in Clients!Misread}
    <2>0. r \in UNION {ways(o) : o \in Clients!Outcomes(wire, q, 0)}
      BY <1>2, <1>3 DEF Clients!rtuRead
    <2>1. PICK o \in Clients!Outcomes(wire, q, 0) : r \in ways(o)
      <3> HIDE DEF ways
      <3> QED  BY <2>0
    <2>2. r.d = o.d /\ r.line = o.line /\ r.tx = ctl.tx
      BY <2>1 DEF Clients!Way
    <2>3. r.ok => ~Clients!rtuFails(o) /\ (Clients!IsRead(o.got.fc) => r.p = o.got.p)
      BY <2>1 DEF Clients!Way
    <2>4. r.ok => "p" \in DOMAIN o.got /\ o.got.fc # 128
      BY <2>3 DEF Clients!rtuFails, Clients!IsReply
    <2> QED  BY <1>1, <2>1, <2>2, <2>3, <2>4 DEF ClientWay
  <1>4. CASE ~Clients!IsRead(q.fc)
    <2> DEFINE ways(o) ==
                   IF Clients!rtuFails(o) THEN {Clients!Way(o, FALSE)}
                   ELSE IF Clients!IsRead(o.got.fc)
                        THEN {Clients!Way(o, FALSE), [Clients!Way(o, TRUE) EXCEPT !.p = <<>>]}
                   ELSE {Clients!Way(o, TRUE)}
    <2>0. r \in UNION {ways(o) : o \in Clients!Outcomes(wire, q, 0)}
      BY <1>2, <1>4 DEF Clients!rtuWrite
    <2>1. PICK o \in Clients!Outcomes(wire, q, 0) : r \in ways(o)
      <3> HIDE DEF ways
      <3> QED  BY <2>0
    <2>2. r.d = o.d /\ r.line = o.line /\ r.tx = ctl.tx
      BY <2>1 DEF Clients!Way
    <2>3. r.ok => ~Clients!rtuFails(o)
      BY <2>1 DEF Clients!Way
    <2>4. r.ok => "p" \in DOMAIN o.got /\ o.got.fc # 128
      BY <2>3 DEF Clients!rtuFails, Clients!IsReply
    <2> QED  BY <1>1, <1>4, <2>1, <2>2, <2>4 DEF ClientWay
  <1> QED  BY <1>3, <1>4

LEMMA SerialWays ==
    ASSUME IsSeq(wire), ctl.kind \in {"serial", "analog"}, NEW q, NEW r \in Clients!Request(q)
    PROVE  /\ r.tx = ctl.tx
           /\ \E l, o : /\ ClientWay(q, l, o, r)
                        /\ r.ok => "p" \in DOMAIN o.got /\ o.got.fc = q.fc /\ r.p = o.got.p
  <1>1. ClientTag = 0
    BY DEF ClientTag, Networked
  <1>2. Clients!Request(q) = Clients!serialSendRequest(q)
    BY DEF Clients!Request
  <1>3. PICK l \in Line!Drained(wire) :
           \E o \in Clients!Outcomes(l, q, 0) : r = Clients!Way(o, Clients!serialParseResponse(q, o))
    BY <1>2, ClientsLine DEF Clients!serialSendRequest
  <1>4. PICK o \in Clients!Outcomes(l, q, 0) : r = Clients!Way(o, Clients!serialParseResponse(q, o))
    BY <1>3
  <1>5. PICK b : b = Clients!serialParseResponse(q, o)
    OBVIOUS
  <1>6. /\ r.d = o.d /\ r.line = o.line /\ r.tx = ctl.tx /\ r.ok = b
        /\ b => r.p = o.got.p
    BY <1>4, <1>5 DEF Clients!Way
  <1>7. b => "p" \in DOMAIN o.got /\ o.got.fc = q.fc
    BY <1>5 DEF Clients!serialParseResponse, Clients!IsReply
  <1>8. IsSeq(l) /\ Elements(l) \subseteq Elements(wire) /\ Len(l) <= Len(wire) /\ Len(l) \in Nat
    BY <1>3, DrainedAny
  <1>9. wire = <<>> => l = <<>>
    <2>1. wire = <<>> => Len(wire) = 0
      OBVIOUS
    <2>2. wire = <<>> => Len(l) = 0
      BY ONLY <1>8, <2>1
    <2> QED  BY <1>8, <2>2, NoElements
  <1> QED  BY <1>1, <1>4, <1>6, <1>7, <1>8, <1>9 DEF ClientWay

(* What a request leaves behind, however it ends. *)
LEMMA ClientsAsk ==
    ASSUME IsSeq(wire), ctl.kind \in ClientKinds, NEW q, NEW r \in Clients!Request(q)
    PROVE  /\ IsSeq(r.line) /\ Len(r.line) \in Nat /\ Len(r.line) <= MaxLate
           /\ Elements(r.line) \subseteq Elements(wire) \cup {ClientReply(q)}
           /\ r.d \in {dev, Clients!Slave(dev, q).d}
           /\ r.tx = IF ctl.kind \in Networked THEN (ctl.tx + 1) % TxIds ELSE ctl.tx
  <1>1. /\ r.tx = IF ctl.kind \in Networked THEN (ctl.tx + 1) % TxIds ELSE ctl.tx
        /\ \E l, o : ClientWay(q, l, o, r)
    <2>1. CASE ctl.kind \in Networked
      BY <2>1, TcpWays
    <2>2. CASE ctl.kind = "rtu"
      BY <2>2, RtuWays DEF Networked
    <2>3. CASE ctl.kind \in {"serial", "analog"}
      BY <2>3, SerialWays DEF Networked
    <2> QED  BY <2>1, <2>2, <2>3 DEF ClientKinds, Networked
  <1>2. PICK l, o : ClientWay(q, l, o, r)
    BY <1>1
  <1>3. /\ IsSeq(o.line) /\ Len(o.line) \in Nat /\ Len(o.line) <= MaxLate
        /\ Elements(o.line) \subseteq Elements(l) \cup {ClientReply(q)}
        /\ o.d \in {dev, Clients!Slave(dev, q).d}
    BY <1>2, ClientsOutcome DEF ClientWay
  <1> QED  BY <1>1, <1>2, <1>3 DEF ClientWay

\* No frame on the line can be taken for the reply to the next request.
ClientClear ==
    IF ctl.kind \in Networked THEN \A f \in Elements(wire) : f.tag # ctl.tx ELSE wire = <<>>

(* An answer that is accepted is the slave's to this request. *)
LEMMA ClientsTrust ==
    ASSUME IsSeq(wire), ctl.kind \in ClientKinds, ClientClear,
           NEW q, q.fc \in FunctionCodes, NEW r \in Clients!Request(q), r.ok
    PROVE  /\ r.d = Clients!Slave(dev, q).d /\ Clients!Slave(dev, q).re.fc = q.fc
           /\ Clients!IsRead(q.fc) => r.p = Clients!Slave(dev, q).re.p
  <1> DEFINE s == Clients!Slave(dev, q)
  <1>1. PICK l, o :
           /\ ClientWay(q, l, o, r)
           /\ "p" \in DOMAIN o.got
           /\ ctl.kind \in Networked => l = wire /\ o.got.tag = ctl.tx
           /\ o.got.fc # 128
           /\ Clients!IsRead(q.fc) /\ o.got.fc = q.fc => r.p = o.got.p
    <2>1. CASE ctl.kind \in Networked
      BY <2>1, TcpWays DEF FunctionCodes
    <2>2. CASE ctl.kind = "rtu"
      BY <2>2, RtuWays DEF Networked
    <2>3. CASE ctl.kind \in {"serial", "analog"}
      BY <2>3, SerialWays DEF Networked, FunctionCodes
    <2> QED  BY <2>1, <2>2, <2>3 DEF ClientKinds, Networked
  <1>2. /\ o.d = r.d
        /\ \/ o.got \in Elements(l) \cup {Line!NoFrame, Line!BadFrame}
           \/ o.got = ClientReply(q) /\ o.d = s.d
    BY <1>1, ClientsOutcome DEF ClientWay
  <1>3. o.got \notin {Line!NoFrame, Line!BadFrame}
    BY <1>1 DEF Line!NoFrame, Line!BadFrame
  <1>4. o.got \notin Elements(l)
    <2>1. CASE ctl.kind \in Networked
      BY <1>1, <2>1 DEF ClientClear
    <2>2. CASE ctl.kind \notin Networked
      <3>1. l = <<>>
        BY <1>1, <2>2 DEF ClientClear, ClientWay
      <3> QED  BY <3>1 DEF Elements
    <2> QED  BY <2>1, <2>2
  <1>5. o.got = ClientReply(q) /\ r.d = s.d
    BY <1>2, <1>3, <1>4
  <1>6. o.got.fc = s.re.fc /\ o.got.p = s.re.p
    BY <1>5 DEF ClientReply
  <1>7. s.re.fc = q.fc
    BY <1>1, <1>6, SlaveCodes
  <1> QED  BY <1>1, <1>5, <1>6, <1>7

ClientTypes ==
    /\ DOMAIN ctl = {"kind", "conn", "tx"} /\ ctl.kind \in ClientKinds /\ ctl.tx \in 0..(TxIds - 1)
    /\ IsSeq(wire) /\ Len(wire) <= MaxLate
    /\ DOMAIN dev = ClientAreas
    /\ DOMAIN said = {"id", "status", "code", "cmd", "val", "due", "late", "todo"}
    /\ said.id \in 0..MaxCommands

\* Every frame on the line is of an earlier request.
ClientOrder ==
    ctl.kind \in Networked /\ said.id < MaxCommands =>
        ctl.tx <= said.id /\ \A f \in Elements(wire) : f.tag \in 0..(ctl.tx - 1)

\* The host's command has been answered, or a part of it has been carried out.
ClientSaid ==
    /\ DOMAIN said' = DOMAIN said
    /\ \/ said.id < MaxCommands /\ said'.id = said.id + 1
       \/ ctl.kind \notin Networked /\ said'.id = said.id

LEMMA SlaveAreas ==
    ASSUME NEW q PROVE DOMAIN Clients!Slave(dev, q).d = DOMAIN dev
  <1>1. \A w, x : [d |-> w, re |-> x].d = w
    OBVIOUS
  <1> DEFINE A == Clients!Area(q.fc)
             v == [a \in DOMAIN dev[A] |-> IF a \in q.addr..(q.addr + q.n - 1)
                                           THEN q.p[a - q.addr + 1] ELSE dev[A][a]]
  <1>2. Clients!Slave(dev, q).d \in {dev, [dev EXCEPT ![A] = v]}
    BY <1>1 DEF Clients!Slave
  <1> HIDE DEF A, v
  <1> QED  BY <1>2

LEMMA ClientsPerform ==
    ASSUME ClientTypes, ClientSaid, said.id < MaxCommands \/ ctl.kind \notin Networked,
           NEW q, NEW r \in Clients!Request(q), dev' = r.d, wire' = r.line,
           ctl' = [ctl EXCEPT !.conn = TRUE, !.tx = r.tx]
    PROVE  ClientTypes' /\ (MaxCommands <= TxIds /\ ClientOrder => ClientOrder')
  <1>1. /\ IsSeq(wire') /\ Len(wire') <= MaxLate
        /\ Elements(wire') \subseteq Elements(wire) \cup {ClientReply(q)}
        /\ dev' \in {dev, Clients!Slave(dev, q).d}
        /\ r.tx = IF ctl.kind \in Networked THEN (ctl.tx + 1) % TxIds ELSE ctl.tx
    BY ClientsAsk DEF ClientTypes
  <1>2. PICK t : t = r.tx
    OBVIOUS
  <1>3. PICK y : y = TRUE
    OBVIOUS
  <1>4. ctl' = [ctl EXCEPT !.conn = y, !.tx = t]
    BY <1>2, <1>3
  <1>5. DOMAIN ctl' = DOMAIN ctl /\ ctl'.kind = ctl.kind /\ ctl'.tx = t
    BY ONLY <1>4, ClientTypes DEF ClientTypes
  <1>6. TxIds \in Nat \ {0} /\ MaxCommands \in Nat
    BY DevicesAssumption
  <1>7. ctl.tx \in 0..(TxIds - 1) /\ said.id \in 0..MaxCommands
    BY DEF ClientTypes
  <1>8. (ctl.tx + 1) % TxIds \in 0..(TxIds - 1)
    BY <1>6, <1>7
  <1>9. t \in 0..(TxIds - 1) /\ said'.id \in 0..MaxCommands
    BY <1>1, <1>2, <1>6, <1>7, <1>8 DEF ClientSaid
  <1>10. DOMAIN dev' = DOMAIN dev
    BY <1>1, SlaveAreas
  <1>11. ClientTypes'
    BY <1>1, <1>5, <1>9, <1>10 DEF ClientTypes, ClientSaid, ClientKinds, ClientAreas
  <1>12. ASSUME MaxCommands <= TxIds, ClientOrder PROVE ClientOrder'
    <2>1. SUFFICES ASSUME ctl.kind \in Networked, said'.id < MaxCommands
                   PROVE  t <= said'.id /\ \A f \in Elements(wire') : f.tag \in 0..(t - 1)
      BY <1>5 DEF ClientOrder, Networked
    <2>2. /\ said'.id = said.id + 1 /\ said.id < MaxCommands
          /\ ctl.tx <= said.id /\ \A f \in Elements(wire) : f.tag \in 0..(ctl.tx - 1)
      BY <1>12, <2>1 DEF ClientSaid, ClientOrder
    <2>3. t = (ctl.tx + 1) % TxIds /\ ctl.tx + 1 < TxIds
      BY <1>1, <1>2, <1>6, <1>7, <1>12, <2>1, <2>2
    <2>4. t = ctl.tx + 1
      BY <1>6, <1>7, <2>3
    <2>5. ClientReply(q).tag = ctl.tx
      BY <2>1 DEF ClientReply, ClientTag
    <2>6. \A f \in Elements(wire') : f.tag \in 0..(t - 1)
      BY <1>1, <1>7, <2>2, <2>4, <2>5
    <2> QED  BY <1>7, <2>2, <2>4, <2>6
  <1> QED  BY <1>11, <1>12

(* A command that asks nothing of the slave. *)
LEMMA ClientsRefuse ==
    ASSUME ClientTypes, ClientSaid, UNCHANGED <<ctl, wire, dev>>
    PROVE  ClientTypes' /\ (ClientOrder => ClientOrder')
  <1>1. ctl' = ctl /\ wire' = wire /\ dev' = dev
    OBVIOUS
  <1>2. MaxCommands \in Nat /\ said.id \in 0..MaxCommands /\ ctl.tx \in 0..(TxIds - 1) /\ TxIds \in Nat
    BY DevicesAssumption DEF ClientTypes
  <1>3. said'.id \in 0..MaxCommands
    BY <1>2 DEF ClientSaid
  <1>4. ClientTypes'
    BY <1>1, <1>3 DEF ClientTypes, ClientSaid, ClientKinds, ClientAreas
  <1>5. ClientOrder => ClientOrder'
    BY <1>1, <1>2 DEF ClientOrder, ClientSaid, Networked
  <1> QED  BY <1>4, <1>5

LEMMA ClientsDisconnect ==
    ASSUME ClientTypes, Clients!Disconnected
    PROVE  /\ ClientTypes' /\ ClientOrder' /\ wire' = <<>> /\ dev' = dev /\ said' = said
           /\ ctl'.kind = ctl.kind
  <1>1. PICK n : n = 0
    OBVIOUS
  <1>2. PICK b : b = FALSE
    BY Zenon
  <1>3. ctl' = [ctl EXCEPT !.conn = b, !.tx = n] /\ wire' = <<>> /\ dev' = dev /\ said' = said
    BY <1>1, <1>2, ClientsLine DEF Clients!Disconnected
  <1>4. DOMAIN ctl' = DOMAIN ctl /\ ctl'.kind = ctl.kind /\ ctl'.tx = 0
    BY <1>1, <1>3 DEF ClientTypes
  <1>5. /\ TxIds \in Nat \ {0} /\ MaxLate \in Nat /\ IsSeq(<<>>) /\ Len(<<>>) = 0 /\ Elements(<<>>) = {}
    BY DevicesAssumption DEF IsSeq, Elements
  <1>6. ClientTypes'
    BY <1>3, <1>4, <1>5 DEF ClientTypes, ClientKinds, ClientAreas
  <1>7. ClientOrder'
    BY <1>3, <1>4, <1>5 DEF ClientOrder, ClientTypes
  <1> QED  BY <1>3, <1>4, <1>6, <1>7

LEMMA ClientsClear ==
    ASSUME ClientTypes, ctl.kind \in Networked => ClientOrder /\ said.id < MaxCommands,
           ctl.kind \notin Networked => wire = <<>>
    PROVE  ClientClear
  <1>1. ctl.tx \in 0..(TxIds - 1) /\ TxIds \in Nat
    BY DevicesAssumption DEF ClientTypes
  <1> QED  BY <1>1 DEF ClientClear, ClientOrder

ReadCodes == {1, 2, 3, 4}
WriteCodes == {5, 6, 15, 16}

(* What a client has read is there. *)
Showed(fc, addr, n, r) ==
    /\ r.p = Clients!Due(fc, addr, n) /\ dev' = dev
    /\ addr..(addr + n - 1) \subseteq DOMAIN dev[Clients!Area(fc)]
    /\ r.p = [i \in 1..n |-> dev[Clients!Area(fc)][addr + i - 1]]

LEMMA ClientsRead ==
    ASSUME ClientTypes, ClientClear, NEW fc \in ReadCodes, NEW addr \in Nat, NEW n \in Nat,
           NEW r \in Clients!Request(Clients!Read(fc, addr, n)), r.ok, dev' = r.d
    PROVE  Showed(fc, addr, n, r)
  <1> DEFINE q == Clients!Read(fc, addr, n)
  <1>1. q.fc = fc /\ q.addr = addr /\ q.n = n
    BY DEF Clients!Read
  <1>2. Clients!IsRead(fc) /\ fc \in FunctionCodes
    BY DEF Clients!IsRead, FunctionCodes, ReadCodes
  <1> HIDE DEF q
  <1>3. /\ r.d = Clients!Slave(dev, q).d /\ Clients!Slave(dev, q).re.fc = q.fc
        /\ r.p = Clients!Slave(dev, q).re.p
    BY <1>1, <1>2, ClientsTrust DEF ClientTypes, q
  <1>4. /\ addr..(addr + n - 1) \subseteq DOMAIN dev[Clients!Area(fc)]
        /\ Clients!Slave(dev, q).d = dev
        /\ Clients!Slave(dev, q).re.p = [i \in 1..n |-> dev[Clients!Area(fc)][addr + i - 1]]
    <2>1. q.fc \in FunctionCodes /\ q.addr \in Nat /\ q.n \in Nat /\ Clients!IsRead(q.fc)
      BY <1>1, <1>2
    <2>2. /\ q.addr..(q.addr + q.n - 1) \subseteq DOMAIN dev[Clients!Area(q.fc)]
          /\ Clients!Slave(dev, q).d = dev
          /\ Clients!Slave(dev, q).re.p = [i \in 1..q.n |-> dev[Clients!Area(q.fc)][q.addr + i - 1]]
      <3>1. Accepted(dev, q)
        BY <1>3, <2>1, SlaveAccepts
      <3> QED  BY <2>1, <3>1 DEF Accepted
    <2> QED  BY ONLY <1>1, <2>2
  <1>5. dev' = dev /\ r.p = [i \in 1..n |-> dev[Clients!Area(fc)][addr + i - 1]]
    BY <1>3, <1>4
  <1>6. \A i \in 1..n : addr + i - 1 \in addr..(addr + n - 1)
    OBVIOUS
  <1>7. Clients!Due(fc, addr, n) = [i \in 1..n |-> dev[Clients!Area(fc)][addr + i - 1]]
    BY <1>4, <1>5, <1>6 DEF Clients!Due
  <1> QED  BY <1>4, <1>5, <1>7 DEF Showed

(* What a client has written is there. *)
Landed(fc, addr, items) ==
    /\ items = Clients!Due(fc, addr, Len(items))
    /\ DOMAIN dev' = DOMAIN dev
    /\ \A a \in ClientAreas \ {Clients!Area(fc)} : dev'[a] = dev[a]
    /\ dev'[Clients!Area(fc)] = [a \in DOMAIN dev[Clients!Area(fc)] |->
          IF a \in addr..(addr + Len(items) - 1) THEN items[a - addr + 1]
          ELSE dev[Clients!Area(fc)][a]]
    /\ addr..(addr + Len(items) - 1) \subseteq DOMAIN dev[Clients!Area(fc)]

LEMMA ClientsWrite ==
    ASSUME ClientTypes, ClientClear, NEW fc \in WriteCodes, NEW addr \in Nat,
           NEW items, IsSeq(items),
           NEW r \in Clients!Request(Clients!Write(fc, addr, items)), r.ok, dev' = r.d
    PROVE  Landed(fc, addr, items)
  <1> DEFINE q == Clients!Write(fc, addr, items)
             A == Clients!Area(fc)
             n == Len(items)
  <1>1. q.fc = fc /\ q.addr = addr /\ q.n = n /\ q.p = items
    BY DEF Clients!Write
  <1>2. ~Clients!IsRead(fc) /\ fc \in FunctionCodes /\ A \in ClientAreas
    BY DEF Clients!IsRead, FunctionCodes, Clients!Area, ClientAreas, WriteCodes
  <1>3. n \in Nat /\ DOMAIN items = 1..n
    BY DEF IsSeq
  <1> DEFINE v == [a \in DOMAIN dev[A] |-> IF a \in addr..(addr + n - 1)
                                           THEN items[a - addr + 1] ELSE dev[A][a]]
  <1> HIDE DEF q
  <1>4. /\ r.d = Clients!Slave(dev, q).d /\ Clients!Slave(dev, q).re.fc = q.fc
    BY <1>1, <1>2, ClientsTrust DEF ClientTypes, q
  <1>5. /\ addr..(addr + n - 1) \subseteq DOMAIN dev[A]
        /\ dev' = [dev EXCEPT ![A] = v]
    <2> DEFINE B == Clients!Area(q.fc)
               w == [a \in DOMAIN dev[B] |-> IF a \in q.addr..(q.addr + q.n - 1)
                                             THEN q.p[a - q.addr + 1] ELSE dev[B][a]]
    <2>1. q.fc \in FunctionCodes /\ q.addr \in Nat /\ q.n \in Nat /\ ~Clients!IsRead(q.fc)
      BY <1>1, <1>2, <1>3
    <2>2. /\ q.addr..(q.addr + q.n - 1) \subseteq DOMAIN dev[B]
          /\ Clients!Slave(dev, q).d = [dev EXCEPT ![B] = w]
      <3>1. Accepted(dev, q)
        BY <1>4, <2>1, SlaveAccepts
      <3> QED  BY <2>1, <3>1 DEF Accepted
    <2>3. w = v /\ B = A
      BY ONLY <1>1
    <2>4. dev' = [dev EXCEPT ![B] = w]
      BY <1>4, <2>2
    <2> HIDE DEF v, w, A, B, n
    <2>5. dev' = [dev EXCEPT ![A] = v]
      BY <2>3, <2>4
    <2>6. addr..(addr + n - 1) \subseteq DOMAIN dev[A]
      BY ONLY <1>1, <2>2, <2>3
    <2> QED  BY <2>5, <2>6
  <1>6. DOMAIN dev' = DOMAIN dev /\ dev'[A] = v /\ \A a \in ClientAreas \ {A} : dev'[a] = dev[a]
    <2> HIDE DEF v, A, n
    <2> QED  BY <1>2, <1>5 DEF ClientTypes
  <1>7. \A i \in 1..n : addr + i - 1 \in addr..(addr + n - 1) /\ (addr + i - 1) - addr + 1 = i
    BY <1>3
  <1>8. \A i \in 1..n : dev'[A][addr + i - 1] = items[i]
    BY <1>5, <1>6, <1>7
  <1>9. Clients!Due(fc, addr, n) = [i \in 1..n |-> items[i]]
    <2> HIDE DEF v, n
    <2> QED  BY <1>5, <1>7, <1>8 DEF Clients!Due
  <1>10. items = [i \in 1..n |-> items[i]]
    BY <1>3 DEF IsSeq
  <1> QED  BY <1>5, <1>6, <1>9, <1>10 DEF Landed

\* One request and what it leaves.
Asked(q, r) ==
    /\ r \in Clients!Request(q) /\ dev' = r.d /\ wire' = r.line
    /\ ctl' = [ctl EXCEPT !.conn = TRUE, !.tx = r.tx]

\* No late answer counts: there is none, or its number tells it from this one.
ClientSure == IF ctl.kind \in Networked THEN MaxCommands <= TxIds ELSE wire = <<>>

\* The answers of earlier requests have numbers of their own.
FewCommands == MaxCommands <= TxIds

LEMMA ClientsNames ==
    /\ \A q, r : Asked(q, r) <=> r \in Clients!Request(q) /\ dev' = r.d /\ wire' = r.line
                                 /\ ctl' = [ctl EXCEPT !.conn = TRUE, !.tx = r.tx]
    /\ \A fc, a, n : /\ Master!Due(fc, a, n) = Clients!Due(fc, a, n)
                     /\ Crane!Due(fc, a, n) = Clients!Due(fc, a, n)
                     /\ Analog!Due(fc, a, n) = Clients!Due(fc, a, n)
                     /\ Limaco!Due(fc, a, n) = Clients!Due(fc, a, n)
    /\ \A fc, a, n : /\ Master!Read(fc, a, n) = Clients!Read(fc, a, n)
                     /\ Crane!Read(fc, a, n) = Clients!Read(fc, a, n)
                     /\ Analog!Read(fc, a, n) = Clients!Read(fc, a, n)
                     /\ Limaco!Read(fc, a, n) = Clients!Read(fc, a, n)
    /\ \A fc, a, n : /\ Master!Write(fc, a, n) = Clients!Write(fc, a, n)
                     /\ Crane!Write(fc, a, n) = Clients!Write(fc, a, n)
                     /\ Analog!Write(fc, a, n) = Clients!Write(fc, a, n)
                     /\ Limaco!Write(fc, a, n) = Clients!Write(fc, a, n)
    /\ Master!Quiet = <<>> /\ Crane!Quiet = <<>> /\ Analog!Quiet = <<>> /\ Limaco!Quiet = <<>>
  BY DEF Asked, Master!Due, Crane!Due, Analog!Due, Limaco!Due, Clients!Due,
     Master!Area, Crane!Area, Analog!Area, Limaco!Area, Clients!Area,
     Master!Read, Crane!Read, Analog!Read, Limaco!Read, Clients!Read,
     Master!Write, Crane!Write, Analog!Write, Limaco!Write, Clients!Write,
     Master!Quiet, Crane!Quiet, Analog!Quiet, Limaco!Quiet

(***************************************************************************)
(* An answer of a client, with what it says and what is due.               *)
(***************************************************************************)
Answered(cmd, status, code, val, due) ==
    said' = [id |-> said.id + 1, status |-> status, code |-> code, cmd |-> cmd, val |-> val,
             due |-> due, late |-> wire # <<>>, todo |-> <<>>]

LEMMA ClientsAnswer ==
    ASSUME NEW cmd, NEW status, NEW code, NEW val, NEW due, Answered(cmd, status, code, val, due),
           ClientTypes, said.id < MaxCommands
    PROVE  /\ ClientSaid
           /\ said'.status = status /\ said'.cmd = cmd /\ said'.val = val /\ said'.due = due
           /\ said'.todo = <<>> /\ (said'.late <=> wire # <<>>)
  <1>1. PICK b \in BOOLEAN : b <=> wire # <<>>
    <2>1. (wire # <<>>) \in BOOLEAN
      OBVIOUS
    <2> QED  BY <2>1
  <1>2. said' = [id |-> said.id + 1, status |-> status, code |-> code, cmd |-> cmd, val |-> val,
                 due |-> due, late |-> b, todo |-> <<>>]
    <2>1. (wire # <<>>) = b
      BY <1>1
    <2> QED  BY <2>1 DEF Answered
  <1>3. PICK n : n = said.id + 1
    OBVIOUS
  <1>4. said' = [id |-> n, status |-> status, code |-> code, cmd |-> cmd, val |-> val,
                 due |-> due, late |-> b, todo |-> <<>>]
    BY <1>2, <1>3
  <1>5. /\ DOMAIN said' = {"id", "status", "code", "cmd", "val", "due", "late", "todo"}
        /\ said'.id = n /\ said'.status = status /\ said'.cmd = cmd /\ said'.val = val /\ said'.due = due
        /\ said'.todo = <<>> /\ said'.late = b
    BY ONLY <1>4
  <1>6. ClientSaid
    BY <1>3, <1>5 DEF ClientSaid, ClientTypes
  <1> QED  BY <1>1, <1>5, <1>6

(* A command that is one request. *)
LEMMA ClientsCommand ==
    ASSUME ClientTypes, said.id < MaxCommands, NEW q, NEW r, Asked(q, r), ClientSaid
    PROVE  ClientTypes' /\ (FewCommands /\ ClientOrder => ClientOrder') /\ ctl'.kind = ctl.kind
  <1>1. PICK y, t : y = TRUE /\ t = r.tx
    OBVIOUS
  <1>2. ctl' = [ctl EXCEPT !.conn = y, !.tx = t]
    BY <1>1 DEF Asked
  <1>3. ctl'.kind = ctl.kind
    BY ONLY <1>2, ClientTypes DEF ClientTypes
  <1>4. ClientTypes' /\ (MaxCommands <= TxIds /\ ClientOrder => ClientOrder')
    BY Zenon, ClientsPerform DEF Asked
  <1> QED  BY <1>3, <1>4 DEF FewCommands

(* Its answer is the one to this request if no late answer counts. *)
LEMMA ClientsReadTrue ==
    ASSUME ClientTypes, said.id < MaxCommands, FewCommands => ClientOrder, ClientSure,
           NEW fc \in ReadCodes, NEW addr \in Nat, NEW n \in Nat,
           NEW r, Asked(Clients!Read(fc, addr, n), r), r.ok
    PROVE  Showed(fc, addr, n, r)
  <1>1. ClientClear
    BY ClientsClear DEF ClientSure, FewCommands
  <1>2. r \in Clients!Request(Clients!Read(fc, addr, n)) /\ dev' = r.d
    BY DEF Asked
  <1> QED  BY <1>1, <1>2, ClientsRead

LEMMA ClientsWriteTrue ==
    ASSUME ClientTypes, said.id < MaxCommands, FewCommands => ClientOrder, ClientSure,
           NEW fc \in WriteCodes, NEW addr \in Nat, NEW items, IsSeq(items),
           NEW r, Asked(Clients!Write(fc, addr, items), r), r.ok
    PROVE  Landed(fc, addr, items)
  <1>1. ClientClear
    BY ClientsClear DEF ClientSure, FewCommands
  <1>2. r \in Clients!Request(Clients!Write(fc, addr, items)) /\ dev' = r.d
    BY DEF Asked
  <1> QED  BY <1>1, <1>2, ClientsWrite

-----------------------------------------------------------------------------
(***************************************************************************)
(* Values in registers: what a byte order and a word order do to a value,  *)
(* reading undoes.                                                         *)
(***************************************************************************)
LEMMA Tuples ==
    /\ \A s : IsSeq(s) /\ Len(s) = 1 => s = <<s[1]>>
    /\ \A s : IsSeq(s) /\ Len(s) = 2 => s = <<s[1], s[2]>>
    /\ \A s : IsSeq(s) /\ Len(s) = 4 => s = <<s[1], s[2], s[3], s[4]>>
    /\ \A s : IsSeq(s) /\ Len(s) = 8 => s = <<s[1], s[2], s[3], s[4], s[5], s[6], s[7], s[8]>>
  <1>1. ASSUME NEW s, IsSeq(s), Len(s) = 1 PROVE s = <<s[1]>>
    BY <1>1 DEF IsSeq
  <1>2. ASSUME NEW s, IsSeq(s), Len(s) = 2 PROVE s = <<s[1], s[2]>>
    BY <1>2 DEF IsSeq
  <1>3. ASSUME NEW s, IsSeq(s), Len(s) = 4 PROVE s = <<s[1], s[2], s[3], s[4]>>
    BY <1>3 DEF IsSeq
  <1>4. ASSUME NEW s, IsSeq(s), Len(s) = 8
        PROVE  s = <<s[1], s[2], s[3], s[4], s[5], s[6], s[7], s[8]>>
    BY <1>4 DEF IsSeq
  <1> QED  BY <1>1, <1>2, <1>3, <1>4

LEMMA FourAndEight ==
    /\ \A a, b, c, d : /\ IsSeq(<<a, b, c, d>>) /\ Len(<<a, b, c, d>>) = 4
                       /\ <<a, b, c, d>>[1] = a /\ <<a, b, c, d>>[2] = b
                       /\ <<a, b, c, d>>[3] = c /\ <<a, b, c, d>>[4] = d
    /\ \A a, b, c, d, e, f, g, h :
          /\ IsSeq(<<a, b, c, d, e, f, g, h>>) /\ Len(<<a, b, c, d, e, f, g, h>>) = 8
  <1>1. ASSUME NEW a, NEW b, NEW c, NEW d PROVE <<a, b, c, d>> \in Seq({a, b, c, d})
    OBVIOUS
  <1>2. ASSUME NEW a, NEW b, NEW c, NEW d, NEW e, NEW f, NEW g, NEW h
        PROVE  <<a, b, c, d, e, f, g, h>> \in Seq({a, b, c, d, e, f, g, h})
    OBVIOUS
  <1>3. ASSUME NEW a, NEW b, NEW c, NEW d PROVE IsSeq(<<a, b, c, d>>)
    BY <1>1, SeqIsSeq
  <1>4. ASSUME NEW a, NEW b, NEW c, NEW d, NEW e, NEW f, NEW g, NEW h
        PROVE  IsSeq(<<a, b, c, d, e, f, g, h>>)
    BY <1>2, SeqIsSeq
  <1> QED  BY <1>3, <1>4

LEMMA TwoAndTwo ==
    \A a, b, c, d : <<a, b>> \o <<c, d>> = <<a, b, c, d>>
  <1> SUFFICES ASSUME NEW a, NEW b, NEW c, NEW d PROVE <<a, b>> \o <<c, d>> = <<a, b, c, d>>
    BY Zenon
  <1>1. PICK s, t : s = <<a, b>> /\ t = <<c, d>>
    OBVIOUS
  <1>2. /\ IsSeq(s) /\ Len(s) = 2 /\ s[1] = a /\ s[2] = b
        /\ IsSeq(t) /\ Len(t) = 2 /\ t[1] = c /\ t[2] = d
    BY <1>1, SmallSeqs
  <1>3. /\ IsSeq(s \o t) /\ Len(s \o t) = Len(s) + Len(t)
        /\ \A i \in 1..Len(s) : (s \o t)[i] = s[i]
        /\ \A i \in 1..Len(t) : (s \o t)[Len(s) + i] = t[i]
    <2>1. IsSeq(s) /\ IsSeq(t)
      BY <1>2
    <2> QED  BY ONLY <2>1, ConcatAny
  <1>4. PICK u : u = s \o t
    OBVIOUS
  <1>5. /\ IsSeq(u) /\ Len(u) = 4 /\ \A i \in 1..2 : u[i] = s[i] /\ u[2 + i] = t[i]
    BY <1>2, <1>3, <1>4
  <1>6. u[1] = a /\ u[2] = b /\ u[3] = c /\ u[4] = d
    BY <1>2, <1>5
  <1>7. u = <<u[1], u[2], u[3], u[4]>>
    BY <1>5, Tuples
  <1> QED  BY <1>1, <1>4, <1>6, <1>7

LEMMA FourAndFour ==
    \A a, b, c, d, e, f, g, h : <<a, b, c, d>> \o <<e, f, g, h>> = <<a, b, c, d, e, f, g, h>>
  <1> SUFFICES ASSUME NEW a, NEW b, NEW c, NEW d, NEW e, NEW f, NEW g, NEW h
               PROVE  <<a, b, c, d>> \o <<e, f, g, h>> = <<a, b, c, d, e, f, g, h>>
    BY Zenon
  <1>1. PICK s, t : s = <<a, b, c, d>> /\ t = <<e, f, g, h>>
    OBVIOUS
  <1>2. /\ IsSeq(s) /\ Len(s) = 4 /\ s[1] = a /\ s[2] = b /\ s[3] = c /\ s[4] = d
        /\ IsSeq(t) /\ Len(t) = 4 /\ t[1] = e /\ t[2] = f /\ t[3] = g /\ t[4] = h
    BY <1>1, FourAndEight
  <1>3. /\ IsSeq(s \o t) /\ Len(s \o t) = Len(s) + Len(t)
        /\ \A i \in 1..Len(s) : (s \o t)[i] = s[i]
        /\ \A i \in 1..Len(t) : (s \o t)[Len(s) + i] = t[i]
    <2>1. IsSeq(s) /\ IsSeq(t)
      BY <1>2
    <2> QED  BY ONLY <2>1, ConcatAny
  <1>4. PICK u : u = s \o t
    OBVIOUS
  <1>5. /\ IsSeq(u) /\ Len(u) = 8 /\ \A i \in 1..4 : u[i] = s[i] /\ u[4 + i] = t[i]
    BY <1>2, <1>3, <1>4
  <1>6. /\ u[1] = a /\ u[2] = b /\ u[3] = c /\ u[4] = d
        /\ u[5] = e /\ u[6] = f /\ u[7] = g /\ u[8] = h
    BY <1>2, <1>5
  <1>7. u = <<u[1], u[2], u[3], u[4], u[5], u[6], u[7], u[8]>>
    BY <1>5, Tuples
  <1> QED  BY <1>1, <1>4, <1>6, <1>7

(* The halves of a sequence. *)
LEMMA HalfOfFour ==
    \A a, b, c, d : /\ SubSeq(<<a, b, c, d>>, 1, 2) = <<a, b>>
                    /\ SubSeq(<<a, b, c, d>>, 3, 4) = <<c, d>>
                    /\ SubSeq(<<a, b, c, d>>, 1, 4) = <<a, b, c, d>>
  <1> SUFFICES ASSUME NEW a, NEW b, NEW c, NEW d
               PROVE  /\ SubSeq(<<a, b, c, d>>, 1, 2) = <<a, b>>
                      /\ SubSeq(<<a, b, c, d>>, 3, 4) = <<c, d>>
                      /\ SubSeq(<<a, b, c, d>>, 1, 4) = <<a, b, c, d>>
    BY Zenon
  <1>1. PICK s : s = <<a, b, c, d>>
    OBVIOUS
  <1>2. IsSeq(s) /\ Len(s) = 4 /\ s[1] = a /\ s[2] = b /\ s[3] = c /\ s[4] = d
    BY <1>1, FourAndEight
  <1>3. ASSUME NEW m \in 1..4, NEW n \in m..4
        PROVE  /\ IsSeq(SubSeq(s, m, n)) /\ Len(SubSeq(s, m, n)) = n - m + 1
               /\ \A i \in 1..(n - m + 1) : SubSeq(s, m, n)[i] = s[m + i - 1]
    <2>1. m \in 1..(Len(s) + 1) /\ n \in (m - 1)..Len(s)
      BY <1>2
    <2> QED  BY <1>2, <2>1, SubAny
  <1>4. PICK u, v, w : u = SubSeq(s, 1, 2) /\ v = SubSeq(s, 3, 4) /\ w = SubSeq(s, 1, 4)
    OBVIOUS
  <1>5. IsSeq(u) /\ Len(u) = 2 /\ u[1] = a /\ u[2] = b
    BY <1>2, <1>3, <1>4
  <1>6. IsSeq(v) /\ Len(v) = 2 /\ v[1] = c /\ v[2] = d
    BY <1>2, <1>3, <1>4
  <1>7. IsSeq(w) /\ Len(w) = 4 /\ w[1] = a /\ w[2] = b /\ w[3] = c /\ w[4] = d
    BY <1>2, <1>3, <1>4
  <1>8. u = <<a, b>> /\ v = <<c, d>> /\ w = <<a, b, c, d>>
    <2>1. u = <<u[1], u[2]>> /\ v = <<v[1], v[2]>> /\ w = <<w[1], w[2], w[3], w[4]>>
      BY <1>5, <1>6, <1>7, Tuples
    <2> QED  BY <1>5, <1>6, <1>7, <2>1
  <1> QED  BY ONLY <1>1, <1>4, <1>8

LEMMA HalfOfEight ==
    \A a, b, c, d, e, f, g, h :
        /\ SubSeq(<<a, b, c, d, e, f, g, h>>, 1, 4) = <<a, b, c, d>>
        /\ SubSeq(<<a, b, c, d, e, f, g, h>>, 5, 8) = <<e, f, g, h>>
  <1> SUFFICES ASSUME NEW a, NEW b, NEW c, NEW d, NEW e, NEW f, NEW g, NEW h
               PROVE  /\ SubSeq(<<a, b, c, d, e, f, g, h>>, 1, 4) = <<a, b, c, d>>
                      /\ SubSeq(<<a, b, c, d, e, f, g, h>>, 5, 8) = <<e, f, g, h>>
    BY Zenon
  <1>1. PICK s : s = <<a, b, c, d, e, f, g, h>>
    OBVIOUS
  <1>2. /\ s[1] = a /\ s[2] = b /\ s[3] = c /\ s[4] = d
        /\ s[5] = e /\ s[6] = f /\ s[7] = g /\ s[8] = h
    BY <1>1
  <1>3. IsSeq(s) /\ Len(s) = 8
    BY <1>1, FourAndEight
  <1>4. ASSUME NEW m \in 1..8, NEW n \in m..8
        PROVE  /\ IsSeq(SubSeq(s, m, n)) /\ Len(SubSeq(s, m, n)) = n - m + 1
               /\ \A i \in 1..(n - m + 1) : SubSeq(s, m, n)[i] = s[m + i - 1]
    <2>1. m \in 1..(Len(s) + 1) /\ n \in (m - 1)..Len(s)
      BY <1>3
    <2> QED  BY <1>3, <2>1, SubAny
  <1>5. PICK u, v : u = SubSeq(s, 1, 4) /\ v = SubSeq(s, 5, 8)
    OBVIOUS
  <1>6. IsSeq(u) /\ Len(u) = 4 /\ u[1] = a /\ u[2] = b /\ u[3] = c /\ u[4] = d
    BY <1>2, <1>4, <1>5
  <1>7. IsSeq(v) /\ Len(v) = 4 /\ v[1] = e /\ v[2] = f /\ v[3] = g /\ v[4] = h
    BY <1>2, <1>4, <1>5
  <1>8. u = <<a, b, c, d>> /\ v = <<e, f, g, h>>
    <2>1. u = <<u[1], u[2], u[3], u[4]>> /\ v = <<v[1], v[2], v[3], v[4]>>
      BY <1>6, <1>7, Tuples
    <2> QED  BY <1>6, <1>7, <2>1
  <1> QED  BY ONLY <1>1, <1>5, <1>8

(* A 32-bit value in two registers. *)
LEMMA SplitTwo ==
    ASSUME NEW a, NEW b, NEW c, NEW d
    PROVE  /\ Master!splitRegisters32("big_endian", <<a, b, c, d>>) = <<<<a, b>>, <<c, d>>>>
           /\ Master!splitRegisters32("little_endian", <<a, b, c, d>>) = <<<<c, d>>, <<a, b>>>>
           /\ Master!splitRegisters32("big_endian_byte_swap", <<a, b, c, d>>) = <<<<b, a>>, <<d, c>>>>
           /\ Master!splitRegisters32("little_endian_byte_swap", <<a, b, c, d>>) = <<<<d, c>>, <<b, a>>>>
  <1>1. SubSeq(<<a, b, c, d>>, 1, 2) = <<a, b>> /\ SubSeq(<<a, b, c, d>>, 3, 4) = <<c, d>>
    BY HalfOfFour
  <1>2. Master!swap(<<a, b>>) = <<b, a>> /\ Master!swap(<<c, d>>) = <<d, c>>
    BY DEF Master!swap
  <1>3. \A v : /\ Master!splitRegisters32("big_endian", v) = <<SubSeq(v, 1, 2), SubSeq(v, 3, 4)>>
               /\ Master!splitRegisters32("little_endian", v) = <<SubSeq(v, 3, 4), SubSeq(v, 1, 2)>>
               /\ Master!splitRegisters32("big_endian_byte_swap", v) =
                     <<Master!swap(SubSeq(v, 1, 2)), Master!swap(SubSeq(v, 3, 4))>>
               /\ Master!splitRegisters32("little_endian_byte_swap", v) =
                     <<Master!swap(SubSeq(v, 3, 4)), Master!swap(SubSeq(v, 1, 2))>>
    BY DEF Master!splitRegisters32
  <1> QED  BY <1>1, <1>2, <1>3

LEMMA CombineTwo ==
    ASSUME NEW a, NEW b, NEW c, NEW d
    PROVE  /\ Master!combineRegisters32("big_endian", <<a, b>>, <<c, d>>) = <<a, b, c, d>>
           /\ Master!combineRegisters32("little_endian", <<c, d>>, <<a, b>>) = <<a, b, c, d>>
           /\ Master!combineRegisters32("big_endian_byte_swap", <<b, a>>, <<d, c>>) = <<a, b, c, d>>
           /\ Master!combineRegisters32("little_endian_byte_swap", <<d, c>>, <<b, a>>) = <<a, b, c, d>>
  <1>1. PICK p, q, x, y, v : p = <<a, b>> /\ q = <<c, d>> /\ x = <<b, a>> /\ y = <<d, c>> /\ v = <<a, b, c, d>>
    OBVIOUS
  <1>2. p \o q = v /\ Master!swap(x) = p /\ Master!swap(y) = q
    <2>1. <<a, b>> \o <<c, d>> = <<a, b, c, d>>
      BY TwoAndTwo
    <2>2. Master!swap(x) = p /\ Master!swap(y) = q
      BY <1>1 DEF Master!swap
    <2> QED  BY <1>1, <2>1, <2>2
  <1>3. \A l, r : /\ Master!combineRegisters32("big_endian", l, r) = l \o r
                  /\ Master!combineRegisters32("little_endian", l, r) = r \o l
                  /\ Master!combineRegisters32("big_endian_byte_swap", l, r) =
                        Master!swap(l) \o Master!swap(r)
                  /\ Master!combineRegisters32("little_endian_byte_swap", l, r) =
                        Master!swap(r) \o Master!swap(l)
    BY DEF Master!combineRegisters32
  <1>4. /\ Master!combineRegisters32("big_endian", p, q) = v
        /\ Master!combineRegisters32("little_endian", q, p) = v
        /\ Master!combineRegisters32("big_endian_byte_swap", x, y) = v
        /\ Master!combineRegisters32("little_endian_byte_swap", y, x) = v
    BY ONLY <1>2, <1>3
  <1> QED  BY ONLY <1>1, <1>4

(* A 64-bit value in four. *)
LEMMA SplitFour ==
    ASSUME NEW a, NEW b, NEW c, NEW d, NEW e, NEW f, NEW g, NEW h, NEW v, v = <<a, b, c, d, e, f, g, h>>
    PROVE  /\ Master!splitRegisters64("big_endian", v) = <<<<a, b>>, <<c, d>>, <<e, f>>, <<g, h>>>>
           /\ Master!splitRegisters64("little_endian", v) = <<<<g, h>>, <<e, f>>, <<c, d>>, <<a, b>>>>
           /\ Master!splitRegisters64("big_endian_byte_swap", v) =
                 <<<<b, a>>, <<d, c>>, <<f, e>>, <<h, g>>>>
           /\ Master!splitRegisters64("little_endian_byte_swap", v) =
                 <<<<h, g>>, <<f, e>>, <<d, c>>, <<b, a>>>>
  <1>1. PICK l, r : l = <<a, b, c, d>> /\ r = <<e, f, g, h>>
    OBVIOUS
  <1>2. SubSeq(v, 1, 4) = l /\ SubSeq(v, 5, 8) = r
    BY <1>1, HalfOfEight
  <1>3. \A o : Master!splitRegisters64(o, v) =
                  IF Master!Big(o) THEN Master!splitRegisters32(o, l) \o Master!splitRegisters32(o, r)
                  ELSE Master!splitRegisters32(o, r) \o Master!splitRegisters32(o, l)
    BY <1>2 DEF Master!splitRegisters64
  <1>4. /\ Master!Big("big_endian") /\ Master!Big("big_endian_byte_swap")
        /\ ~Master!Big("little_endian") /\ ~Master!Big("little_endian_byte_swap")
    BY DEF Master!Big
  <1>5. \A p, q, x, y : <<p, q>> \o <<x, y>> = <<p, q, x, y>>
    BY Zenon, TwoAndTwo
  <1>6. PICK ab, cd, ef, gh : ab = <<a, b>> /\ cd = <<c, d>> /\ ef = <<e, f>> /\ gh = <<g, h>>
    OBVIOUS
  <1>7. PICK ba, dc, fe, hg : ba = <<b, a>> /\ dc = <<d, c>> /\ fe = <<f, e>> /\ hg = <<h, g>>
    OBVIOUS
  <1>8. /\ Master!splitRegisters32("big_endian", l) = <<ab, cd>>
        /\ Master!splitRegisters32("little_endian", l) = <<cd, ab>>
        /\ Master!splitRegisters32("big_endian_byte_swap", l) = <<ba, dc>>
        /\ Master!splitRegisters32("little_endian_byte_swap", l) = <<dc, ba>>
    BY <1>1, <1>6, <1>7, SplitTwo
  <1>9. /\ Master!splitRegisters32("big_endian", r) = <<ef, gh>>
        /\ Master!splitRegisters32("little_endian", r) = <<gh, ef>>
        /\ Master!splitRegisters32("big_endian_byte_swap", r) = <<fe, hg>>
        /\ Master!splitRegisters32("little_endian_byte_swap", r) = <<hg, fe>>
    BY <1>1, <1>6, <1>7, SplitTwo
  <1>10. /\ Master!splitRegisters64("big_endian", v) = <<ab, cd, ef, gh>>
         /\ Master!splitRegisters64("little_endian", v) = <<gh, ef, cd, ab>>
         /\ Master!splitRegisters64("big_endian_byte_swap", v) = <<ba, dc, fe, hg>>
         /\ Master!splitRegisters64("little_endian_byte_swap", v) = <<hg, fe, dc, ba>>
    <2>1. Master!splitRegisters64("big_endian", v) =
             Master!splitRegisters32("big_endian", l) \o Master!splitRegisters32("big_endian", r)
      BY ONLY <1>3, <1>4
    <2>2. Master!splitRegisters64("big_endian", v) = <<ab, cd, ef, gh>>
      <3>1. <<ab, cd>> \o <<ef, gh>> = <<ab, cd, ef, gh>>
        BY ONLY <1>5
      <3> QED  BY ONLY <1>8, <1>9, <2>1, <3>1
    <2>3. Master!splitRegisters64("little_endian", v) =
             Master!splitRegisters32("little_endian", r) \o Master!splitRegisters32("little_endian", l)
      BY ONLY <1>3, <1>4
    <2>4. Master!splitRegisters64("little_endian", v) = <<gh, ef, cd, ab>>
      <3>1. <<gh, ef>> \o <<cd, ab>> = <<gh, ef, cd, ab>>
        BY ONLY <1>5
      <3> QED  BY ONLY <1>8, <1>9, <2>3, <3>1
    <2>5. Master!splitRegisters64("big_endian_byte_swap", v) =
             Master!splitRegisters32("big_endian_byte_swap", l) \o Master!splitRegisters32("big_endian_byte_swap", r)
      BY ONLY <1>3, <1>4
    <2>6. Master!splitRegisters64("big_endian_byte_swap", v) = <<ba, dc, fe, hg>>
      <3>1. <<ba, dc>> \o <<fe, hg>> = <<ba, dc, fe, hg>>
        BY ONLY <1>5
      <3> QED  BY ONLY <1>8, <1>9, <2>5, <3>1
    <2>7. Master!splitRegisters64("little_endian_byte_swap", v) =
             Master!splitRegisters32("little_endian_byte_swap", r) \o Master!splitRegisters32("little_endian_byte_swap", l)
      BY ONLY <1>3, <1>4
    <2>8. Master!splitRegisters64("little_endian_byte_swap", v) = <<hg, fe, dc, ba>>
      <3>1. <<hg, fe>> \o <<dc, ba>> = <<hg, fe, dc, ba>>
        BY ONLY <1>5
      <3> QED  BY ONLY <1>8, <1>9, <2>7, <3>1
    <2> QED  BY ONLY <2>2, <2>4, <2>6, <2>8
  <1> QED  BY ONLY <1>6, <1>7, <1>10

LEMMA CombineFour ==
    ASSUME NEW a, NEW b, NEW c, NEW d, NEW e, NEW f, NEW g, NEW h, NEW v, v = <<a, b, c, d, e, f, g, h>>
    PROVE  /\ Master!combineRegisters64("big_endian", <<<<a, b>>, <<c, d>>, <<e, f>>, <<g, h>>>>) = v
           /\ Master!combineRegisters64("little_endian", <<<<g, h>>, <<e, f>>, <<c, d>>, <<a, b>>>>) = v
           /\ Master!combineRegisters64("big_endian_byte_swap",
                 <<<<b, a>>, <<d, c>>, <<f, e>>, <<h, g>>>>) = v
           /\ Master!combineRegisters64("little_endian_byte_swap",
                 <<<<h, g>>, <<f, e>>, <<d, c>>, <<b, a>>>>) = v
  <1>1. PICK l, r : l = <<a, b, c, d>> /\ r = <<e, f, g, h>>
    OBVIOUS
  <1>2. l \o r = v
    BY <1>1, FourAndFour
  <1>3. PICK ab, cd, ef, gh : ab = <<a, b>> /\ cd = <<c, d>> /\ ef = <<e, f>> /\ gh = <<g, h>>
    OBVIOUS
  <1>4. PICK ba, dc, fe, hg : ba = <<b, a>> /\ dc = <<d, c>> /\ fe = <<f, e>> /\ hg = <<h, g>>
    OBVIOUS
  <1>6. /\ Master!Big("big_endian") /\ Master!Big("big_endian_byte_swap")
        /\ ~Master!Big("little_endian") /\ ~Master!Big("little_endian_byte_swap")
    BY DEF Master!Big
  <1>7. /\ Master!combineRegisters32("big_endian", ab, cd) = l
        /\ Master!combineRegisters32("little_endian", cd, ab) = l
        /\ Master!combineRegisters32("big_endian_byte_swap", ba, dc) = l
        /\ Master!combineRegisters32("little_endian_byte_swap", dc, ba) = l
    <2>1. /\ Master!combineRegisters32("big_endian", <<a, b>>, <<c, d>>) = <<a, b, c, d>>
          /\ Master!combineRegisters32("little_endian", <<c, d>>, <<a, b>>) = <<a, b, c, d>>
          /\ Master!combineRegisters32("big_endian_byte_swap", <<b, a>>, <<d, c>>) = <<a, b, c, d>>
          /\ Master!combineRegisters32("little_endian_byte_swap", <<d, c>>, <<b, a>>) = <<a, b, c, d>>
      BY ONLY CombineTwo, Zenon
    <2> QED  BY ONLY <1>1, <1>3, <1>4, <2>1
  <1>8. /\ Master!combineRegisters32("big_endian", ef, gh) = r
        /\ Master!combineRegisters32("little_endian", gh, ef) = r
        /\ Master!combineRegisters32("big_endian_byte_swap", fe, hg) = r
        /\ Master!combineRegisters32("little_endian_byte_swap", hg, fe) = r
    <2>1. /\ Master!combineRegisters32("big_endian", <<e, f>>, <<g, h>>) = <<e, f, g, h>>
          /\ Master!combineRegisters32("little_endian", <<g, h>>, <<e, f>>) = <<e, f, g, h>>
          /\ Master!combineRegisters32("big_endian_byte_swap", <<f, e>>, <<h, g>>) = <<e, f, g, h>>
          /\ Master!combineRegisters32("little_endian_byte_swap", <<h, g>>, <<f, e>>) = <<e, f, g, h>>
      BY ONLY CombineTwo, Zenon
    <2> QED  BY ONLY <1>1, <1>3, <1>4, <2>1
  <1>9. /\ Master!combineRegisters64("big_endian", <<ab, cd, ef, gh>>) = v
        /\ Master!combineRegisters64("little_endian", <<gh, ef, cd, ab>>) = v
        /\ Master!combineRegisters64("big_endian_byte_swap", <<ba, dc, fe, hg>>) = v
        /\ Master!combineRegisters64("little_endian_byte_swap", <<hg, fe, dc, ba>>) = v
    <2>1. Master!combineRegisters64("big_endian", <<ab, cd, ef, gh>>) =
             Master!combineRegisters32("big_endian", ab, cd)
               \o Master!combineRegisters32("big_endian", ef, gh)
      BY ONLY <1>6 DEF Master!combineRegisters64
    <2>2. Master!combineRegisters64("big_endian", <<ab, cd, ef, gh>>) = v
      BY ONLY <1>2, <1>7, <1>8, <2>1
    <2>3. Master!combineRegisters64("little_endian", <<gh, ef, cd, ab>>) =
             Master!combineRegisters32("little_endian", cd, ab)
               \o Master!combineRegisters32("little_endian", gh, ef)
      BY ONLY <1>6 DEF Master!combineRegisters64
    <2>4. Master!combineRegisters64("little_endian", <<gh, ef, cd, ab>>) = v
      BY ONLY <1>2, <1>7, <1>8, <2>3
    <2>5. Master!combineRegisters64("big_endian_byte_swap", <<ba, dc, fe, hg>>) =
             Master!combineRegisters32("big_endian_byte_swap", ba, dc)
               \o Master!combineRegisters32("big_endian_byte_swap", fe, hg)
      BY ONLY <1>6 DEF Master!combineRegisters64
    <2>6. Master!combineRegisters64("big_endian_byte_swap", <<ba, dc, fe, hg>>) = v
      BY ONLY <1>2, <1>7, <1>8, <2>5
    <2>7. Master!combineRegisters64("little_endian_byte_swap", <<hg, fe, dc, ba>>) =
             Master!combineRegisters32("little_endian_byte_swap", dc, ba)
               \o Master!combineRegisters32("little_endian_byte_swap", hg, fe)
      BY ONLY <1>6 DEF Master!combineRegisters64
    <2>8. Master!combineRegisters64("little_endian_byte_swap", <<hg, fe, dc, ba>>) = v
      BY ONLY <1>2, <1>7, <1>8, <2>7
    <2> QED  BY ONLY <2>2, <2>4, <2>6, <2>8
  <1> QED  BY ONLY <1>3, <1>4, <1>9

LEMMA SameSeq ==
    ASSUME NEW s, IsSeq(s), NEW t, IsSeq(t), Len(s) = Len(t), \A i \in 1..Len(s) : s[i] = t[i]
    PROVE  s = t
  BY DEF IsSeq

LEMMA SubWhole ==
    ASSUME NEW s, IsSeq(s), NEW n, n = Len(s), n > 0
    PROVE  SubSeq(s, 1, n) = s
  <1>1. n \in Nat
    BY DEF IsSeq
  <1>2. 1 \in 1..(Len(s) + 1) /\ n \in (1 - 1)..Len(s)
    BY <1>1
  <1>3. PICK u : u = SubSeq(s, 1, n)
    OBVIOUS
  <1>4. IsSeq(u) /\ Len(u) = n - 1 + 1 /\ \A i \in 1..(n - 1 + 1) : u[i] = s[1 + i - 1]
    BY <1>2, <1>3, SubAny
  <1>5. Len(u) = Len(s) /\ \A i \in 1..Len(u) : u[i] = s[i]
    BY <1>1, <1>4
  <1> QED  BY <1>3, <1>4, <1>5, SameSeq

(* The registers of one value are read as one value. *)
LEMMA OneValue ==
    ASSUME NEW type, NEW order, NEW regs, IsSeq(regs), NEW step \in {1, 2, 4},
           step = Master!registersPerType[type], Len(regs) = step
    PROVE  Master!registersToJson(type, order, regs) = <<Master!ToValue(type, order, regs)>>
  <1>1. step \div step = 1 /\ (1 - 1) * step + 1 = 1 /\ 1 * step = step /\ step > 0
    <2>1. CASE step = 1
      BY <2>1
    <2>2. CASE step = 2
      BY <2>2
    <2>3. CASE step = 4
      BY <2>3
    <2> QED  BY <2>1, <2>2, <2>3
  <1>2. SubSeq(regs, 1, step) = regs
    BY <1>1, SubWhole
  <1>3. Master!registersToJson(type, order, regs) =
           [i \in 1..1 |-> Master!ToValue(type, order, SubSeq(regs, (i - 1) * step + 1, i * step))]
    BY <1>1 DEF Master!registersToJson
  <1>4. \A i \in 1..1 : SubSeq(regs, (i - 1) * step + 1, i * step) = regs
    <2>1. \A i \in 1..1 : i = 1
      OBVIOUS
    <2> QED  BY <1>1, <1>2, <2>1
  <1>5. PICK v : v = Master!ToValue(type, order, regs)
    OBVIOUS
  <1>6. Master!registersToJson(type, order, regs) = [i \in 1..1 |-> v]
    BY <1>3, <1>4, <1>5
  <1>7. [i \in 1..1 |-> v] = <<v>>
    OBVIOUS
  <1> QED  BY <1>5, <1>6, <1>7

(* The reference layouts. *)
LEMMA LayoutOfTwo ==
    ASSUME NEW a, NEW b, NEW c, NEW d, NEW v, v = <<a, b, c, d>>
    PROVE  /\ Master!Layout("big_endian", v) = <<<<a, b>>, <<c, d>>>>
           /\ Master!Layout("little_endian", v) = <<<<c, d>>, <<a, b>>>>
           /\ Master!Layout("big_endian_byte_swap", v) = <<<<b, a>>, <<d, c>>>>
           /\ Master!Layout("little_endian_byte_swap", v) = <<<<d, c>>, <<b, a>>>>
  <1>1. Len(v) = 4 /\ Len(v) \div 2 = 2
    OBVIOUS
  <1>2. PICK ab, cd : ab = <<a, b>> /\ cd = <<c, d>>
    OBVIOUS
  <1>3. PICK ba, dc : ba = <<b, a>> /\ dc = <<d, c>>
    OBVIOUS
  <1>4. Master!Layout("big_endian", v) = <<ab, cd>>
    <2>1. PICK f : f = Master!Layout("big_endian", v)
      OBVIOUS
    <2>2. DOMAIN f = 1..2 /\ IsSeq(f)
      <3>1. f = [i \in 1..2 |-> f[i]]
        BY <1>1, <2>1 DEF Master!Layout
      <3>2. f \in Seq({f[i] : i \in 1..2})
        BY <3>1
      <3> QED  BY <3>1, <3>2, SeqIsSeq
    <2>3. f[1] = ab /\ f[2] = cd
      BY <1>1, <1>2, <1>3, <2>1 DEF Master!Layout
    <2>4. Len(f) = 2
      BY <2>2 DEF IsSeq
    <2>5. f = <<f[1], f[2]>>
      BY <2>2, <2>4, Tuples
    <2> QED  BY ONLY <2>1, <2>3, <2>5
  <1>5. Master!Layout("little_endian", v) = <<cd, ab>>
    <2>1. PICK f : f = Master!Layout("little_endian", v)
      OBVIOUS
    <2>2. DOMAIN f = 1..2 /\ IsSeq(f)
      <3>1. f = [i \in 1..2 |-> f[i]]
        BY <1>1, <2>1 DEF Master!Layout
      <3>2. f \in Seq({f[i] : i \in 1..2})
        BY <3>1
      <3> QED  BY <3>1, <3>2, SeqIsSeq
    <2>3. f[1] = cd /\ f[2] = ab
      BY <1>1, <1>2, <1>3, <2>1 DEF Master!Layout
    <2>4. Len(f) = 2
      BY <2>2 DEF IsSeq
    <2>5. f = <<f[1], f[2]>>
      BY <2>2, <2>4, Tuples
    <2> QED  BY ONLY <2>1, <2>3, <2>5
  <1>6. Master!Layout("big_endian_byte_swap", v) = <<ba, dc>>
    <2>1. PICK f : f = Master!Layout("big_endian_byte_swap", v)
      OBVIOUS
    <2>2. DOMAIN f = 1..2 /\ IsSeq(f)
      <3>1. f = [i \in 1..2 |-> f[i]]
        BY <1>1, <2>1 DEF Master!Layout
      <3>2. f \in Seq({f[i] : i \in 1..2})
        BY <3>1
      <3> QED  BY <3>1, <3>2, SeqIsSeq
    <2>3. f[1] = ba /\ f[2] = dc
      BY <1>1, <1>2, <1>3, <2>1 DEF Master!Layout
    <2>4. Len(f) = 2
      BY <2>2 DEF IsSeq
    <2>5. f = <<f[1], f[2]>>
      BY <2>2, <2>4, Tuples
    <2> QED  BY ONLY <2>1, <2>3, <2>5
  <1>7. Master!Layout("little_endian_byte_swap", v) = <<dc, ba>>
    <2>1. PICK f : f = Master!Layout("little_endian_byte_swap", v)
      OBVIOUS
    <2>2. DOMAIN f = 1..2 /\ IsSeq(f)
      <3>1. f = [i \in 1..2 |-> f[i]]
        BY <1>1, <2>1 DEF Master!Layout
      <3>2. f \in Seq({f[i] : i \in 1..2})
        BY <3>1
      <3> QED  BY <3>1, <3>2, SeqIsSeq
    <2>3. f[1] = dc /\ f[2] = ba
      BY <1>1, <1>2, <1>3, <2>1 DEF Master!Layout
    <2>4. Len(f) = 2
      BY <2>2 DEF IsSeq
    <2>5. f = <<f[1], f[2]>>
      BY <2>2, <2>4, Tuples
    <2> QED  BY ONLY <2>1, <2>3, <2>5
  <1> QED  BY ONLY <1>2, <1>3, <1>4, <1>5, <1>6, <1>7

LEMMA LayoutOfFour ==
    ASSUME NEW a, NEW b, NEW c, NEW d, NEW e, NEW f, NEW g, NEW h, NEW v, v = <<a, b, c, d, e, f, g, h>>
    PROVE  /\ Master!Layout("big_endian", v) =
                 <<<<a, b>>, <<c, d>>, <<e, f>>, <<g, h>>>>
           /\ Master!Layout("little_endian", v) =
                 <<<<g, h>>, <<e, f>>, <<c, d>>, <<a, b>>>>
           /\ Master!Layout("big_endian_byte_swap", v) =
                 <<<<b, a>>, <<d, c>>, <<f, e>>, <<h, g>>>>
           /\ Master!Layout("little_endian_byte_swap", v) =
                 <<<<h, g>>, <<f, e>>, <<d, c>>, <<b, a>>>>
  <1>1. Len(v) = 8 /\ Len(v) \div 2 = 4
    OBVIOUS
  <1>2. PICK ab, cd, ef, gh : ab = <<a, b>> /\ cd = <<c, d>> /\ ef = <<e, f>> /\ gh = <<g, h>>
    OBVIOUS
  <1>3. PICK ba, dc, fe, hg : ba = <<b, a>> /\ dc = <<d, c>> /\ fe = <<f, e>> /\ hg = <<h, g>>
    OBVIOUS
  <1>4. Master!Layout("big_endian", v) = <<ab, cd, ef, gh>>
    <2>1. PICK s : s = Master!Layout("big_endian", v)
      OBVIOUS
    <2>2. DOMAIN s = 1..4 /\ IsSeq(s)
      <3>1. s = [i \in 1..4 |-> s[i]]
        BY <1>1, <2>1 DEF Master!Layout
      <3>2. s \in Seq({s[i] : i \in 1..4})
        BY <3>1
      <3> QED  BY <3>1, <3>2, SeqIsSeq
    <2>3. s[1] = ab /\ s[2] = cd /\ s[3] = ef /\ s[4] = gh
      BY <1>1, <1>2, <1>3, <2>1 DEF Master!Layout
    <2>4. Len(s) = 4
      BY <2>2 DEF IsSeq
    <2>5. s = <<s[1], s[2], s[3], s[4]>>
      BY <2>2, <2>4, Tuples
    <2> QED  BY ONLY <2>1, <2>3, <2>5
  <1>5. Master!Layout("little_endian", v) = <<gh, ef, cd, ab>>
    <2>1. PICK s : s = Master!Layout("little_endian", v)
      OBVIOUS
    <2>2. DOMAIN s = 1..4 /\ IsSeq(s)
      <3>1. s = [i \in 1..4 |-> s[i]]
        BY <1>1, <2>1 DEF Master!Layout
      <3>2. s \in Seq({s[i] : i \in 1..4})
        BY <3>1
      <3> QED  BY <3>1, <3>2, SeqIsSeq
    <2>3. s[1] = gh /\ s[2] = ef /\ s[3] = cd /\ s[4] = ab
      BY <1>1, <1>2, <1>3, <2>1 DEF Master!Layout
    <2>4. Len(s) = 4
      BY <2>2 DEF IsSeq
    <2>5. s = <<s[1], s[2], s[3], s[4]>>
      BY <2>2, <2>4, Tuples
    <2> QED  BY ONLY <2>1, <2>3, <2>5
  <1>6. Master!Layout("big_endian_byte_swap", v) = <<ba, dc, fe, hg>>
    <2>1. PICK s : s = Master!Layout("big_endian_byte_swap", v)
      OBVIOUS
    <2>2. DOMAIN s = 1..4 /\ IsSeq(s)
      <3>1. s = [i \in 1..4 |-> s[i]]
        BY <1>1, <2>1 DEF Master!Layout
      <3>2. s \in Seq({s[i] : i \in 1..4})
        BY <3>1
      <3> QED  BY <3>1, <3>2, SeqIsSeq
    <2>3. s[1] = ba /\ s[2] = dc /\ s[3] = fe /\ s[4] = hg
      BY <1>1, <1>2, <1>3, <2>1 DEF Master!Layout
    <2>4. Len(s) = 4
      BY <2>2 DEF IsSeq
    <2>5. s = <<s[1], s[2], s[3], s[4]>>
      BY <2>2, <2>4, Tuples
    <2> QED  BY ONLY <2>1, <2>3, <2>5
  <1>7. Master!Layout("little_endian_byte_swap", v) = <<hg, fe, dc, ba>>
    <2>1. PICK s : s = Master!Layout("little_endian_byte_swap", v)
      OBVIOUS
    <2>2. DOMAIN s = 1..4 /\ IsSeq(s)
      <3>1. s = [i \in 1..4 |-> s[i]]
        BY <1>1, <2>1 DEF Master!Layout
      <3>2. s \in Seq({s[i] : i \in 1..4})
        BY <3>1
      <3> QED  BY <3>1, <3>2, SeqIsSeq
    <2>3. s[1] = hg /\ s[2] = fe /\ s[3] = dc /\ s[4] = ba
      BY <1>1, <1>2, <1>3, <2>1 DEF Master!Layout
    <2>4. Len(s) = 4
      BY <2>2 DEF IsSeq
    <2>5. s = <<s[1], s[2], s[3], s[4]>>
      BY <2>2, <2>4, Tuples
    <2> QED  BY ONLY <2>1, <2>3, <2>5
  <1> QED  BY ONLY <1>2, <1>3, <1>4, <1>5, <1>6, <1>7

\* A value in its registers is in the layout of its order, and reads back.
ValueHolds(t, regs) ==
    /\ IsSeq(regs) /\ Master!registersToJson(t[1], t[2], regs) = <<Master!Value[t[1]]>>
    /\ t[1] # "uint16" => regs = Master!Layout(t[2], Master!Value[t[1]])

LEMMA ValueOfTwo ==
    ASSUME NEW o \in Master!Orders
    PROVE  ValueHolds(<<"float32", o>>, Master!FromValue("float32", o, Master!Value["float32"]))
  <1>1. PICK a, b, c, d : a = 1 /\ b = 2 /\ c = 3 /\ d = 4
    OBVIOUS
  <1>2. PICK v : v = <<a, b, c, d>>
    OBVIOUS
  <1>3. Master!Value["float32"] = v /\ Master!registersPerType["float32"] = 2
    BY <1>1, <1>2 DEF Master!Value, Master!registersPerType
  <1>4. PICK regs : regs = Master!splitRegisters32(o, v)
    OBVIOUS
  <1>5. Master!FromValue("float32", o, v) = regs
    BY <1>3, <1>4 DEF Master!FromValue
  <1>6. PICK w : w = Master!combineRegisters32(o, regs[1], regs[2])
    OBVIOUS
  <1>7. Master!ToValue("float32", o, regs) = w
    BY <1>3, <1>6 DEF Master!ToValue
  <1>8. w = v /\ regs = Master!Layout(o, v) /\ IsSeq(regs) /\ Len(regs) = 2
    <2>1. \A x, y : /\ IsSeq(<<x, y>>) /\ Len(<<x, y>>) = 2 /\ <<x, y>>[1] = x /\ <<x, y>>[2] = y
      BY Zenon, SmallSeqs
    <2>2. CASE o = "big_endian"
      <3>1. regs = <<<<a, b>>, <<c, d>>>>
        BY <1>2, <1>4, <2>2, SplitTwo
      <3>2. Master!Layout(o, v) = <<<<a, b>>, <<c, d>>>>
        BY <1>2, <2>2, LayoutOfTwo
      <3>3. Master!combineRegisters32(o, <<a, b>>, <<c, d>>) = v
        <4>1. Master!combineRegisters32("big_endian", <<a, b>>, <<c, d>>) = <<a, b, c, d>>
          BY ONLY CombineTwo, Zenon
        <4> QED  BY <1>2, <2>2, <4>1
      <3> QED  BY <1>6, <2>1, <3>1, <3>2, <3>3
    <2>3. CASE o = "little_endian"
      <3>1. regs = <<<<c, d>>, <<a, b>>>>
        BY <1>2, <1>4, <2>3, SplitTwo
      <3>2. Master!Layout(o, v) = <<<<c, d>>, <<a, b>>>>
        BY <1>2, <2>3, LayoutOfTwo
      <3>3. Master!combineRegisters32(o, <<c, d>>, <<a, b>>) = v
        <4>1. Master!combineRegisters32("little_endian", <<c, d>>, <<a, b>>) = <<a, b, c, d>>
          BY ONLY CombineTwo, Zenon
        <4> QED  BY <1>2, <2>3, <4>1
      <3> QED  BY <1>6, <2>1, <3>1, <3>2, <3>3
    <2>4. CASE o = "big_endian_byte_swap"
      <3>1. regs = <<<<b, a>>, <<d, c>>>>
        BY <1>2, <1>4, <2>4, SplitTwo
      <3>2. Master!Layout(o, v) = <<<<b, a>>, <<d, c>>>>
        BY <1>2, <2>4, LayoutOfTwo
      <3>3. Master!combineRegisters32(o, <<b, a>>, <<d, c>>) = v
        <4>1. Master!combineRegisters32("big_endian_byte_swap", <<b, a>>, <<d, c>>) = <<a, b, c, d>>
          BY ONLY CombineTwo, Zenon
        <4> QED  BY <1>2, <2>4, <4>1
      <3> QED  BY <1>6, <2>1, <3>1, <3>2, <3>3
    <2>5. CASE o = "little_endian_byte_swap"
      <3>1. regs = <<<<d, c>>, <<b, a>>>>
        BY <1>2, <1>4, <2>5, SplitTwo
      <3>2. Master!Layout(o, v) = <<<<d, c>>, <<b, a>>>>
        BY <1>2, <2>5, LayoutOfTwo
      <3>3. Master!combineRegisters32(o, <<d, c>>, <<b, a>>) = v
        <4>1. Master!combineRegisters32("little_endian_byte_swap", <<d, c>>, <<b, a>>) = <<a, b, c, d>>
          BY ONLY CombineTwo, Zenon
        <4> QED  BY <1>2, <2>5, <4>1
      <3> QED  BY <1>6, <2>1, <3>1, <3>2, <3>3
    <2> QED  BY <2>2, <2>3, <2>4, <2>5 DEF Master!Orders
  <1>9. Master!registersToJson("float32", o, regs) = <<v>>
    BY <1>3, <1>7, <1>8, OneValue
  <1> QED  BY <1>3, <1>5, <1>8, <1>9 DEF ValueHolds

LEMMA ValueOfFour ==
    ASSUME NEW o \in Master!Orders
    PROVE  ValueHolds(<<"int64", o>>, Master!FromValue("int64", o, Master!Value["int64"]))
  <1>1. PICK a, b, c, d, e, f, g, h :
           a = 1 /\ b = 2 /\ c = 3 /\ d = 4 /\ e = 5 /\ f = 6 /\ g = 7 /\ h = 8
    OBVIOUS
  <1>2. PICK v : v = <<a, b, c, d, e, f, g, h>>
    OBVIOUS
  <1>3. Master!Value["int64"] = v /\ Master!registersPerType["int64"] = 4
    BY <1>1, <1>2 DEF Master!Value, Master!registersPerType
  <1>4. PICK regs : regs = Master!splitRegisters64(o, v)
    OBVIOUS
  <1>5. Master!FromValue("int64", o, v) = regs
    BY <1>3, <1>4 DEF Master!FromValue
  <1>6. PICK w : w = Master!combineRegisters64(o, regs)
    OBVIOUS
  <1>7. Master!ToValue("int64", o, regs) = w
    BY <1>3, <1>6 DEF Master!ToValue
  <1>8. w = v /\ regs = Master!Layout(o, v) /\ IsSeq(regs) /\ Len(regs) = 4
    <2>1. \A x, y, z, u : IsSeq(<<x, y, z, u>>) /\ Len(<<x, y, z, u>>) = 4
      BY Zenon, FourAndEight
    <2>2. CASE o = "big_endian"
      <3>1. regs = <<<<a, b>>, <<c, d>>, <<e, f>>, <<g, h>>>>
        BY <1>2, <1>4, <2>2, SplitFour
      <3>2. Master!Layout(o, v) = <<<<a, b>>, <<c, d>>, <<e, f>>, <<g, h>>>>
        BY <1>2, <2>2, LayoutOfFour
      <3>3. Master!combineRegisters64(o, <<<<a, b>>, <<c, d>>, <<e, f>>, <<g, h>>>>) = v
        BY <1>2, <2>2, CombineFour
      <3> QED  BY <1>6, <2>1, <3>1, <3>2, <3>3
    <2>3. CASE o = "little_endian"
      <3>1. regs = <<<<g, h>>, <<e, f>>, <<c, d>>, <<a, b>>>>
        BY <1>2, <1>4, <2>3, SplitFour
      <3>2. Master!Layout(o, v) = <<<<g, h>>, <<e, f>>, <<c, d>>, <<a, b>>>>
        BY <1>2, <2>3, LayoutOfFour
      <3>3. Master!combineRegisters64(o, <<<<g, h>>, <<e, f>>, <<c, d>>, <<a, b>>>>) = v
        BY <1>2, <2>3, CombineFour
      <3> QED  BY <1>6, <2>1, <3>1, <3>2, <3>3
    <2>4. CASE o = "big_endian_byte_swap"
      <3>1. regs = <<<<b, a>>, <<d, c>>, <<f, e>>, <<h, g>>>>
        BY <1>2, <1>4, <2>4, SplitFour
      <3>2. Master!Layout(o, v) = <<<<b, a>>, <<d, c>>, <<f, e>>, <<h, g>>>>
        BY <1>2, <2>4, LayoutOfFour
      <3>3. Master!combineRegisters64(o, <<<<b, a>>, <<d, c>>, <<f, e>>, <<h, g>>>>) = v
        BY <1>2, <2>4, CombineFour
      <3> QED  BY <1>6, <2>1, <3>1, <3>2, <3>3
    <2>5. CASE o = "little_endian_byte_swap"
      <3>1. regs = <<<<h, g>>, <<f, e>>, <<d, c>>, <<b, a>>>>
        BY <1>2, <1>4, <2>5, SplitFour
      <3>2. Master!Layout(o, v) = <<<<h, g>>, <<f, e>>, <<d, c>>, <<b, a>>>>
        BY <1>2, <2>5, LayoutOfFour
      <3>3. Master!combineRegisters64(o, <<<<h, g>>, <<f, e>>, <<d, c>>, <<b, a>>>>) = v
        BY <1>2, <2>5, CombineFour
      <3> QED  BY <1>6, <2>1, <3>1, <3>2, <3>3
    <2> QED  BY <2>2, <2>3, <2>4, <2>5 DEF Master!Orders
  <1>9. Master!registersToJson("int64", o, regs) = <<v>>
    BY <1>3, <1>7, <1>8, OneValue
  <1> QED  BY <1>3, <1>5, <1>8, <1>9 DEF ValueHolds

LEMMA MasterValues ==
    ASSUME NEW t \in Master!Typed
    PROVE  ValueHolds(t, Master!FromValue(t[1], t[2], Master!Value[t[1]]))
  <1>1. CASE t = <<"uint16", "big_endian">>
    <2>1. PICK v : v = Master!Value["uint16"]
      OBVIOUS
    <2>2. Master!registersPerType["uint16"] = 1
      BY DEF Master!registersPerType
    <2>3. PICK regs : regs = <<v>>
      OBVIOUS
    <2>4. Master!FromValue("uint16", "big_endian", v) = regs
      BY <2>2, <2>3 DEF Master!FromValue
    <2>5. IsSeq(regs) /\ Len(regs) = 1 /\ regs[1] = v
      BY <2>3, SmallSeqs
    <2>6. Master!ToValue("uint16", "big_endian", regs) = v
      BY <2>2, <2>5 DEF Master!ToValue
    <2>7. Master!registersToJson("uint16", "big_endian", regs) = <<v>>
      BY <2>2, <2>5, <2>6, OneValue
    <2> QED  BY <1>1, <2>1, <2>4, <2>5, <2>7 DEF ValueHolds
  <1>2. CASE t \in {"float32", "int64"} \X Master!Orders
    <2>1. PICK x \in {"float32", "int64"}, o \in Master!Orders : t = <<x, o>>
      BY <1>2
    <2>2. ValueHolds(<<x, o>>, Master!FromValue(x, o, Master!Value[x]))
      BY ValueOfTwo, ValueOfFour
    <2>3. t[1] = x /\ t[2] = o
      BY <2>1
    <2> QED  BY <2>1, <2>2, <2>3
  <1>3. t = <<"uint16", "big_endian">> \/ t \in {"float32", "int64"} \X Master!Orders
    BY DEF Master!Typed
  <1> QED  BY <1>1, <1>2, <1>3

(***************************************************************************)
(* The Modbus masters.  A late answer has the number of an earlier request *)
(* or, without numbers, is on the line when the request is sent.           *)
(***************************************************************************)
MasterKinds == {"tcp", "rtu", "serial"}

MasterTold ==
    said.status = "done" /\ (ctl.kind \in {"rtu", "serial"} => ~said.late) => said.val = said.due

MasterInv ==
    /\ ClientTypes /\ ctl.kind \in MasterKinds
    /\ FewCommands => ClientOrder /\ MasterTold

LEMMA MasterInvHolds ==
    ASSUME MasterInv PROVE Master!TypeOK /\ (FewCommands => Master!AnswersAreTrue)
  <1>1. Master!TypeOK
    BY DEF MasterInv, ClientTypes, Master!TypeOK
  <1>2. \A t \in Master!Typed : t[1] # "uint16" =>
           Master!FromValue(t[1], t[2], Master!Value[t[1]]) = Master!Layout(t[2], Master!Value[t[1]])
    BY MasterValues DEF ValueHolds
  <1> QED  BY <1>1, <1>2 DEF MasterInv, MasterTold, Master!AnswersAreTrue

LEMMA ClientsInit ==
    ASSUME NEW kinds, NEW slave, kinds \subseteq ClientKinds, DOMAIN slave = ClientAreas,
           \/ Master!ClientInit(kinds, slave) \/ Crane!ClientInit(kinds, slave)
           \/ Analog!ClientInit(kinds, slave) \/ Limaco!ClientInit(kinds, slave)
    PROVE  /\ ClientTypes /\ ClientOrder /\ ctl.kind \in kinds /\ dev = slave
           /\ said.status = "none" /\ said.todo = <<>>
  <1>1. PICK n, m, b, l : n = 0 /\ m = 0 /\ b = FALSE /\ l = FALSE
    OBVIOUS
  <1>2. /\ ctl \in [kind : kinds, conn : {b}, tx : {n}] /\ wire = <<>> /\ dev = slave
        /\ said = [id |-> m, status |-> "none", code |-> 0, cmd |-> "none", val |-> <<>>,
                   due |-> <<>>, late |-> l, todo |-> <<>>]
    BY Zenon, <1>1, ClientsNames DEF Master!ClientInit, Crane!ClientInit, Analog!ClientInit, Limaco!ClientInit
  <1>3. /\ DOMAIN ctl = {"kind", "conn", "tx"} /\ ctl.kind \in kinds /\ ctl.tx = n
        /\ DOMAIN said = {"id", "status", "code", "cmd", "val", "due", "late", "todo"}
        /\ said.id = m /\ said.status = "none" /\ said.todo = <<>>
    BY ONLY <1>2
  <1>4. /\ TxIds \in Nat \ {0} /\ MaxLate \in Nat /\ MaxCommands \in Nat
        /\ IsSeq(<<>>) /\ Len(<<>>) = 0 /\ Elements(<<>>) = {}
    BY DevicesAssumption DEF IsSeq, Elements
  <1>5. ClientTypes
    BY <1>1, <1>2, <1>3, <1>4 DEF ClientTypes
  <1>6. ClientOrder
    BY <1>1, <1>2, <1>3, <1>4 DEF ClientOrder
  <1> QED  BY <1>2, <1>3, <1>5, <1>6

LEMMA MasterStarts == Master!Init => MasterInv
  <1> SUFFICES ASSUME Master!Init PROVE MasterInv
    OBVIOUS
  <1>1. Master!ClientInit(MasterKinds, Master!Slaves)
    BY DEF Master!Init, MasterKinds
  <1>2. DOMAIN Master!Slaves = ClientAreas /\ MasterKinds \subseteq ClientKinds
    BY DEF Master!Slaves, ClientAreas, MasterKinds, ClientKinds
  <1>3. ClientTypes /\ ClientOrder /\ ctl.kind \in MasterKinds /\ said.status = "none"
    BY <1>1, <1>2, ClientsInit
  <1> QED  BY <1>3 DEF MasterInv, MasterTold

LEMMA MasterNames ==
    /\ \A c, s, k, v, d : Master!Answer(c, s, k, v, d) <=> Answered(c, s, k, v, d)
    /\ \A q, r : r \in Master!Request(q) /\ dev' = r.d /\ wire' = r.line
                 /\ ctl' = [ctl EXCEPT !.conn = TRUE, !.tx = r.tx] <=> Asked(q, r)
  BY Zenon, MasterRequests, ClientsNames DEF Master!Answer, Answered, Asked

(* A command that is one request ends with what is due, or in an error. *)
LEMMA MasterEnds ==
    ASSUME MasterInv, said.id < MaxCommands, NEW q, NEW r, Asked(q, r),
           NEW cmd, NEW status, NEW code, NEW val, NEW due, Answered(cmd, status, code, val, due),
           FewCommands /\ ClientSure /\ status = "done" => val = due
    PROVE  MasterInv'
  <1>1. /\ ClientSaid /\ said'.status = status /\ said'.val = val /\ said'.due = due
        /\ said'.late <=> wire # <<>>
    BY ClientsAnswer DEF MasterInv
  <1>2. ClientTypes' /\ (FewCommands /\ ClientOrder => ClientOrder') /\ ctl'.kind = ctl.kind
    BY <1>1, ClientsCommand DEF MasterInv
  <1>3. ASSUME FewCommands PROVE MasterTold'
    <2>1. SUFFICES ASSUME status = "done", ctl.kind \in {"rtu", "serial"} => wire = <<>>
                   PROVE  val = due
      BY <1>1, <1>2 DEF MasterTold
    <2>2. ClientSure
      BY <1>3, <2>1 DEF ClientSure, FewCommands, MasterInv, MasterKinds, Networked
    <2> QED  BY <1>3, <2>1, <2>2
  <1>4. MasterKinds' = MasterKinds /\ (FewCommands' <=> FewCommands)
    BY DEF MasterKinds, FewCommands
  <1> QED  BY <1>2, <1>3, <1>4 DEF MasterInv

LEMMA MasterRefuses ==
    ASSUME MasterInv, said.id < MaxCommands, NEW cmd, NEW status, NEW code,
           Answered(cmd, status, code, <<>>, <<>>), UNCHANGED <<ctl, wire, dev>>
    PROVE  MasterInv'
  <1>1. ClientSaid /\ said'.val = <<>> /\ said'.due = <<>>
    BY ClientsAnswer DEF MasterInv
  <1>2. ClientTypes' /\ (ClientOrder => ClientOrder')
    BY <1>1, ClientsRefuse DEF MasterInv
  <1>3. MasterTold'
    BY <1>1 DEF MasterTold
  <1>4. FewCommands' <=> FewCommands
    BY DEF FewCommands
  <1> QED  BY <1>2, <1>3, <1>4 DEF MasterInv, MasterKinds

LEMMA MasterDisconnects ==
    ASSUME MasterInv, Master!Disconnected PROVE MasterInv'
  <1>1. Clients!Disconnected
    BY DEF Master!Disconnected, Clients!Disconnected, Master!Quiet, Clients!Quiet
  <1>2. ClientTypes' /\ ClientOrder' /\ said' = said /\ ctl'.kind = ctl.kind
    BY <1>1, ClientsDisconnect DEF MasterInv
  <1>3. (FewCommands => MasterTold) => (FewCommands => MasterTold')
    BY <1>2 DEF MasterTold
  <1>4. FewCommands' <=> FewCommands
    BY DEF FewCommands
  <1> QED  BY <1>2, <1>3, <1>4 DEF MasterInv, MasterKinds

LEMMA MasterReadsBits ==
    ASSUME MasterInv, said.id < MaxCommands, NEW cmd, NEW fc \in ReadCodes, NEW addr \in Nat, NEW n \in Nat,
           Master!ReadBits(cmd, fc, addr, n)
    PROVE  MasterInv'
  <1> DEFINE q == Clients!Read(fc, addr, n)
  <1>1. PICK r : /\ Asked(q, r)
                 /\ IF r.ok THEN Answered(cmd, "done", 0, r.p, Clients!Due(fc, addr, n))
                    ELSE Answered(cmd, "error", 2, <<>>, <<>>)
    BY Zenon, MasterNames, ClientsNames DEF Master!ReadBits, Master!Perform
  <1>2. FewCommands /\ ClientSure /\ r.ok => r.p = Clients!Due(fc, addr, n)
    <2>1. FewCommands /\ ClientSure /\ r.ok => Showed(fc, addr, n, r)
      BY <1>1, ClientsReadTrue DEF MasterInv
    <2> QED  BY <2>1 DEF Showed
  <1> HIDE DEF q
  <1>3. CASE r.ok
    BY <1>1, <1>2, <1>3, MasterEnds
  <1>4. CASE ~r.ok
    BY <1>1, <1>4, MasterEnds
  <1> QED  BY <1>3, <1>4

LEMMA MasterReadsRegisters ==
    ASSUME MasterInv, said.id < MaxCommands, NEW cmd, NEW fc \in ReadCodes, NEW addr \in Nat, NEW n \in Nat,
           NEW t, Master!ReadRegisters(cmd, fc, addr, n, t)
    PROVE  MasterInv'
  <1> DEFINE q == Clients!Read(fc, addr, n)
  <1>1. PICK r : /\ Asked(q, r)
                 /\ IF r.ok THEN Answered(cmd, "done", 0, Master!registersToJson(t[1], t[2], r.p),
                                          Master!registersToJson(t[1], t[2], Clients!Due(fc, addr, n)))
                    ELSE Answered(cmd, "error", 2, <<>>, <<>>)
    BY Zenon, MasterNames, ClientsNames DEF Master!ReadRegisters, Master!Perform
  <1>2. FewCommands /\ ClientSure /\ r.ok => r.p = Clients!Due(fc, addr, n)
    <2>1. FewCommands /\ ClientSure /\ r.ok => Showed(fc, addr, n, r)
      BY <1>1, ClientsReadTrue DEF MasterInv
    <2> QED  BY <2>1 DEF Showed
  <1>3. PICK val, due : /\ val = Master!registersToJson(t[1], t[2], r.p)
                        /\ due = Master!registersToJson(t[1], t[2], Clients!Due(fc, addr, n))
    OBVIOUS
  <1>4. /\ FewCommands /\ ClientSure /\ r.ok => val = due
        /\ IF r.ok THEN Answered(cmd, "done", 0, val, due) ELSE Answered(cmd, "error", 2, <<>>, <<>>)
    BY <1>1, <1>2, <1>3
  <1> HIDE DEF q
  <1>5. CASE r.ok
    BY <1>1, <1>4, <1>5, MasterEnds
  <1>6. CASE ~r.ok
    BY <1>1, <1>4, <1>6, MasterEnds
  <1> QED  BY <1>5, <1>6

LEMMA MasterWritesItems ==
    ASSUME MasterInv, said.id < MaxCommands, NEW cmd, NEW fc \in WriteCodes, NEW addr \in Nat,
           NEW items, IsSeq(items), Master!WriteItems(cmd, fc, addr, items)
    PROVE  MasterInv'
  <1> DEFINE q == Clients!Write(fc, addr, items)
  <1>1. PICK r : /\ Asked(q, r)
                 /\ IF r.ok THEN Answered(cmd, "done", 0, items, Clients!Due(fc, addr, Len(items)))
                    ELSE Answered(cmd, "error", 2, <<>>, <<>>)
    BY Zenon, MasterNames, ClientsNames DEF Master!WriteItems, Master!Perform
  <1>2. FewCommands /\ ClientSure /\ r.ok => Landed(fc, addr, items)
    BY <1>1, ClientsWriteTrue DEF MasterInv
  <1>3. FewCommands /\ ClientSure /\ r.ok => items = Clients!Due(fc, addr, Len(items))
    BY <1>2 DEF Landed
  <1> HIDE DEF q
  <1>4. CASE r.ok
    BY <1>1, <1>3, <1>4, MasterEnds
  <1>5. CASE ~r.ok
    BY <1>1, <1>5, MasterEnds
  <1> QED  BY <1>4, <1>5

LEMMA MasterWritesValue ==
    ASSUME MasterInv, said.id < MaxCommands, NEW addr \in Nat, NEW t \in Master!Typed, Master!WriteValue(addr, t)
    PROVE  MasterInv'
  <1>1. PICK regs, v : regs = Master!FromValue(t[1], t[2], Master!Value[t[1]]) /\ v = Master!Value[t[1]]
    OBVIOUS
  <1>2. IsSeq(regs) /\ Master!registersToJson(t[1], t[2], regs) = <<v>>
    BY <1>1, MasterValues DEF ValueHolds
  <1> DEFINE q == Clients!Write(16, addr, regs)
             due == Master!registersToJson(t[1], t[2], Clients!Due(16, addr, Len(regs)))
             cmd == "write_holding_registers"
  <1>3. PICK r : /\ Asked(q, r)
                 /\ IF r.ok THEN Answered(cmd, "done", 0, <<v>>, due)
                    ELSE Answered(cmd, "error", 2, <<>>, <<>>)
    BY Zenon, <1>1, MasterNames, ClientsNames DEF Master!WriteValue, Master!Perform
  <1>4. FewCommands /\ ClientSure /\ r.ok => <<v>> = due
    <2>1. SUFFICES ASSUME FewCommands, ClientSure, r.ok PROVE <<v>> = due
      OBVIOUS
    <2>2. 16 \in WriteCodes
      BY DEF WriteCodes
    <2>3. Landed(16, addr, regs)
      BY <1>2, <1>3, <2>1, <2>2, ClientsWriteTrue DEF MasterInv
    <2>4. regs = Clients!Due(16, addr, Len(regs))
      BY <2>3 DEF Landed
    <2> QED  BY <1>2, <2>4
  <1> HIDE DEF q, due, cmd
  <1>5. CASE r.ok
    BY <1>3, <1>4, <1>5, MasterEnds
  <1>6. CASE ~r.ok
    BY <1>3, <1>6, MasterEnds
  <1> QED  BY <1>5, <1>6

LEMMA MasterCommandRefuses ==
    ASSUME MasterInv, said.id < MaxCommands, NEW cmd, NEW code,
           Master!Refuse(cmd, code) \/ Master!ConnectFails(cmd)
    PROVE  MasterInv'
  <1>1. PICK c : Answered(cmd, "error", c, <<>>, <<>>) /\ UNCHANGED <<ctl, wire, dev>>
    BY Zenon, MasterNames DEF Master!Refuse, Master!ConnectFails, Master!getClient, Master!getConnection
  <1> QED  BY <1>1, MasterRefuses

LEMMA MasterCommands ==
    ASSUME MasterInv, said.id < MaxCommands, NEW c, Master!Command(c) PROVE MasterInv'
  <1>1. ASSUME c = "status", Master!Answer(c, "done", 0, <<>>, <<>>), UNCHANGED <<ctl, wire, dev>>
        PROVE  MasterInv'
    <2>1. Answered(c, "done", 0, <<>>, <<>>)
      BY Zenon, <1>1, MasterNames
    <2> QED  BY <1>1, <2>1, MasterRefuses
  <1>2. ASSUME Master!ConnectFails(c) PROVE MasterInv'
    BY <1>2, MasterCommandRefuses
  <1>0. Master!Addresses \subseteq Nat
    BY DevicesAssumption DEF Master!Addresses
  <1>3. ASSUME c \in {"read_coils", "read_discrete_inputs"}, NEW addr \in Master!Addresses,
               Master!ReadBits(c, Master!FunctionOf[c], addr, 1)
        PROVE  MasterInv'
    <2>1. PICK fc : fc = Master!FunctionOf[c]
      OBVIOUS
    <2>2. fc \in ReadCodes
      BY <1>3, <2>1 DEF ReadCodes, Master!FunctionOf
    <2>3. PICK n \in Nat : n = 1
      OBVIOUS
    <2>4. Master!ReadBits(c, fc, addr, n) /\ addr \in Nat
      BY <1>0, <1>3, <2>1, <2>3
    <2> QED  BY <2>2, <2>4, MasterReadsBits
  <1>4. ASSUME c \in DOMAIN Master!Items, NEW addr \in Master!Addresses,
               Master!WriteItems(c, Master!FunctionOf[c], addr, Master!Items[c])
        PROVE  MasterInv'
    <2>1. PICK fc, items : fc = Master!FunctionOf[c] /\ items = Master!Items[c]
      OBVIOUS
    <2>2. fc \in WriteCodes /\ IsSeq(items)
      <3>1. c \in {"write_coil", "write_coils", "write_holding_register", "write_holding_registers_raw"}
        BY <1>4 DEF Master!Items
      <3>2. fc \in WriteCodes
        BY <2>1, <3>1 DEF WriteCodes, Master!FunctionOf
      <3>3. PICK o, a, b, e : o = <<1>> /\ a = <<9, 9>> /\ b = <<3, 4>> /\ e = <<5, 6>>
        OBVIOUS
      <3>4. Master!Items = [write_coil |-> <<o>>, write_coils |-> <<o, o>>,
                            write_holding_register |-> <<a>>, write_holding_registers_raw |-> <<b, e>>]
        BY <3>3 DEF Master!Items
      <3>5. items \in {<<o>>, <<o, o>>, <<a>>, <<b, e>>}
        BY <2>1, <3>1, <3>4
      <3> QED  BY <3>2, <3>5, SmallSeqs
    <2>3. Master!WriteItems(c, fc, addr, items) /\ addr \in Nat
      BY <1>0, <1>4, <2>1
    <2> QED  BY <2>2, <2>3, MasterWritesItems
  <1>5. ASSUME NEW t \in Master!Typed, Master!WriteValue(0, t) PROVE MasterInv'
    <2>1. PICK addr \in Nat : addr = 0
      OBVIOUS
    <2>2. Master!WriteValue(addr, t)
      BY <1>5, <2>1
    <2> QED  BY <2>2, MasterWritesValue
  <1>6. ASSUME c \in {"read_holding_registers", "read_input_registers"}, NEW t \in Master!Typed, NEW n \in {1, 4},
               IF ctl.kind = "serial" THEN Master!SerialReadRegisters(c, Master!FunctionOf[c], 0, n, t)
               ELSE Master!ReadRegisters(c, Master!FunctionOf[c], 0, n, t)
        PROVE  MasterInv'
    <2>1. PICK fc : fc = Master!FunctionOf[c]
      OBVIOUS
    <2>2. fc \in ReadCodes
      BY <1>6, <2>1 DEF ReadCodes, Master!FunctionOf
    <2>3. PICK addr \in Nat : addr = 0
      OBVIOUS
    <2>4. Master!Refuse(c, 3) \/ Master!ReadRegisters(c, fc, addr, n, t)
      BY <1>6, <2>1, <2>3 DEF Master!SerialReadRegisters
    <2>5. CASE Master!Refuse(c, 3)
      BY <2>5, MasterCommandRefuses
    <2>6. CASE Master!ReadRegisters(c, fc, addr, n, t)
      <3>1. n \in Nat
        OBVIOUS
      <3> QED  BY <2>2, <2>6, <3>1, MasterReadsRegisters
    <2> QED  BY <2>4, <2>5, <2>6
  <1> QED  BY <1>1, <1>2, <1>3, <1>4, <1>5, <1>6 DEF Master!Command

LEMMA MasterStep == ASSUME MasterInv, Master!Next PROVE MasterInv'
  <1>1. CASE Master!Handle
    <2>1. said.id < MaxCommands
      BY <1>1 DEF Master!Handle
    <2>2. CASE Master!Refuse("unknown", 404)
      BY <2>1, <2>2, MasterCommandRefuses
    <2>3. ASSUME NEW c \in Master!Described, Master!Command(c) PROVE MasterInv'
      BY <2>1, <2>3, MasterCommands
    <2> QED  BY <1>1, <2>2, <2>3 DEF Master!Handle
  <1>2. CASE Master!Disconnected
    BY <1>2, MasterDisconnects
  <1> QED  BY <1>1, <1>2 DEF Master!Next

(* The other drivers' requests. *)
LEMMA CraneRequests == \A q : Crane!Request(q) = Clients!Request(q)
  BY DEF Crane!Request, Clients!Request, Crane!tcpSendRequest, Clients!tcpSendRequest, 
     Crane!rtuRead, Clients!rtuRead, Crane!rtuWrite, Clients!rtuWrite,
     Crane!serialSendRequest, Clients!serialSendRequest, Crane!Way, Clients!Way,
     Crane!tcpAccepts, Clients!tcpAccepts, Crane!IsReply, Clients!IsReply,
     Crane!rtuFails, Clients!rtuFails, Crane!serialParseResponse, Clients!serialParseResponse, 
     Crane!Misread, Clients!Misread, Crane!Outcomes, Clients!Outcomes,
     Crane!Drained, Clients!Drained, Crane!Exchange, Clients!Exchange, Crane!Reads, Clients!Reads,
     Crane!NoFrame, Clients!NoFrame, Crane!BadFrame, Clients!BadFrame,
     Crane!Slave, Clients!Slave, Crane!Exception, Clients!Exception,
     Crane!Area, Clients!Area, Crane!IsRead, Clients!IsRead

LEMMA AnalogRequests == \A q : Analog!Request(q) = Clients!Request(q)
  BY DEF Analog!Request, Clients!Request, Analog!tcpSendRequest, Clients!tcpSendRequest, 
     Analog!rtuRead, Clients!rtuRead, Analog!rtuWrite, Clients!rtuWrite,
     Analog!serialSendRequest, Clients!serialSendRequest, Analog!Way, Clients!Way,
     Analog!tcpAccepts, Clients!tcpAccepts, Analog!IsReply, Clients!IsReply,
     Analog!rtuFails, Clients!rtuFails, Analog!serialParseResponse, Clients!serialParseResponse, 
     Analog!Misread, Clients!Misread, Analog!Outcomes, Clients!Outcomes,
     Analog!Drained, Clients!Drained, Analog!Exchange, Clients!Exchange, Analog!Reads, Clients!Reads,
     Analog!NoFrame, Clients!NoFrame, Analog!BadFrame, Clients!BadFrame,
     Analog!Slave, Clients!Slave, Analog!Exception, Clients!Exception,
     Analog!Area, Clients!Area, Analog!IsRead, Clients!IsRead

LEMMA LimacoRequests == \A q : Limaco!Request(q) = Clients!Request(q)
  BY DEF Limaco!Request, Clients!Request, Limaco!tcpSendRequest, Clients!tcpSendRequest, 
     Limaco!rtuRead, Clients!rtuRead, Limaco!rtuWrite, Clients!rtuWrite,
     Limaco!serialSendRequest, Clients!serialSendRequest, Limaco!Way, Clients!Way,
     Limaco!tcpAccepts, Clients!tcpAccepts, Limaco!IsReply, Clients!IsReply,
     Limaco!rtuFails, Clients!rtuFails, Limaco!serialParseResponse, Clients!serialParseResponse, 
     Limaco!Misread, Clients!Misread, Limaco!Outcomes, Clients!Outcomes,
     Limaco!Drained, Clients!Drained, Limaco!Exchange, Clients!Exchange, Limaco!Reads, Clients!Reads,
     Limaco!NoFrame, Clients!NoFrame, Limaco!BadFrame, Clients!BadFrame,
     Limaco!Slave, Clients!Slave, Limaco!Exception, Clients!Exception,
     Limaco!Area, Clients!Area, Limaco!IsRead, Clients!IsRead


(* What a request leaves as it was. *)
LEMMA ClientsKeep ==
    ASSUME ClientTypes, NEW q, NEW r, Asked(q, r)
    PROVE  /\ Clients!IsRead(q.fc) => dev' = dev
           /\ \A a \in ClientAreas : a # Clients!Area(q.fc) => dev'[a] = dev[a]
  <1>1. dev' \in {dev, Clients!Slave(dev, q).d}
    BY ClientsAsk DEF Asked, ClientTypes
  <1> DEFINE A == Clients!Area(q.fc)
             v == [a \in DOMAIN dev[A] |-> IF a \in q.addr..(q.addr + q.n - 1)
                                           THEN q.p[a - q.addr + 1] ELSE dev[A][a]]
  <1>2. \A w, x : [d |-> w, re |-> x].d = w
    OBVIOUS
  <1>3. /\ Clients!Slave(dev, q).d \in {dev, [dev EXCEPT ![A] = v]}
        /\ Clients!IsRead(q.fc) => Clients!Slave(dev, q).d = dev
    BY <1>2 DEF Clients!Slave
  <1> HIDE DEF A, v
  <1>4. \A a \in ClientAreas : a # A => dev'[a] = dev[a]
    BY <1>1, <1>3 DEF ClientTypes
  <1> QED  BY <1>1, <1>3, <1>4 DEF A

-----------------------------------------------------------------------------
(***************************************************************************)
(* The PLC of the crane.  Its answers have numbers, so what is told is     *)
(* true whatever was late, and its switches are as the crane leaves them.  *)
(***************************************************************************)
\* What is told of a command that is done.
CraneRight(cmd, val, due) ==
    IF cmd = "read_status"
    THEN /\ val = <<<<1 - due[1][1]>>, due[2], due[5], due[6]>>
         /\ ~(val[1] = <<1>> /\ val[2] = <<1>>) /\ ~(val[3] = <<1>> /\ val[4] = <<1>>)
    ELSE val = due

CraneTold == said.status = "done" => CraneRight(said.cmd, said.val, said.due)

CraneInv ==
    /\ ClientTypes /\ ctl.kind = "crane" /\ dev["discrete"] \in Crane!Switches
    /\ FewCommands => ClientOrder /\ CraneTold

LEMMA CraneInvHolds ==
    ASSUME CraneInv PROVE Crane!TypeOK /\ (FewCommands => Crane!AnswersAreTrue)
  BY DEF CraneInv, ClientTypes, CraneTold, CraneRight, Crane!TypeOK, Crane!AnswersAreTrue

LEMMA CraneNames ==
    /\ \A c, s, k, v, d : Crane!Answer(c, s, k, v, d) <=> Answered(c, s, k, v, d)
    /\ \A q, r : r \in Crane!Request(q) /\ dev' = r.d /\ wire' = r.line
                 /\ ctl' = [ctl EXCEPT !.conn = TRUE, !.tx = r.tx] <=> Asked(q, r)
  BY Zenon, CraneRequests, ClientsNames DEF Crane!Answer, Answered, Asked

LEMMA CraneStarts == Crane!Init => CraneInv
  <1> SUFFICES ASSUME Crane!Init PROVE CraneInv
    OBVIOUS
  <1>1. PICK s \in Crane!Switches : Crane!ClientInit({"crane"}, Crane!Crane(s))
    BY DEF Crane!Init
  <1>2. DOMAIN Crane!Crane(s) = ClientAreas /\ Crane!Crane(s)["discrete"] = s
    BY DEF Crane!Crane, ClientAreas
  <1>3. {"crane"} \subseteq ClientKinds
    BY DEF ClientKinds
  <1>4. /\ ClientTypes /\ ClientOrder /\ ctl.kind \in {"crane"} /\ dev = Crane!Crane(s)
        /\ said.status = "none"
    BY <1>1, <1>2, <1>3, ClientsInit
  <1> QED  BY <1>2, <1>4 DEF CraneInv, CraneTold

LEMMA CraneEnds ==
    ASSUME CraneInv, said.id < MaxCommands, NEW q, NEW r, Asked(q, r), Clients!Area(q.fc) = "discrete" => Clients!IsRead(q.fc),
           NEW cmd, NEW status, NEW code, NEW val, NEW due, Answered(cmd, status, code, val, due),
           FewCommands /\ ClientSure /\ status = "done" => CraneRight(cmd, val, due)
    PROVE  CraneInv'
  <1>1. /\ ClientSaid /\ said'.status = status /\ said'.cmd = cmd /\ said'.val = val /\ said'.due = due
    BY ClientsAnswer DEF CraneInv
  <1>2. ClientTypes' /\ (FewCommands /\ ClientOrder => ClientOrder') /\ ctl'.kind = ctl.kind
    BY <1>1, ClientsCommand DEF CraneInv
  <1>3. dev'["discrete"] = dev["discrete"]
    BY ClientsKeep DEF CraneInv, ClientAreas
  <1>4. FewCommands => ClientSure
    BY DEF FewCommands, ClientSure, CraneInv, Networked
  <1>5. ASSUME FewCommands PROVE CraneTold'
    BY <1>1, <1>4, <1>5 DEF CraneTold, CraneRight
  <1>6. (FewCommands' <=> FewCommands) /\ Crane!Switches' = Crane!Switches
    BY DEF FewCommands, Crane!Switches, Crane!Discrete
  <1> QED  BY <1>2, <1>3, <1>5, <1>6 DEF CraneInv

LEMMA CraneRefuses ==
    ASSUME CraneInv, said.id < MaxCommands, NEW cmd, NEW status, NEW code, status = "done" => cmd # "read_status",
           Answered(cmd, status, code, <<>>, <<>>), UNCHANGED <<ctl, wire, dev>>
    PROVE  CraneInv'
  <1>1. /\ ClientSaid /\ said'.val = <<>> /\ said'.due = <<>> /\ said'.cmd = cmd /\ said'.status = status
    BY ClientsAnswer DEF CraneInv
  <1>2. ClientTypes' /\ (ClientOrder => ClientOrder')
    BY <1>1, ClientsRefuse DEF CraneInv
  <1>3. CraneTold'
    BY <1>1 DEF CraneTold, CraneRight
  <1>4. (FewCommands' <=> FewCommands) /\ Crane!Switches' = Crane!Switches
    BY DEF FewCommands, Crane!Switches, Crane!Discrete
  <1> QED  BY <1>2, <1>3, <1>4 DEF CraneInv

LEMMA CraneDisconnects ==
    ASSUME CraneInv, Crane!Disconnected PROVE CraneInv'
  <1>1. Clients!Disconnected
    BY DEF Crane!Disconnected, Clients!Disconnected, Crane!Quiet, Clients!Quiet
  <1>2. ClientTypes' /\ ClientOrder' /\ said' = said /\ ctl'.kind = ctl.kind /\ dev' = dev
    BY <1>1, ClientsDisconnect DEF CraneInv
  <1>3. (FewCommands => CraneTold) => (FewCommands => CraneTold')
    BY <1>2 DEF CraneTold, CraneRight
  <1>4. (FewCommands' <=> FewCommands) /\ Crane!Switches' = Crane!Switches
    BY DEF FewCommands, Crane!Switches, Crane!Discrete
  <1> QED  BY <1>2, <1>3, <1>4 DEF CraneInv

LEMMA CraneMoves ==
    ASSUME CraneInv, Crane!Moves PROVE CraneInv'
  <1>1. PICK s \in Crane!Switches : dev' = [dev EXCEPT !["discrete"] = s]
    BY DEF Crane!Moves
  <1>2. UNCHANGED <<ctl, wire, said>>
    BY DEF Crane!Moves
  <1>3. DOMAIN dev' = DOMAIN dev /\ dev'["discrete"] = s
    BY <1>1 DEF CraneInv, ClientTypes, ClientAreas
  <1>4. ClientTypes' /\ (ClientOrder => ClientOrder')
    BY <1>2, <1>3 DEF CraneInv, ClientTypes, ClientOrder, ClientKinds, ClientAreas, Networked
  <1>5. CraneTold => CraneTold'
    BY <1>2 DEF CraneTold, CraneRight
  <1>6. (FewCommands' <=> FewCommands) /\ Crane!Switches' = Crane!Switches
    BY DEF FewCommands, Crane!Switches, Crane!Discrete
  <1> QED  BY <1>2, <1>3, <1>4, <1>5, <1>6 DEF CraneInv

\* The status of switches that can be.
LEMMA CraneStatus ==
    ASSUME NEW s \in Crane!Switches, NEW p, p = [i \in 1..6 |-> s[9 + i - 1]]
    PROVE  CraneRight("read_status", Crane!Status(p), p)
  <1>1. PICK zero, one : zero = <<0>> /\ one = <<1>>
    OBVIOUS
  <1>2. /\ s[9] \in {zero, one} /\ s[10] \in {zero, one} /\ s[13] \in {zero, one} /\ s[14] \in {zero, one}
        /\ ~(s[9] = zero /\ s[10] = one) /\ ~(s[13] = one /\ s[14] = one)
    BY <1>1 DEF Crane!Switches, Crane!Discrete
  <1>3. zero[1] = 0 /\ one[1] = 1 /\ \A x : <<x>> = one => x = 1
    BY <1>1
  <1>4. p[1] = s[9] /\ p[2] = s[10] /\ p[5] = s[13] /\ p[6] = s[14]
    OBVIOUS
  <1>5. PICK y : y = <<1 - s[9][1]>>
    OBVIOUS
  <1>6. y = one => s[9] = zero
    BY <1>2, <1>3, <1>5
  <1>7. PICK v : v = <<y, s[10], s[13], s[14]>>
    OBVIOUS
  <1>8. v[1] = y /\ v[2] = s[10] /\ v[3] = s[13] /\ v[4] = s[14]
    BY <1>7
  <1>9. Crane!Status(p) = v
    BY <1>4, <1>5, <1>7 DEF Crane!Status
  <1>10. v = <<<<1 - p[1][1]>>, p[2], p[5], p[6]>>
    BY <1>4, <1>5, <1>7
  <1> QED  BY <1>1, <1>2, <1>6, <1>8, <1>9, <1>10 DEF CraneRight

LEMMA CraneReads ==
    ASSUME CraneInv, said.id < MaxCommands, Crane!ReadStatus PROVE CraneInv'
  <1>1. PICK fc, addr, n, cmd : fc = 2 /\ addr = 9 /\ n = 6 /\ cmd = "read_status"
    OBVIOUS
  <1> DEFINE q == Clients!Read(fc, addr, n)
  <1>2. PICK r : /\ Asked(q, r)
                 /\ IF r.ok THEN Answered(cmd, "done", 0, Crane!Status(r.p), Clients!Due(fc, addr, n))
                    ELSE Answered(cmd, "error", 2, <<>>, <<>>)
    BY Zenon, <1>1, CraneNames, ClientsNames DEF Crane!ReadStatus, Crane!Perform
  <1>3. fc \in ReadCodes /\ addr \in Nat /\ n \in Nat /\ Clients!Area(fc) = "discrete"
    BY <1>1 DEF ReadCodes, Clients!Area
  <1>4. ASSUME FewCommands, ClientSure, r.ok PROVE CraneRight(cmd, Crane!Status(r.p), Clients!Due(fc, addr, n))
    <2>1. Showed(fc, addr, n, r)
      BY <1>2, <1>3, <1>4, ClientsReadTrue DEF CraneInv
    <2>2. r.p = Clients!Due(fc, addr, n) /\ r.p = [i \in 1..6 |-> dev["discrete"][9 + i - 1]]
      BY <1>1, <1>3, <2>1 DEF Showed
    <2>3. CraneRight("read_status", Crane!Status(r.p), r.p)
      BY <2>2, CraneStatus DEF CraneInv
    <2> QED  BY <1>1, <2>2, <2>3
  <1>5. Clients!IsRead(q.fc)
    BY <1>1 DEF Clients!Read, Clients!IsRead
  <1> HIDE DEF q
  <1>6. CASE r.ok
    BY <1>2, <1>4, <1>5, <1>6, CraneEnds
  <1>7. CASE ~r.ok
    BY <1>2, <1>5, <1>7, CraneEnds
  <1> QED  BY <1>6, <1>7

CraneControls == {"cylinder_control", "valve_control", "set_run", "set_mode"}

LEMMA CraneCommandRefuses ==
    ASSUME CraneInv, said.id < MaxCommands, NEW cmd, NEW code,
           Crane!Refuse(cmd, code) \/ Crane!ConnectFails(cmd)
    PROVE  CraneInv'
  <1>1. PICK c : Answered(cmd, "error", c, <<>>, <<>>) /\ UNCHANGED <<ctl, wire, dev>>
    BY Zenon, CraneNames DEF Crane!Refuse, Crane!ConnectFails, Crane!getClient, Crane!getConnection
  <1> QED  BY <1>1, CraneRefuses

LEMMA CraneWrites ==
    ASSUME CraneInv, said.id < MaxCommands, NEW c \in CraneControls, NEW action, Crane!Control(c, action)
    PROVE  CraneInv'
  <1>1. CASE Crane!Refuse(c, 3)
    BY <1>1, CraneCommandRefuses
  <1>2. CASE ~Crane!Refuse(c, 3)
    <2>1. PICK fc, reg, k, x : fc = 6 /\ reg = Crane!Register[c] /\ k = 1 /\ x = Crane!ActionValue[c][action]
      OBVIOUS
    <2> DEFINE v == <<<<x>>>>
               q == Clients!Write(fc, reg, v)
    <2>2. PICK r : /\ Asked(q, r)
                   /\ IF r.ok THEN Answered(c, "done", 0, v, Clients!Due(fc, reg, k))
                      ELSE Answered(c, "error", 2, <<>>, <<>>)
      BY Zenon, <1>2, <2>1, CraneNames, ClientsNames DEF Crane!Control, Crane!Perform
    <2>3. reg \in Nat /\ c # "read_status"
      BY <2>1 DEF CraneControls, Crane!Register
    <2>4. fc \in WriteCodes /\ Clients!Area(fc) = "holding" /\ q.fc = fc
      BY <2>1 DEF WriteCodes, Clients!Area, Clients!Write
    <2>5. IsSeq(v) /\ Len(v) = k
      BY <2>1, SmallSeqs
    <2> HIDE DEF v
    <2>6. ASSUME FewCommands, ClientSure, r.ok PROVE v = Clients!Due(fc, reg, k)
      <3>1. Landed(fc, reg, v)
        BY <2>2, <2>3, <2>4, <2>5, <2>6, ClientsWriteTrue DEF CraneInv
      <3> QED  BY <2>5, <3>1 DEF Landed
    <2> HIDE DEF q
    <2>7. CASE r.ok
      <3>1. FewCommands /\ ClientSure => CraneRight(c, v, Clients!Due(fc, reg, k))
        BY <2>3, <2>6, <2>7 DEF CraneRight
      <3> QED  BY <2>2, <2>4, <2>7, <3>1, CraneEnds
    <2>8. CASE ~r.ok
      BY <2>2, <2>4, <2>8, CraneEnds
    <2> QED  BY <2>7, <2>8
  <1> QED  BY <1>1, <1>2

LEMMA CraneStep == ASSUME CraneInv, Crane!Next PROVE CraneInv'
  <1>1. CASE Crane!Handle
    <2>1. said.id < MaxCommands
      BY <1>1 DEF Crane!Handle
    <2>2. DOMAIN Crane!ActionValue = CraneControls
      BY DEF Crane!ActionValue, CraneControls
    <2>3. CASE Crane!Refuse("unknown", 404)
      BY <2>1, <2>3, CraneCommandRefuses
    <2>4. ASSUME NEW c, c = "status", Crane!Answer(c, "done", 0, <<>>, <<>>), UNCHANGED <<ctl, wire, dev>>
          PROVE  CraneInv'
      <3>1. Answered(c, "done", 0, <<>>, <<>>) /\ c # "read_status"
        BY Zenon, <2>4, CraneNames
      <3> QED  BY <2>1, <2>4, <3>1, CraneRefuses
    <2>5. ASSUME NEW c, Crane!ConnectFails(c) PROVE CraneInv'
      BY <2>1, <2>5, CraneCommandRefuses
    <2>6. CASE Crane!ReadStatus
      BY <2>1, <2>6, CraneReads
    <2>7. ASSUME NEW c \in CraneControls, NEW a, Crane!Control(c, a) PROVE CraneInv'
      BY <2>1, <2>7, CraneWrites
    <2> QED  BY <1>1, <2>2, <2>3, <2>4, <2>5, <2>6, <2>7 DEF Crane!Handle
  <1>2. CASE Crane!Disconnected
    BY <1>2, CraneDisconnects
  <1>3. CASE Crane!Moves
    BY <1>3, CraneMoves
  <1> QED  BY <1>1, <1>2, <1>3 DEF Crane!Next

LEMMA Row ==
    ASSUME NEW n \in Nat, NEW f, f = [i \in 1..n |-> f[i]]
    PROVE  IsSeq(f) /\ Len(f) = n
  <1>1. \A i \in 1..n : f[i] \in {f[k] : k \in 1..n}
    OBVIOUS
  <1>2. f \in Seq({f[k] : k \in 1..n})
    BY <1>1, IsASeq
  <1>3. DOMAIN f = 1..Len(f) /\ DOMAIN f = 1..n
    BY <1>2
  <1> QED  BY <1>2, <1>3, SeqIsSeq

(* What a request leaves of the registers: each is as it was or as it was  *)
(* to be written.                                                          *)
LEMMA ClientsTouch ==
    ASSUME ClientTypes, NEW q, NEW r, Asked(q, r), NEW A \in ClientAreas, Clients!Area(q.fc) = A
    PROVE  /\ DOMAIN dev'[A] = DOMAIN dev[A]
           /\ \A a \in DOMAIN dev[A] :
                 \/ dev'[A][a] = dev[A][a]
                 \/ (a \in q.addr..(q.addr + q.n - 1) /\ dev'[A][a] = q.p[a - q.addr + 1])
  <1>1. dev' \in {dev, Clients!Slave(dev, q).d}
    BY ClientsAsk DEF Asked, ClientTypes
  <1> DEFINE v == [a \in DOMAIN dev[A] |-> IF a \in q.addr..(q.addr + q.n - 1)
                                           THEN q.p[a - q.addr + 1] ELSE dev[A][a]]
  <1>2. \A w, x : [d |-> w, re |-> x].d = w
    OBVIOUS
  <1>3. Clients!Slave(dev, q).d \in {dev, [dev EXCEPT ![A] = v]}
    BY <1>2 DEF Clients!Slave
  <1>4. /\ DOMAIN v = DOMAIN dev[A]
        /\ \A a \in DOMAIN dev[A] :
              v[a] = dev[A][a] \/ (a \in q.addr..(q.addr + q.n - 1) /\ v[a] = q.p[a - q.addr + 1])
    OBVIOUS
  <1> HIDE DEF v
  <1>5. dev'[A] \in {dev[A], v}
    BY <1>1, <1>3 DEF ClientTypes
  <1> QED  BY <1>4, <1>5

-----------------------------------------------------------------------------
(***************************************************************************)
(* The radars.  Their registers hold five points in one of two layouts,    *)
(* and the layout read is the one they have.                               *)
(***************************************************************************)
RadarBlock == 2650..2664

RadarShows(f, pts) ==
    \/ \A i \in 1..15 : f[2650 + i - 1] = Limaco!Legacy(pts)[i]
    \/ \A i \in 1..15 : f[2650 + i - 1] = Limaco!V2(pts)[i]

RadarHolds ==
    /\ RadarBlock \subseteq DOMAIN dev["holding"]
    /\ \E pts \in Limaco!Points : RadarShows(dev["holding"], pts)

\* What is told of a command that is done.
LimacoRight(cmd, val, due) ==
    /\ cmd = "read_distance_5" => val \in Limaco!Points /\ due \in {Limaco!Legacy(val), Limaco!V2(val)}
    /\ cmd = "set_distance_mode" => val = due

LimacoTold == said.status = "done" /\ ~said.late => LimacoRight(said.cmd, said.val, said.due)

LimacoInv == ClientTypes /\ ctl.kind \in {"rtu", "serial"} /\ RadarHolds /\ LimacoTold

LEMMA LimacoInvHolds == ASSUME LimacoInv PROVE Limaco!TypeOK /\ Limaco!AnswersAreTrue
  BY DEF LimacoInv, ClientTypes, LimacoTold, LimacoRight, Limaco!TypeOK, Limaco!AnswersAreTrue

\* What leaves the block of the points alone.
LEMMA RadarStays ==
    ASSUME RadarHolds, DOMAIN dev'["holding"] = DOMAIN dev["holding"],
           \A a \in RadarBlock : dev'["holding"][a] = dev["holding"][a]
    PROVE  RadarHolds'
  <1>1. PICK pts \in Limaco!Points : RadarShows(dev["holding"], pts)
    BY DEF RadarHolds
  <1>2. \A i \in 1..15 : dev'["holding"][2650 + i - 1] = dev["holding"][2650 + i - 1]
    <2>1. \A i \in 1..15 : 2650 + i - 1 \in RadarBlock
      BY DEF RadarBlock
    <2> QED  BY <2>1
  <1>3. RadarShows(dev'["holding"], pts)
    BY <1>1, <1>2 DEF RadarShows
  <1>4. Limaco!Points' = Limaco!Points /\ RadarBlock' = RadarBlock
    BY DEF Limaco!Points, RadarBlock
  <1>5. RadarShows(dev["holding"], pts)'
    BY <1>3 DEF RadarShows, Limaco!Legacy, Limaco!V2
  <1> QED  BY <1>4, <1>5 DEF RadarHolds

LEMMA LimacoNames ==
    /\ \A c, s, k, v, d : Limaco!Answer(c, s, k, v, d) <=> Answered(c, s, k, v, d)
    /\ \A q, r : r \in Limaco!Request(q) /\ dev' = r.d /\ wire' = r.line
                 /\ ctl' = [ctl EXCEPT !.conn = TRUE, !.tx = r.tx] <=> Asked(q, r)
  BY Zenon, LimacoRequests, ClientsNames DEF Limaco!Answer, Answered, Asked

LEMMA LimacoStarts == Limaco!Init => LimacoInv
  <1> SUFFICES ASSUME Limaco!Init PROVE LimacoInv
    OBVIOUS
  <1>1. PICK pts \in Limaco!Points : \E regs \in {Limaco!Legacy(pts), Limaco!V2(pts)} :
           Limaco!ClientInit({"rtu", "serial"}, Limaco!Radar(regs))
    BY DEF Limaco!Init
  <1>2. PICK regs \in {Limaco!Legacy(pts), Limaco!V2(pts)} :
           Limaco!ClientInit({"rtu", "serial"}, Limaco!Radar(regs))
    BY <1>1
  <1>3. DOMAIN Limaco!Radar(regs) = ClientAreas
    BY DEF Limaco!Radar, ClientAreas
  <1>4. {"rtu", "serial"} \subseteq ClientKinds
    BY DEF ClientKinds
  <1>5. /\ ClientTypes /\ ctl.kind \in {"rtu", "serial"} /\ dev = Limaco!Radar(regs)
        /\ said.status = "none"
    BY <1>2, <1>3, <1>4, ClientsInit
  <1>6. PICK f : f = [a \in Limaco!Base1..(Limaco!Base1 + 4) \cup Limaco!Base5..(Limaco!Base5 + 14)
                              \cup {Limaco!ModeRegister} |->
                        CASE a \in 0..4 -> <<a>> [] a = Limaco!ModeRegister -> <<0>>
                          [] OTHER -> regs[a - Limaco!Base5 + 1]]
    OBVIOUS
  <1>7. dev["holding"] = f
    BY <1>5, <1>6 DEF Limaco!Radar
  <1>8. RadarBlock \subseteq DOMAIN f
    BY <1>6 DEF RadarBlock, Limaco!Base5
  <1>9. ASSUME NEW i \in 1..15 PROVE f[2650 + i - 1] = regs[i]
    <2>1. PICK a : a = 2650 + i - 1
      OBVIOUS
    <2>2. a \in RadarBlock /\ a \notin 0..4 /\ a # 3855 /\ a - 2650 + 1 = i
      BY <2>1 DEF RadarBlock
    <2>3. f[a] = regs[i]
      BY <1>6, <2>2 DEF RadarBlock, Limaco!Base1, Limaco!Base5, Limaco!ModeRegister
    <2> QED  BY <2>1, <2>3
  <1>10. RadarShows(f, pts)
    BY <1>2, <1>9 DEF RadarShows
  <1> QED  BY <1>5, <1>7, <1>8, <1>10 DEF LimacoInv, LimacoTold, RadarHolds

LEMMA LimacoEnds ==
    ASSUME LimacoInv, said.id < MaxCommands, NEW q, NEW r, Asked(q, r), RadarHolds',
           NEW cmd, NEW status, NEW code, NEW val, NEW due, Answered(cmd, status, code, val, due),
           ClientSure /\ status = "done" => LimacoRight(cmd, val, due)
    PROVE  LimacoInv'
  <1>1. /\ ClientSaid /\ said'.status = status /\ said'.cmd = cmd /\ said'.val = val /\ said'.due = due
        /\ said'.late <=> wire # <<>>
    BY ClientsAnswer DEF LimacoInv
  <1>2. ClientTypes' /\ ctl'.kind = ctl.kind
    BY <1>1, ClientsCommand DEF LimacoInv
  <1>3. wire = <<>> => ClientSure
    BY DEF ClientSure, LimacoInv, Networked
  <1>4. LimacoTold'
    BY <1>1, <1>3 DEF LimacoTold, LimacoRight, Limaco!Points, Limaco!Legacy, Limaco!V2
  <1> QED  BY <1>2, <1>4 DEF LimacoInv

LEMMA LimacoRefuses ==
    ASSUME LimacoInv, said.id < MaxCommands, NEW cmd, NEW status, NEW code,
           status = "done" => cmd \notin {"read_distance_5", "set_distance_mode"},
           Answered(cmd, status, code, <<>>, <<>>), UNCHANGED <<ctl, wire, dev>>
    PROVE  LimacoInv'
  <1>1. ClientSaid /\ said'.cmd = cmd /\ said'.status = status
    BY ClientsAnswer DEF LimacoInv
  <1>2. ClientTypes'
    BY <1>1, ClientsRefuse DEF LimacoInv
  <1>3. LimacoTold'
    BY <1>1 DEF LimacoTold, LimacoRight
  <1>4. RadarHolds'
    BY RadarStays DEF LimacoInv
  <1> QED  BY <1>2, <1>3, <1>4 DEF LimacoInv

LEMMA LimacoDisconnects ==
    ASSUME LimacoInv, Limaco!Disconnected PROVE LimacoInv'
  <1>1. Clients!Disconnected
    BY DEF Limaco!Disconnected, Clients!Disconnected, Limaco!Quiet, Clients!Quiet
  <1>2. ClientTypes' /\ said' = said /\ ctl'.kind = ctl.kind /\ dev' = dev
    BY <1>1, ClientsDisconnect DEF LimacoInv
  <1>3. LimacoTold'
    BY <1>2 DEF LimacoInv, LimacoTold, LimacoRight, Limaco!Points, Limaco!Legacy, Limaco!V2
  <1>4. RadarHolds'
    BY <1>2, RadarStays DEF LimacoInv
  <1> QED  BY <1>2, <1>3, <1>4 DEF LimacoInv

-----------------------------------------------------------------------------
(* Decoding. *)

\* Points are pairs of whole numbers.
LEMMA RadarPoints ==
    ASSUME NEW pts \in Limaco!Points
    PROVE  /\ pts = [i \in 1..5 |-> pts[i]]
           /\ \A i \in 1..5 : pts[i] = <<pts[i][1], pts[i][2]>>
  <1>1. PICK s, t : s = [i \in 1..5 |-> <<100 + i, 0>>] /\ t = [i \in 1..5 |-> <<20, IF i = 2 THEN 20 ELSE 0>>]
    OBVIOUS
  <1>2. pts \in {s, t}
    BY <1>1 DEF Limaco!Points
  <1>3. s = [i \in 1..5 |-> s[i]] /\ \A i \in 1..5 : s[i] = <<s[i][1], s[i][2]>>
    BY <1>1
  <1>4. t = [i \in 1..5 |-> t[i]] /\ \A i \in 1..5 : t[i] = <<t[i][1], t[i][2]>>
    BY <1>1
  <1> QED  BY <1>2, <1>3, <1>4

LEMMA LegacyFields ==
    ASSUME NEW pts, NEW r, r = Limaco!Legacy(pts)
    PROVE  /\ \A i \in 1..5 : r[2 * i - 1] = <<pts[i][1]>> /\ r[2 * i] = <<pts[i][2]>>
           /\ r[13] = <<0>>
  <1>1. \A i \in 1..15 : r[i] = IF i > 10 THEN <<0>> ELSE <<pts[(i + 1) \div 2][IF i % 2 = 1 THEN 1 ELSE 2]>>
    BY DEF Limaco!Legacy
  <1>2. ASSUME NEW i \in 1..5 PROVE r[2 * i - 1] = <<pts[i][1]>> /\ r[2 * i] = <<pts[i][2]>>
    <2>1. PICK j, k : j = 2 * i - 1 /\ k = 2 * i
      OBVIOUS
    <2>2. /\ j \in 1..15 /\ ~(j > 10) /\ (j + 1) \div 2 = i /\ j % 2 = 1
          /\ k \in 1..15 /\ ~(k > 10) /\ (k + 1) \div 2 = i /\ k % 2 # 1
      BY <2>1
    <2> QED  BY <1>1, <2>1, <2>2
  <1>3. r[13] = <<0>>
    BY <1>1
  <1> QED  BY <1>2, <1>3

LEMMA V2Fields ==
    ASSUME NEW pts, NEW r, r = Limaco!V2(pts)
    PROVE  \A i \in 1..5 : r[3 * i - 2] = <<20>> /\ r[3 * i - 1] = <<pts[i][1]>> /\ r[3 * i] = <<pts[i][2]>>
  <1>1. \A i \in 1..15 : r[i] = CASE i % 3 = 1 -> <<20>> [] i % 3 = 2 -> <<pts[(i + 1) \div 3][1]>>
                                  [] OTHER -> <<pts[i \div 3][2]>>
    BY DEF Limaco!V2
  <1>2. SUFFICES ASSUME NEW i \in 1..5
                 PROVE  r[3 * i - 2] = <<20>> /\ r[3 * i - 1] = <<pts[i][1]>> /\ r[3 * i] = <<pts[i][2]>>
    OBVIOUS
  <1>3. PICK j, k, l : j = 3 * i - 2 /\ k = 3 * i - 1 /\ l = 3 * i
    OBVIOUS
  <1>4. /\ j \in 1..15 /\ j % 3 = 1 /\ k \in 1..15 /\ k % 3 = 2 /\ (k + 1) \div 3 = i
        /\ l \in 1..15 /\ l % 3 = 0 /\ l \div 3 = i
    BY <1>3
  <1> QED  BY <1>1, <1>3, <1>4

LEMMA RadarDecodes ==
    ASSUME NEW pts \in Limaco!Points, NEW r, Len(r) = 15, r \in {Limaco!Legacy(pts), Limaco!V2(pts)}
    PROVE  Limaco!decodeLimaco5Distance(r) = pts
  <1>1. /\ pts = [i \in 1..5 |-> pts[i]]
        /\ \A i \in 1..5 : pts[i] = <<pts[i][1], pts[i][2]>>
    BY RadarPoints
  <1>2. CASE r = Limaco!Legacy(pts)
    <2>1. /\ \A i \in 1..5 : r[2 * i - 1] = <<pts[i][1]>> /\ r[2 * i] = <<pts[i][2]>>
          /\ r[13] = <<0>>
      BY <1>2, LegacyFields
    <2>2. ~Limaco!isV2Layout(r)
      BY <2>1 DEF Limaco!isV2Layout
    <2>3. Limaco!decodeLimaco5Distance(r) = [i \in 1..5 |-> <<r[2 * i - 1][1], r[2 * i][1]>>]
      <3>1. \A i \in 1..5 : 0 + 2 * (i - 1) + 1 = 2 * i - 1 /\ 0 + 2 * (i - 1) + 1 + 1 = 2 * i
        OBVIOUS
      <3> QED  BY <2>2, <3>1 DEF Limaco!decodeLimaco5Distance
    <2>4. \A i \in 1..5 : <<r[2 * i - 1][1], r[2 * i][1]>> = pts[i]
      BY <1>1, <2>1
    <2> QED  BY <1>1, <2>3, <2>4
  <1>3. CASE r = Limaco!V2(pts)
    <2>1. \A i \in 1..5 : r[3 * i - 2] = <<20>> /\ r[3 * i - 1] = <<pts[i][1]>> /\ r[3 * i] = <<pts[i][2]>>
      BY <1>3, V2Fields
    <2>2. \A i \in {1, 4, 7, 10, 13} : \E k \in 1..5 : i = 3 * k - 2
      <3>1. 1 = 3 * 1 - 2 /\ 4 = 3 * 2 - 2 /\ 7 = 3 * 3 - 2 /\ 10 = 3 * 4 - 2 /\ 13 = 3 * 5 - 2
        OBVIOUS
      <3> QED  BY <3>1
    <2>3. Limaco!isV2Layout(r)
      <3>1. \A i \in {1, 4, 7, 10, 13} : r[i] = <<20>>
        BY <2>1, <2>2
      <3>2. <<20>>[1] % 256 = 20
        OBVIOUS
      <3> QED  BY <3>1, <3>2 DEF Limaco!isV2Layout
    <2>4. Limaco!decodeLimaco5Distance(r) = [i \in 1..5 |-> <<r[3 * i - 1][1], r[3 * i][1]>>]
      <3>1. \A i \in 1..5 : 1 + 3 * (i - 1) + 1 = 3 * i - 1 /\ 1 + 3 * (i - 1) + 1 + 1 = 3 * i
        OBVIOUS
      <3> QED  BY <2>3, <3>1 DEF Limaco!decodeLimaco5Distance
    <2>5. \A i \in 1..5 : <<r[3 * i - 1][1], r[3 * i][1]>> = pts[i]
      BY <1>1, <2>1
    <2> QED  BY <1>1, <2>4, <2>5
  <1> QED  BY <1>2, <1>3

\* The points a radar sends.
LEMMA LimacoReadsPoints ==
    ASSUME NEW f, NEW pts \in Limaco!Points, RadarShows(f, pts), NEW p, p = [i \in 1..15 |-> f[2650 + i - 1]]
    PROVE  LimacoRight("read_distance_5", Limaco!Decoded("read_distance_5", p), p)
  <1>1. PICK n \in Nat : n = 15
    OBVIOUS
  <1>2. Len(p) = 15
    <2>1. p = [i \in 1..n |-> p[i]]
      BY <1>1
    <2> QED  BY <1>1, <2>1, Row
  <1>3. p \in {Limaco!Legacy(pts), Limaco!V2(pts)}
    <2>1. CASE \A i \in 1..15 : f[2650 + i - 1] = Limaco!Legacy(pts)[i]
      <3>1. PICK g : g = Limaco!Legacy(pts)
        OBVIOUS
      <3>2. g = [i \in 1..15 |-> g[i]]
        BY <3>1 DEF Limaco!Legacy
      <3>3. \A i \in 1..15 : p[i] = g[i]
        BY <2>1, <3>1
      <3> QED  BY <3>1, <3>2, <3>3
    <2>2. CASE \A i \in 1..15 : f[2650 + i - 1] = Limaco!V2(pts)[i]
      <3>1. PICK g : g = Limaco!V2(pts)
        OBVIOUS
      <3>2. g = [i \in 1..15 |-> g[i]]
        BY <3>1 DEF Limaco!V2
      <3>3. \A i \in 1..15 : p[i] = g[i]
        BY <2>2, <3>1
      <3> QED  BY <3>1, <3>2, <3>3
    <2> QED  BY <2>1, <2>2 DEF RadarShows
  <1>4. Limaco!decodeLimaco5Distance(p) = pts
    BY <1>2, <1>3, RadarDecodes
  <1>5. Limaco!Decoded("read_distance_5", p) = pts
    BY <1>4 DEF Limaco!Decoded
  <1> QED  BY <1>3, <1>5 DEF LimacoRight

LEMMA LimacoAsksRead ==
    ASSUME NEW cmd, NEW addr, NEW n, Limaco!readHoldingRegisters(cmd, addr, n), NEW fc, fc = 3
    PROVE  \E r : /\ Asked(Clients!Read(fc, addr, n), r)
                  /\ IF r.ok
                     THEN IF Limaco!Decoded(cmd, r.p) = <<>> THEN Answered(cmd, "error", 2, <<>>, <<>>)
                          ELSE Answered(cmd, "done", 0, Limaco!Decoded(cmd, r.p), Clients!Due(fc, addr, n))
                     ELSE Answered(cmd, "error", 2, <<>>, <<>>)
  BY Zenon, LimacoNames, ClientsNames DEF Limaco!readHoldingRegisters, Limaco!Perform

LEMMA LimacoAsksWrite ==
    ASSUME NEW cmd, NEW fc, NEW addr, NEW v, NEW k, fc = 16, k = 1,
           Limaco!writeMultipleRegisters(cmd, addr, v)
    PROVE  \E r : /\ Asked(Clients!Write(fc, addr, v), r)
                  /\ IF r.ok THEN Answered(cmd, "done", 0, v, Clients!Due(fc, addr, k))
                     ELSE Answered(cmd, "error", 2, <<>>, <<>>)
  BY Zenon, LimacoNames, ClientsNames DEF Limaco!writeMultipleRegisters, Limaco!Perform

LEMMA LimacoReads ==
    ASSUME LimacoInv, said.id < MaxCommands, NEW cmd, NEW addr \in Nat, NEW n \in Nat,
           cmd = "read_distance_1" \/ (cmd = "read_distance_5" /\ addr = 2650 /\ n = 15),
           Limaco!readHoldingRegisters(cmd, addr, n)
    PROVE  LimacoInv'
  <1>1. PICK fc : fc = 3
    OBVIOUS
  <1> DEFINE q == Clients!Read(fc, addr, n)
  <1>2. PICK r : /\ Asked(q, r)
                 /\ IF r.ok
                    THEN IF Limaco!Decoded(cmd, r.p) = <<>> THEN Answered(cmd, "error", 2, <<>>, <<>>)
                         ELSE Answered(cmd, "done", 0, Limaco!Decoded(cmd, r.p), Clients!Due(fc, addr, n))
                    ELSE Answered(cmd, "error", 2, <<>>, <<>>)
    BY <1>1, LimacoAsksRead
  <1>3. fc \in ReadCodes /\ Clients!Area(fc) = "holding" /\ Clients!IsRead(q.fc)
    BY <1>1 DEF ReadCodes, Clients!Area, Clients!Read, Clients!IsRead
  <1>4. RadarHolds'
    <2>1. dev' = dev
      BY <1>2, <1>3, ClientsKeep DEF LimacoInv
    <2> QED  BY <2>1, RadarStays DEF LimacoInv
  <1>5. ASSUME ClientSure, r.ok PROVE LimacoRight(cmd, Limaco!Decoded(cmd, r.p), Clients!Due(fc, addr, n))
    <2>1. CASE cmd = "read_distance_1"
      BY <2>1 DEF LimacoRight
    <2>2. CASE cmd = "read_distance_5" /\ addr = 2650 /\ n = 15
      <3>1. FewCommands => ClientOrder
        BY DEF ClientOrder, LimacoInv, Networked
      <3>2. Showed(fc, addr, n, r)
        BY <1>2, <1>3, <1>5, <3>1, ClientsReadTrue DEF LimacoInv
      <3>3. r.p = Clients!Due(fc, addr, n) /\ r.p = [i \in 1..15 |-> dev["holding"][2650 + i - 1]]
        BY <1>3, <2>2, <3>2 DEF Showed
      <3>4. PICK pts \in Limaco!Points : RadarShows(dev["holding"], pts)
        BY DEF LimacoInv, RadarHolds
      <3>5. PICK f, p : f = dev["holding"] /\ p = r.p
        OBVIOUS
      <3>6. p = [i \in 1..15 |-> f[2650 + i - 1]] /\ RadarShows(f, pts)
        BY <3>3, <3>4, <3>5
      <3>7. LimacoRight("read_distance_5", Limaco!Decoded("read_distance_5", p), p)
        BY <3>6, LimacoReadsPoints
      <3> QED  BY <2>2, <3>3, <3>5, <3>7
    <2> QED  BY <2>1, <2>2
  <1> HIDE DEF q
  <1>6. CASE r.ok /\ Limaco!Decoded(cmd, r.p) # <<>>
    BY <1>2, <1>4, <1>5, <1>6, LimacoEnds
  <1>7. CASE ~(r.ok /\ Limaco!Decoded(cmd, r.p) # <<>>)
    BY <1>2, <1>4, <1>7, LimacoEnds
  <1> QED  BY <1>6, <1>7

LEMMA LimacoWrites ==
    ASSUME LimacoInv, said.id < MaxCommands, NEW cmd, cmd = "set_distance_mode",
           Limaco!writeMultipleRegisters(cmd, Limaco!ModeRegister, << << 1 >> >>)
    PROVE  LimacoInv'
  <1>1. PICK fc, addr, k, x : fc = 16 /\ addr = 3855 /\ k = 1 /\ x = 1
    OBVIOUS
  <1> DEFINE v == <<<<x>>>>
             q == Clients!Write(fc, addr, v)
  <1>2. PICK r : /\ Asked(q, r)
                 /\ IF r.ok THEN Answered(cmd, "done", 0, v, Clients!Due(fc, addr, k))
                    ELSE Answered(cmd, "error", 2, <<>>, <<>>)
    <2>1. Limaco!writeMultipleRegisters(cmd, addr, v)
      BY <1>1 DEF Limaco!ModeRegister
    <2> HIDE DEF v
    <2> QED  BY <1>1, <2>1, LimacoAsksWrite
  <1>3. IsSeq(v) /\ Len(v) = k
    BY <1>1, SmallSeqs
  <1>4. fc \in WriteCodes /\ Clients!Area(fc) = "holding" /\ addr \in Nat
    BY <1>1 DEF WriteCodes, Clients!Area
  <1> HIDE DEF v
  <1>5. q.fc = fc /\ q.addr = addr /\ q.n = 1
    BY <1>1, <1>3 DEF Clients!Write
  <1>6. RadarHolds'
    <2>1. PICK A : A = "holding"
      OBVIOUS
    <2>2. A \in ClientAreas /\ Clients!Area(q.fc) = A
      BY <1>4, <1>5, <2>1 DEF ClientAreas
    <2>3. /\ DOMAIN dev'[A] = DOMAIN dev[A]
          /\ \A a \in DOMAIN dev[A] :
                dev'[A][a] = dev[A][a] \/ (a \in q.addr..(q.addr + q.n - 1) /\ dev'[A][a] = q.p[a - q.addr + 1])
      BY <1>2, <2>2, ClientsTouch DEF LimacoInv
    <2>4. \A a \in RadarBlock : a \in DOMAIN dev[A] /\ a \notin q.addr..(q.addr + q.n - 1)
      BY <1>1, <1>5, <2>1 DEF LimacoInv, RadarHolds, RadarBlock
    <2> QED  BY <2>1, <2>3, <2>4, RadarStays DEF LimacoInv
  <1>7. ASSUME ClientSure, r.ok PROVE LimacoRight(cmd, v, Clients!Due(fc, addr, k))
    <2>1. FewCommands => ClientOrder
      BY DEF ClientOrder, LimacoInv, Networked
    <2>2. Landed(fc, addr, v)
      BY <1>2, <1>3, <1>4, <1>7, <2>1, ClientsWriteTrue DEF LimacoInv
    <2> QED  BY <1>3, <2>2 DEF Landed, LimacoRight
  <1> HIDE DEF q
  <1>8. CASE r.ok
    BY <1>2, <1>6, <1>7, <1>8, LimacoEnds
  <1>9. CASE ~r.ok
    BY <1>2, <1>6, <1>9, LimacoEnds
  <1> QED  BY <1>8, <1>9

LEMMA LimacoCommandRefuses ==
    ASSUME LimacoInv, said.id < MaxCommands, NEW cmd, NEW code,
           Limaco!Refuse(cmd, code) \/ Limaco!ConnectFails(cmd)
    PROVE  LimacoInv'
  <1>1. PICK c : Answered(cmd, "error", c, <<>>, <<>>) /\ UNCHANGED <<ctl, wire, dev>>
    BY Zenon, LimacoNames DEF Limaco!Refuse, Limaco!ConnectFails, Limaco!getClient, Limaco!getConnection
  <1> QED  BY <1>1, LimacoRefuses

LEMMA LimacoStep == ASSUME LimacoInv, Limaco!Next PROVE LimacoInv'
  <1>1. CASE Limaco!Handle
    <2>1. said.id < MaxCommands
      BY <1>1 DEF Limaco!Handle
    <2>2. ASSUME Limaco!Answer("status", "done", 0, <<>>, <<>>), UNCHANGED <<ctl, wire, dev>> PROVE LimacoInv'
      <3>1. Answered("status", "done", 0, <<>>, <<>>)
        BY Zenon, <2>2, LimacoNames
      <3> QED  BY <2>1, <2>2, <3>1, LimacoRefuses
    <2>3. ASSUME NEW c, NEW k, Limaco!Refuse(c, k) \/ Limaco!ConnectFails(c) PROVE LimacoInv'
      BY <2>1, <2>3, LimacoCommandRefuses
    <2>4. CASE Limaco!Handle1
      <3>1. PICK a \in Nat, n \in Nat : a = Limaco!Base1 /\ n = 5
        BY DEF Limaco!Base1
      <3>2. Limaco!readHoldingRegisters("read_distance_1", a, n)
        BY <2>4, <3>1 DEF Limaco!Handle1
      <3> QED  BY <2>1, <3>2, LimacoReads
    <2>5. CASE Limaco!Handle5
      <3>1. PICK a \in Nat, n \in Nat : a = Limaco!Base5 /\ n = 15
        BY DEF Limaco!Base5
      <3>2. a = 2650
        BY <3>1 DEF Limaco!Base5
      <3>3. CASE Limaco!readHoldingRegisters("read_distance_5", Limaco!Base5, 15)
        BY <2>1, <3>1, <3>2, <3>3, LimacoReads
      <3>4. CASE Limaco!writeMultipleRegisters("set_distance_mode", Limaco!ModeRegister, <<<<1>>>>)
        BY <2>1, <3>4, LimacoWrites
      <3> QED  BY <2>5, <3>3, <3>4 DEF Limaco!Handle5
    <2> QED  BY <1>1, <2>2, <2>3, <2>4, <2>5 DEF Limaco!Handle
  <1>2. CASE Limaco!Disconnected
    BY <1>2, LimacoDisconnects
  <1> QED  BY <1>1, <1>2 DEF Limaco!Next

-----------------------------------------------------------------------------
(***************************************************************************)
(* The analog output module.  While set_comm_config goes from register to  *)
(* register, the fields it has written are in theirs: no two fields have   *)
(* the same one.                                                           *)
(***************************************************************************)
Codes == Analog!Word \cup {Analog!NoCode}
Fields == {"unit_id", "baud_rate", "parity", "stop_bits", "comm_watchdog_ms"}

\* Writes to registers of R, each to its own.
Writes(s, R) ==
    /\ IsSeq(s)
    /\ \A i \in 1..Len(s) : s[i].reg \in R /\ s[i].raw \in Codes
    /\ \A i, j \in 1..Len(s) : i # j => s[i].reg # s[j].reg

\* Of a command's writes, the first k have been made and the others are to do.
AnalogLeft(k, todo, val) ==
    /\ k \in 0..Len(val) /\ IsSeq(todo) /\ Len(todo) = Len(val) - k
    /\ \A i \in 1..Len(todo) : todo[i] = val[k + i]

AnalogMemory ==
    /\ DOMAIN dev["holding"] = Analog!Holding
    /\ \A r \in Analog!Holding : dev["holding"][r][1] \in Analog!Word

AnalogWriting ==
    /\ Writes(said.val, {0, 1, 3, 4, 5})
    /\ \A i \in 1..Len(said.val) : said.val[i].raw \in Analog!Word
    /\ \E k : /\ AnalogLeft(k, said.todo, said.val)
              /\ ~said.late => \A i \in 1..k : dev["holding"][said.val[i].reg] = <<said.val[i].raw>>

AnalogTold ==
    /\ said.todo # <<>> => said.cmd = "set_comm_config" /\ said.status = "none"
    /\ said.cmd = "set_comm_config" /\ said.status # "error" => AnalogWriting
    /\ said.status = "done" /\ ~said.late /\ said.cmd # "set_comm_config" => said.val = said.due

AnalogInv == ClientTypes /\ ctl.kind = "analog" /\ AnalogMemory /\ AnalogTold

LEMMA CodeRange ==
    /\ \A x \in Nat : x <= 65535 <=> x \in Analog!Word
    /\ \A x \in Nat : x <= 65535 => x \in Codes
    /\ Analog!NoCode \in Codes /\ \A x \in Codes : x # Analog!NoCode => x \in Analog!Word
  <1>1. PICK m \in Nat : m = 65535
    OBVIOUS
  <1>2. \A x \in Nat : x <= m <=> x \in 0..m
    OBVIOUS
  <1>3. Analog!Word = 0..m
    BY <1>1 DEF Analog!Word
  <1>4. \A x \in Nat : x <= m <=> x \in Analog!Word
    BY ONLY <1>2, <1>3
  <1>5. \A x \in Nat : x <= 65535 <=> x \in Analog!Word
    BY ONLY <1>1, <1>4
  <1>6. Codes = Analog!Word \cup {Analog!NoCode}
    BY DEF Codes
  <1> QED  BY ONLY <1>5, <1>6

LEMMA WatchdogReadsBack ==
    ASSUME NEW ms \in Int
    PROVE  LET raw == Analog!commWatchdogMsToRaw(ms)
           IN  /\ raw \in Codes
               /\ raw # Analog!NoCode => Analog!commWatchdogRawToMs(raw) = ms
  <1>1. CASE ms = 0
    BY <1>1, CodeRange DEF Analog!commWatchdogMsToRaw, Analog!commWatchdogRawToMs
  <1>2. CASE ms # 0 /\ (ms < 0 \/ ms % 10 # 0 \/ ms \div 10 + 1 > 65535)
    BY <1>2, CodeRange DEF Analog!commWatchdogMsToRaw
  <1>3. CASE ms # 0 /\ ~(ms < 0 \/ ms % 10 # 0 \/ ms \div 10 + 1 > 65535)
    <2>1. PICK k \in Nat : k = ms \div 10
      BY <1>3
    <2>2. ms = 10 * k /\ k + 1 <= 65535
      BY <1>3, <2>1
    <2>3. Analog!commWatchdogMsToRaw(ms) = k + 1
      BY <1>3, <2>1 DEF Analog!commWatchdogMsToRaw
    <2>4. k + 1 \in Codes /\ k + 1 # 0
      BY <2>2, CodeRange
    <2>5. Analog!commWatchdogRawToMs(k + 1) = 10 * k
      BY <2>1 DEF Analog!commWatchdogRawToMs
    <2> QED  BY <2>2, <2>3, <2>4, <2>5
  <1> QED  BY <1>1, <1>2, <1>3

LEMMA ConfigValues ==
    ASSUME NEW c \in Analog!Configs, NEW f \in DOMAIN c PROVE c[f] \in Int
  <1>1. CASE \E ms \in {0, 10, 15, 655340, 655350} : c = [comm_watchdog_ms |-> ms]
    BY <1>1
  <1>2. CASE \E b \in {4800, 115200, 1200} : c = [unit_id |-> 2, baud_rate |-> b, parity |-> 2]
    <2>1. PICK b \in Int, x \in Int : c = [unit_id |-> x, baud_rate |-> b, parity |-> x]
      BY <1>2
    <2> QED  BY <2>1
  <1>3. CASE c = [stop_bits |-> 1, comm_watchdog_ms |-> 20]
    <2>1. PICK b \in Int, x \in Int : c = [stop_bits |-> b, comm_watchdog_ms |-> x]
      BY <1>3
    <2> QED  BY <2>1
  <1> QED  BY <1>1, <1>2, <1>3 DEF Analog!Configs

LEMMA BaudCodes == ASSUME NEW v PROVE Analog!baudValueToCode(v) \in Codes
  <1>1. CASE \A i \in DOMAIN Analog!BaudRates : Analog!BaudRates[i] # v
    BY <1>1, CodeRange DEF Analog!baudValueToCode
  <1>2. CASE \E i \in DOMAIN Analog!BaudRates : Analog!BaudRates[i] = v
    <2>1. PICK i : i = CHOOSE k \in DOMAIN Analog!BaudRates : Analog!BaudRates[k] = v
      OBVIOUS
    <2>2. i \in DOMAIN Analog!BaudRates
      BY <1>2, <2>1
    <2>3. DOMAIN Analog!BaudRates = 1..8
      BY DEF Analog!BaudRates
    <2>4. Analog!baudValueToCode(v) = i - 1
      BY <1>2, <2>1 DEF Analog!baudValueToCode
    <2> QED  BY <2>2, <2>3, <2>4, CodeRange
  <1> QED  BY <1>1, <1>2

LEMMA AnalogEncodes == ASSUME NEW f \in Fields, NEW v \in Int PROVE Analog!Encode(f, v) \in Codes
  <1>1. CASE f = "baud_rate"
    BY <1>1, BaudCodes DEF Analog!Encode
  <1>2. CASE f = "comm_watchdog_ms"
    BY <1>2, WatchdogReadsBack DEF Analog!Encode
  <1>3. CASE f \in {"unit_id", "parity", "stop_bits"}
    <2>1. \A x \in 0..2 : x \in Codes
      BY CodeRange
    <2>2. \A x \in 1..255 : x \in Codes
      BY CodeRange
    <2> QED  BY <1>3, <2>1, <2>2, CodeRange DEF Analog!Encode
  <1> QED  BY <1>1, <1>2, <1>3 DEF Fields

LEMMA WritesJoin ==
    ASSUME NEW R, NEW Q, NEW s, NEW t, Writes(s, R), Writes(t, Q), \A r \in R : r \notin Q
    PROVE  Writes(s \o t, R \cup Q)
  <1>1. /\ IsSeq(s \o t) /\ Len(s) \in Nat /\ Len(t) \in Nat /\ Len(s \o t) = Len(s) + Len(t)
        /\ \A i \in 1..Len(s) : (s \o t)[i] = s[i]
        /\ \A i \in 1..Len(t) : (s \o t)[Len(s) + i] = t[i]
    <2>1. IsSeq(s) /\ IsSeq(t)
      BY DEF Writes
    <2> QED  BY <2>1, ConcatAny
  <1> DEFINE u == s \o t
             m == Len(s)
             n == Len(t)
  <1>2. \A i \in 1..(m + n) : \/ i \in 1..m /\ u[i] = s[i]
                              \/ i - m \in 1..n /\ u[i] = t[i - m]
    <2>1. TAKE i \in 1..(m + n)
    <2>2. CASE i \in 1..m
      BY <1>1, <2>2
    <2>3. CASE i \notin 1..m
      <3>1. PICK k : k = i - m
        OBVIOUS
      <3>2. k \in 1..n /\ i = m + k
        BY <1>1, <2>1, <2>3, <3>1
      <3> QED  BY <1>1, <3>1, <3>2
    <2> QED  BY <2>2, <2>3
  <1>3. Len(u) = m + n /\ m \in Nat /\ n \in Nat /\ IsSeq(u)
    BY <1>1
  <1>4. /\ \A i \in 1..m : s[i].reg \in R /\ s[i].raw \in Codes
        /\ \A i \in 1..n : t[i].reg \in Q /\ t[i].raw \in Codes
        /\ \A i, j \in 1..m : i # j => s[i].reg # s[j].reg
        /\ \A i, j \in 1..n : i # j => t[i].reg # t[j].reg
    BY DEF Writes
  <1> HIDE DEF u, m, n
  <1>5. \A i \in 1..(m + n) : u[i].reg \in R \cup Q /\ u[i].raw \in Codes
    BY <1>2, <1>4
  <1>6. ASSUME NEW i \in 1..(m + n), NEW j \in 1..(m + n), i # j PROVE u[i].reg # u[j].reg
    <2>1. i - m # j - m
      BY <1>3, <1>6
    <2> QED  BY <1>2, <1>4, <1>6, <2>1
  <1>7. Writes(u, R \cup Q)
    BY <1>3, <1>5, <1>6 DEF Writes
  <1> QED  BY <1>7 DEF u

LEMMA WritesOfField ==
    ASSUME NEW c \in Analog!Configs, NEW f \in Fields, NEW r, r = Analog!RegOf[f], NEW s,
           s = IF f \in DOMAIN c THEN <<[reg |-> Analog!RegOf[f], raw |-> Analog!Encode(f, c[f])]>> ELSE <<>>
    PROVE  Writes(s, {r})
  <1>1. CASE f \in DOMAIN c
    <2>1. PICK x : x = Analog!Encode(f, c[f])
      OBVIOUS
    <2>2. x \in Codes
      BY <1>1, <2>1, ConfigValues, AnalogEncodes
    <2>3. PICK w : w = [reg |-> r, raw |-> x]
      OBVIOUS
    <2>4. s = <<w>>
      BY <1>1, <2>1, <2>3
    <2>5. IsSeq(s) /\ Len(s) = 1 /\ s[1] = w
      BY <2>4, SmallSeqs
    <2>6. w.reg = r /\ w.raw = x
      BY <2>3
    <2> QED  BY <2>2, <2>5, <2>6 DEF Writes
  <1>2. CASE f \notin DOMAIN c
    <2>1. s = <<>> /\ IsSeq(<<>>) /\ Len(<<>>) = 0
      BY <1>2, SmallSeqs
    <2> QED  BY <2>1 DEF Writes
  <1> QED  BY <1>1, <1>2

LEMMA AnalogBuilds ==
    ASSUME NEW c \in Analog!Configs PROVE Writes(Analog!buildCommConfigWrites(c), {0, 1, 3, 4, 5})
  <1> DEFINE F(f) == IF f \in DOMAIN c THEN <<[reg |-> Analog!RegOf[f], raw |-> Analog!Encode(f, c[f])]>> ELSE <<>>
  <1>1. PICK u, b, p, s, w :
           /\ u = F("unit_id") /\ b = F("baud_rate") /\ p = F("parity")
           /\ s = F("stop_bits") /\ w = F("comm_watchdog_ms")
    OBVIOUS
  <1>2. Analog!buildCommConfigWrites(c) = (((u \o b) \o p) \o s) \o w
    BY <1>1 DEF Analog!buildCommConfigWrites
  <1>3. PICK r0, r1, r3, r4, r5 : r0 = 0 /\ r1 = 1 /\ r3 = 3 /\ r4 = 4 /\ r5 = 5
    OBVIOUS
  <1>4. /\ r0 = Analog!RegOf["unit_id"] /\ r1 = Analog!RegOf["baud_rate"] /\ r3 = Analog!RegOf["comm_watchdog_ms"]
        /\ r4 = Analog!RegOf["parity"] /\ r5 = Analog!RegOf["stop_bits"]
    BY <1>3 DEF Analog!RegOf
  <1>5. Writes(u, {r0})
    BY <1>1, <1>4, WritesOfField DEF Fields
  <1>6. Writes(b, {r1})
    BY <1>1, <1>4, WritesOfField DEF Fields
  <1>7. Writes(p, {r4})
    BY <1>1, <1>4, WritesOfField DEF Fields
  <1>8. Writes(s, {r5})
    BY <1>1, <1>4, WritesOfField DEF Fields
  <1>9. Writes(w, {r3})
    BY <1>1, <1>4, WritesOfField DEF Fields
  <1> HIDE DEF F
  <1>10. Writes(u \o b, {r0} \cup {r1})
    BY <1>3, <1>5, <1>6, WritesJoin
  <1>11. Writes((u \o b) \o p, ({r0} \cup {r1}) \cup {r4})
    BY <1>3, <1>7, <1>10, WritesJoin
  <1>12. Writes(((u \o b) \o p) \o s, (({r0} \cup {r1}) \cup {r4}) \cup {r5})
    BY <1>3, <1>8, <1>11, WritesJoin
  <1>13. Writes((((u \o b) \o p) \o s) \o w, ((({r0} \cup {r1}) \cup {r4}) \cup {r5}) \cup {r3})
    BY <1>3, <1>9, <1>12, WritesJoin
  <1>14. ((({r0} \cup {r1}) \cup {r4}) \cup {r5}) \cup {r3} = {0, 1, 3, 4, 5}
    BY <1>3
  <1> QED  BY <1>2, <1>13, <1>14

\* What the operators below say is the same in every state.
LEMMA AnalogFixed == /\ Analog!Word' = Analog!Word /\ Codes' = Codes /\ Analog!Holding' = Analog!Holding
  <1>1. Analog!Word' = Analog!Word
    BY DEF Analog!Word
  <1>2. Codes' = Codes
    BY <1>1 DEF Codes, Analog!NoCode
  <1>3. Analog!Holding' = Analog!Holding
    BY DEF Analog!Holding, Analog!RestoreDefaults, Analog!ClearOutputs, Analog!OutputBase
  <1> QED  BY <1>1, <1>2, <1>3

LEMMA AnalogInvHolds == ASSUME AnalogInv PROVE Analog!TypeOK /\ Analog!AnswersAreTrue
  <1>2. Analog!TypeOK
    BY DEF AnalogInv, AnalogMemory, ClientTypes, AnalogTold, Analog!TypeOK
  <1>3. ASSUME said.status = "done", ~said.late
        PROVE  IF said.cmd = "set_comm_config"
               THEN \A i \in DOMAIN said.val : dev["holding"][said.val[i].reg] = <<said.val[i].raw>>
               ELSE said.val = said.due
    <2>1. CASE said.cmd # "set_comm_config"
      BY <1>3, <2>1 DEF AnalogInv, AnalogTold
    <2>2. CASE said.cmd = "set_comm_config"
      <3>1. AnalogWriting /\ said.todo = <<>>
        BY <1>3, <2>2 DEF AnalogInv, AnalogTold
      <3>2. PICK k : /\ AnalogLeft(k, said.todo, said.val)
                     /\ \A i \in 1..k : dev["holding"][said.val[i].reg] = <<said.val[i].raw>>
        BY <1>3, <3>1 DEF AnalogWriting
      <3>3. k = Len(said.val) /\ DOMAIN said.val = 1..Len(said.val)
        <4>1. Len(said.todo) = 0
          BY <3>1, SmallSeqs
        <4>2. Len(said.val) \in Nat /\ DOMAIN said.val = 1..Len(said.val)
          BY <3>1 DEF AnalogWriting, Writes, IsSeq
        <4> QED  BY <3>2, <4>1, <4>2 DEF AnalogLeft
      <3> QED  BY <2>2, <3>2, <3>3
    <2> QED  BY <2>1, <2>2
  <1>4. ASSUME NEW c \in Analog!Configs, "comm_watchdog_ms" \in DOMAIN c
        PROVE  LET raw == Analog!commWatchdogMsToRaw(c.comm_watchdog_ms)
               IN  raw # Analog!NoCode => Analog!commWatchdogRawToMs(raw) = c.comm_watchdog_ms
    <2>1. PICK ms \in Int : ms = c["comm_watchdog_ms"]
      BY <1>4, ConfigValues
    <2>2. LET raw == Analog!commWatchdogMsToRaw(ms)
          IN  raw # Analog!NoCode => Analog!commWatchdogRawToMs(raw) = ms
      BY <2>1, WatchdogReadsBack
    <2> QED  BY <2>1, <2>2
  <1> QED  BY <1>2, <1>3, <1>4 DEF Analog!AnswersAreTrue

LEMMA AnalogNames ==
    /\ \A c, s, k, v, d : Analog!Answer(c, s, k, v, d) <=> Answered(c, s, k, v, d)
    /\ \A q, r : r \in Analog!Request(q) /\ dev' = r.d /\ wire' = r.line
                 /\ ctl' = [ctl EXCEPT !.conn = TRUE, !.tx = r.tx] <=> Asked(q, r)
  BY Zenon, AnalogRequests, ClientsNames DEF Analog!Answer, Answered, Asked

LEMMA AnalogStarts == Analog!Init => AnalogInv
  <1> SUFFICES ASSUME Analog!Init PROVE AnalogInv
    OBVIOUS
  <1>1. DOMAIN Analog!Module = ClientAreas /\ {"analog"} \subseteq ClientKinds
    BY DEF Analog!Module, ClientAreas, ClientKinds
  <1>2. /\ ClientTypes /\ ctl.kind \in {"analog"} /\ dev = Analog!Module
        /\ said.status = "none" /\ said.todo = <<>> /\ said.cmd = "none"
    <2>1. Analog!ClientInit({"analog"}, Analog!Module)
      BY DEF Analog!Init
    <2>2. said.cmd = "none"
      BY <2>1 DEF Analog!ClientInit
    <2> QED  BY <1>1, <2>1, <2>2, ClientsInit
  <1>3. AnalogMemory
    <2>1. PICK f : f = [r \in Analog!Holding |-> <<IF r \in {0, 1} THEN 1 ELSE 0>>]
      OBVIOUS
    <2>2. dev["holding"] = f
      BY <1>2, <2>1 DEF Analog!Module
    <2>3. \A r \in Analog!Holding : f[r][1] \in {0, 1}
      BY <2>1
    <2>4. 0 \in Analog!Word /\ 1 \in Analog!Word
      BY CodeRange
    <2> QED  BY <2>1, <2>2, <2>3, <2>4 DEF AnalogMemory
  <1> QED  BY <1>2, <1>3 DEF AnalogInv, AnalogTold

(* Registers hold words, whatever becomes of a request to write words. *)
LEMMA AnalogWords ==
    ASSUME ClientTypes, AnalogMemory, NEW q, NEW r, Asked(q, r),
           \/ Clients!IsRead(q.fc)
           \/ /\ Clients!Area(q.fc) = "holding" /\ q.addr \in Nat /\ q.n \in Nat
              /\ \A i \in 1..q.n : q.p[i][1] \in Analog!Word
    PROVE  AnalogMemory'
  <1>1. CASE Clients!IsRead(q.fc)
    <2>1. dev' = dev
      BY <1>1, ClientsKeep
    <2> QED  BY <2>1, AnalogFixed DEF AnalogMemory
  <1>2. CASE /\ Clients!Area(q.fc) = "holding" /\ q.addr \in Nat /\ q.n \in Nat
             /\ \A i \in 1..q.n : q.p[i][1] \in Analog!Word
    <2>1. PICK A : A = "holding"
      OBVIOUS
    <2>2. A \in ClientAreas /\ Clients!Area(q.fc) = A
      BY <1>2, <2>1 DEF ClientAreas
    <2>3. /\ DOMAIN dev'[A] = DOMAIN dev[A]
          /\ \A a \in DOMAIN dev[A] :
                dev'[A][a] = dev[A][a] \/ (a \in q.addr..(q.addr + q.n - 1) /\ dev'[A][a] = q.p[a - q.addr + 1])
      BY <2>2, ClientsTouch
    <2>4. \A a \in q.addr..(q.addr + q.n - 1) : q.p[a - q.addr + 1][1] \in Analog!Word
      BY <1>2
    <2>5. DOMAIN dev'["holding"] = Analog!Holding /\ \A a \in Analog!Holding : dev'["holding"][a][1] \in Analog!Word
      BY <2>1, <2>3, <2>4 DEF AnalogMemory
    <2> QED  BY <2>5, AnalogFixed DEF AnalogMemory
  <1> QED  BY <1>1, <1>2

LEMMA AnalogEnds ==
    ASSUME AnalogInv, said.id < MaxCommands, NEW q, NEW r, Asked(q, r), AnalogMemory',
           NEW cmd, NEW status, NEW code, NEW val, NEW due, Answered(cmd, status, code, val, due),
           cmd # "set_comm_config", ClientSure /\ status = "done" => val = due
    PROVE  AnalogInv'
  <1>1. /\ ClientSaid /\ said'.status = status /\ said'.cmd = cmd /\ said'.val = val /\ said'.due = due
        /\ said'.late <=> wire # <<>>
    BY ClientsAnswer DEF AnalogInv
  <1>2. said'.todo = <<>>
    BY ClientsAnswer DEF AnalogInv
  <1>3. ClientTypes' /\ ctl'.kind = ctl.kind
    BY <1>1, ClientsCommand DEF AnalogInv
  <1>4. wire = <<>> => ClientSure
    BY DEF ClientSure, AnalogInv, Networked
  <1>5. AnalogTold'
    BY <1>1, <1>2, <1>4 DEF AnalogTold
  <1> QED  BY <1>3, <1>5 DEF AnalogInv

\* The memory stays as it was.
LEMMA AnalogStays ==
    ASSUME AnalogMemory, dev' = dev PROVE AnalogMemory'
  BY AnalogFixed DEF AnalogMemory

LEMMA AnalogRefuses ==
    ASSUME AnalogInv, said.id < MaxCommands, NEW cmd, NEW status, NEW code,
           status = "error" \/ cmd # "set_comm_config",
           Answered(cmd, status, code, <<>>, <<>>), UNCHANGED <<ctl, wire, dev>>
    PROVE  AnalogInv'
  <1>1. ClientSaid /\ said'.cmd = cmd /\ said'.status = status /\ said'.val = <<>> /\ said'.due = <<>>
    BY ClientsAnswer DEF AnalogInv
  <1>2. said'.todo = <<>>
    BY ClientsAnswer DEF AnalogInv
  <1>3. ClientTypes'
    BY <1>1, ClientsRefuse DEF AnalogInv
  <1>4. AnalogTold'
    BY <1>1, <1>2 DEF AnalogTold
  <1>5. AnalogMemory'
    BY AnalogStays DEF AnalogInv
  <1> QED  BY <1>3, <1>4, <1>5 DEF AnalogInv

LEMMA AnalogWritingStays ==
    ASSUME UNCHANGED <<said, dev>>, AnalogWriting PROVE AnalogWriting'
  <1>1. said' = said /\ dev' = dev
    OBVIOUS
  <1>2. Writes(said.val, {0, 1, 3, 4, 5})'
    BY <1>1, AnalogFixed DEF AnalogWriting, Writes, IsSeq, Elements
  <1>3. (\A i \in 1..Len(said.val) : said.val[i].raw \in Analog!Word)'
    BY <1>1, AnalogFixed DEF AnalogWriting
  <1>4. PICK k : /\ AnalogLeft(k, said.todo, said.val)
                 /\ ~said.late => \A i \in 1..k : dev["holding"][said.val[i].reg] = <<said.val[i].raw>>
    BY DEF AnalogWriting
  <1>5. AnalogLeft(k, said.todo, said.val)'
    BY <1>1, <1>4 DEF AnalogLeft, IsSeq, Elements
  <1>6. (~said.late => \A i \in 1..k : dev["holding"][said.val[i].reg] = <<said.val[i].raw>>)'
    BY <1>1, <1>4
  <1> QED  BY <1>2, <1>3, <1>5, <1>6 DEF AnalogWriting

LEMMA AnalogDisconnects ==
    ASSUME AnalogInv, Analog!Disconnected PROVE AnalogInv'
  <1>1. Clients!Disconnected
    BY DEF Analog!Disconnected, Clients!Disconnected, Analog!Quiet, Clients!Quiet
  <1>2. ClientTypes' /\ said' = said /\ ctl'.kind = ctl.kind /\ dev' = dev
    BY <1>1, ClientsDisconnect DEF AnalogInv
  <1>3. AnalogTold'
    BY <1>2, AnalogWritingStays DEF AnalogInv, AnalogTold
  <1>4. AnalogMemory'
    BY <1>2, AnalogStays DEF AnalogInv
  <1> QED  BY <1>2, <1>3, <1>4 DEF AnalogInv

LEMMA AnalogCommandRefuses ==
    ASSUME AnalogInv, said.id < MaxCommands, NEW cmd, NEW code,
           Analog!Refuse(cmd, code) \/ Analog!ConnectFails(cmd)
    PROVE  AnalogInv'
  <1>1. PICK c : Answered(cmd, "error", c, <<>>, <<>>) /\ UNCHANGED <<ctl, wire, dev>>
    BY Zenon, AnalogNames DEF Analog!Refuse, Analog!ConnectFails, Analog!getClient, Analog!getConnection
  <1> QED  BY <1>1, AnalogRefuses

-----------------------------------------------------------------------------
(* Reads and writes. *)

LEMMA AnalogReadsConfig ==
    ASSUME AnalogInv, said.id < MaxCommands, Analog!GetConfig PROVE AnalogInv'
  <1>1. PICK fc, addr, n, cmd : fc = 3 /\ addr = 0 /\ n = 6 /\ cmd = "get_config"
    OBVIOUS
  <1> DEFINE q == Clients!Read(fc, addr, n)
             D(p) == Analog!decodeConfigRegisters(p)
  <1>2. PICK r : /\ Asked(q, r)
                 /\ IF r.ok
                    THEN IF D(r.p) = <<>> THEN Answered(cmd, "error", 2, <<>>, <<>>)
                         ELSE Answered(cmd, "done", 0, D(r.p), D(Clients!Due(fc, addr, n)))
                    ELSE Answered(cmd, "error", 2, <<>>, <<>>)
    BY Zenon, <1>1, AnalogNames, ClientsNames DEF Analog!GetConfig, Analog!Perform, Analog!Failed
  <1>3. fc \in ReadCodes /\ addr \in Nat /\ n \in Nat /\ Clients!IsRead(q.fc) /\ cmd # "set_comm_config"
    BY <1>1 DEF ReadCodes, Clients!Read, Clients!IsRead
  <1>4. AnalogMemory'
    BY <1>2, <1>3, AnalogWords DEF AnalogInv
  <1>5. ASSUME ClientSure, r.ok PROVE r.p = Clients!Due(fc, addr, n)
    <2>1. FewCommands => ClientOrder
      BY DEF ClientOrder, AnalogInv, Networked
    <2>2. Showed(fc, addr, n, r)
      BY <1>2, <1>3, <1>5, <2>1, ClientsReadTrue DEF AnalogInv
    <2> QED  BY <2>2 DEF Showed
  <1>6. PICK val, due : val = D(r.p) /\ due = D(Clients!Due(fc, addr, n))
    OBVIOUS
  <1>7. ClientSure /\ r.ok => val = due
    BY <1>5, <1>6
  <1> HIDE DEF q, D
  <1>8. CASE r.ok /\ val # <<>>
    <2>1. Answered(cmd, "done", 0, val, due)
      BY <1>2, <1>6, <1>8
    <2> QED  BY <1>2, <1>3, <1>4, <1>7, <1>8, <2>1, AnalogEnds
  <1>9. CASE ~(r.ok /\ val # <<>>)
    <2>1. Answered(cmd, "error", 2, <<>>, <<>>)
      BY <1>2, <1>6, <1>9
    <2> QED  BY <1>2, <1>3, <1>4, <2>1, AnalogEnds
  <1> QED  BY <1>8, <1>9

LEMMA AnalogAsksRead ==
    ASSUME NEW start, NEW n, Analog!ReadOutputs(start, n), ~Analog!Refuse("read_outputs", 3), NEW fc, fc = 3,
           NEW addr, addr = Analog!OutputBase + start - 1
    PROVE  \E r : /\ Asked(Clients!Read(fc, addr, n), r)
                  /\ IF r.ok THEN Answered("read_outputs", "done", 0, r.p, Clients!Due(fc, addr, n))
                     ELSE Answered("read_outputs", "error", 2, <<>>, <<>>)
  BY Zenon, AnalogNames, ClientsNames DEF Analog!ReadOutputs, Analog!Perform, Analog!Failed

LEMMA AnalogReadsOutputs ==
    ASSUME AnalogInv, said.id < MaxCommands, NEW start \in Nat \ {0}, NEW n \in Nat, Analog!ReadOutputs(start, n)
    PROVE  AnalogInv'
  <1>1. CASE Analog!Refuse("read_outputs", 3)
    BY <1>1, AnalogCommandRefuses
  <1>2. CASE ~Analog!Refuse("read_outputs", 3)
    <2>1. PICK fc, cmd : fc = 3 /\ cmd = "read_outputs"
      OBVIOUS
    <2>2. PICK addr : addr = Analog!OutputBase + start - 1
      OBVIOUS
    <2>3. addr \in Nat
      BY <2>2 DEF Analog!OutputBase
    <2> DEFINE q == Clients!Read(fc, addr, n)
    <2>4. PICK r : /\ Asked(q, r)
                   /\ IF r.ok THEN Answered(cmd, "done", 0, r.p, Clients!Due(fc, addr, n))
                      ELSE Answered(cmd, "error", 2, <<>>, <<>>)
      BY <1>2, <2>1, <2>2, AnalogAsksRead
    <2>5. fc \in ReadCodes /\ Clients!IsRead(q.fc) /\ cmd # "set_comm_config"
      BY <2>1 DEF ReadCodes, Clients!Read, Clients!IsRead
    <2>6. AnalogMemory'
      BY <2>4, <2>5, AnalogWords DEF AnalogInv
    <2>7. ASSUME ClientSure, r.ok PROVE r.p = Clients!Due(fc, addr, n)
      <3>1. FewCommands => ClientOrder
        BY DEF ClientOrder, AnalogInv, Networked
      <3>2. Showed(fc, addr, n, r)
        BY <2>3, <2>4, <2>5, <2>7, <3>1, ClientsReadTrue DEF AnalogInv
      <3> QED  BY <3>2 DEF Showed
    <2> HIDE DEF q
    <2>8. CASE r.ok
      BY <2>4, <2>5, <2>6, <2>7, <2>8, AnalogEnds
    <2>9. CASE ~r.ok
      BY <2>4, <2>5, <2>6, <2>9, AnalogEnds
    <2> QED  BY <2>8, <2>9
  <1> QED  BY <1>1, <1>2

(* What is common to the commands that write. *)
LEMMA AnalogWrites ==
    ASSUME AnalogInv, said.id < MaxCommands, NEW fc \in WriteCodes, Clients!Area(fc) = "holding",
           NEW addr \in Nat, NEW v, IsSeq(v), \A i \in 1..Len(v) : v[i][1] \in Analog!Word,
           NEW cmd, cmd # "set_comm_config", NEW r, Asked(Clients!Write(fc, addr, v), r),
           IF r.ok THEN Answered(cmd, "done", 0, v, Clients!Due(fc, addr, Len(v)))
           ELSE Answered(cmd, "error", 2, <<>>, <<>>)
    PROVE  AnalogInv'
  <1> DEFINE q == Clients!Write(fc, addr, v)
  <1>1. q.fc = fc /\ q.addr = addr /\ q.n = Len(v) /\ q.p = v /\ Len(v) \in Nat
    BY DEF Clients!Write, IsSeq
  <1>2. AnalogMemory'
    <2>1. Asked(q, r)
      OBVIOUS
    <2> HIDE DEF q
    <2> QED  BY <1>1, <2>1, AnalogWords DEF AnalogInv
  <1>3. ASSUME ClientSure, r.ok PROVE v = Clients!Due(fc, addr, Len(v))
    <2>1. FewCommands => ClientOrder
      BY DEF ClientOrder, AnalogInv, Networked
    <2>2. Landed(fc, addr, v)
      BY <1>3, <2>1, ClientsWriteTrue DEF AnalogInv
    <2> QED  BY <2>2 DEF Landed
  <1>4. CASE r.ok
    BY <1>2, <1>3, <1>4, AnalogEnds
  <1>5. CASE ~r.ok
    BY <1>2, <1>5, AnalogEnds
  <1> QED  BY <1>4, <1>5

LEMMA AnalogAsksOrder ==
    ASSUME NEW cmd, NEW reg, Analog!Order(cmd, reg), NEW fc, fc = 6, NEW v, v = << << 1 >> >>, NEW n, n = 1
    PROVE  \E r : /\ Asked(Clients!Write(fc, reg, v), r)
                  /\ IF r.ok THEN Answered(cmd, "done", 0, v, Clients!Due(fc, reg, n))
                     ELSE Answered(cmd, "error", 2, <<>>, <<>>)
  BY Zenon, AnalogNames, ClientsNames DEF Analog!Order, Analog!Perform, Analog!Failed

LEMMA AnalogOrders ==
    ASSUME AnalogInv, said.id < MaxCommands, NEW cmd, cmd # "set_comm_config", NEW reg \in Nat,
           Analog!Order(cmd, reg)
    PROVE  AnalogInv'
  <1>1. PICK fc, n, x : fc = 6 /\ n = 1 /\ x = <<1>>
    OBVIOUS
  <1>2. PICK v : v = <<x>>
    OBVIOUS
  <1>3. PICK r : /\ Asked(Clients!Write(fc, reg, v), r)
                 /\ IF r.ok THEN Answered(cmd, "done", 0, v, Clients!Due(fc, reg, n))
                    ELSE Answered(cmd, "error", 2, <<>>, <<>>)
    BY <1>1, <1>2, AnalogAsksOrder
  <1>4. fc \in WriteCodes /\ Clients!Area(fc) = "holding"
    BY <1>1 DEF WriteCodes, Clients!Area
  <1>5. IsSeq(v) /\ Len(v) = n /\ v[1] = x /\ n = 1
    BY <1>1, <1>2, SmallSeqs
  <1>6. \A i \in 1..Len(v) : v[i][1] \in Analog!Word
    <2>1. x[1] = 1
      BY <1>1
    <2>2. x[1] \in Analog!Word
      BY <2>1, CodeRange
    <2> QED  BY <1>5, <2>2
  <1>7. IF r.ok THEN Answered(cmd, "done", 0, v, Clients!Due(fc, reg, Len(v)))
        ELSE Answered(cmd, "error", 2, <<>>, <<>>)
    BY <1>3, <1>5
  <1> QED  BY <1>3, <1>4, <1>5, <1>6, <1>7, AnalogWrites

LEMMA AnalogAsksOutputs ==
    ASSUME NEW cmd, NEW fc, NEW start, NEW values, Analog!WriteOutputs(cmd, fc, start, values),
           ~Analog!Refuse(cmd, 3), NEW addr, addr = Analog!OutputBase + start - 1,
           NEW raw, raw = [i \in DOMAIN values |-> <<Analog!engineeringValueToRaw(values[i])>>]
    PROVE  /\ \A i \in DOMAIN raw : raw[i] # <<Analog!NoCode>>
           /\ \E r : /\ Asked(Clients!Write(fc, addr, raw), r)
                     /\ IF r.ok THEN Answered(cmd, "done", 0, raw, Clients!Due(fc, addr, Len(raw)))
                        ELSE Answered(cmd, "error", 2, <<>>, <<>>)
  BY Zenon, AnalogNames, ClientsNames DEF Analog!WriteOutputs, Analog!Perform, Analog!Failed

LEMMA AnalogWritesOutputs ==
    ASSUME AnalogInv, said.id < MaxCommands, NEW cmd, cmd # "set_comm_config", NEW fc \in WriteCodes,
           Clients!Area(fc) = "holding", NEW start \in Nat \ {0}, NEW values, IsSeq(values),
           Analog!WriteOutputs(cmd, fc, start, values)
    PROVE  AnalogInv'
  <1>1. CASE Analog!Refuse(cmd, 3)
    BY <1>1, AnalogCommandRefuses
  <1>2. CASE ~Analog!Refuse(cmd, 3)
    <2>1. PICK addr : addr = Analog!OutputBase + start - 1
      OBVIOUS
    <2>2. addr \in Nat
      BY <2>1 DEF Analog!OutputBase
    <2>3. PICK raw : raw = [i \in DOMAIN values |-> <<Analog!engineeringValueToRaw(values[i])>>]
      OBVIOUS
    <2>4. \A i \in DOMAIN raw : raw[i] # <<Analog!NoCode>>
      BY <1>2, <2>1, <2>3, AnalogAsksOutputs
    <2>5. PICK r : /\ Asked(Clients!Write(fc, addr, raw), r)
                   /\ IF r.ok THEN Answered(cmd, "done", 0, raw, Clients!Due(fc, addr, Len(raw)))
                      ELSE Answered(cmd, "error", 2, <<>>, <<>>)
      BY <1>2, <2>1, <2>3, AnalogAsksOutputs
    <2>6. PICK n \in Nat : n = Len(values) /\ DOMAIN values = 1..n
      BY DEF IsSeq
    <2>7. IsSeq(raw) /\ Len(raw) = n
      <3>1. raw = [i \in 1..n |-> raw[i]]
        BY <2>3, <2>6
      <3> QED  BY <3>1, Row
    <2>8. ASSUME NEW i \in 1..Len(raw) PROVE raw[i][1] \in Analog!Word
      <3>1. PICK w : w = Analog!engineeringValueToRaw(values[i])
        OBVIOUS
      <3>2. raw[i] = <<w>> /\ i \in DOMAIN raw
        BY <2>3, <2>6, <2>7, <3>1
      <3>3. w # Analog!NoCode
        BY <2>4, <3>2
      <3>4. w \in Analog!Word
        BY <3>1, <3>3 DEF Analog!engineeringValueToRaw
      <3> QED  BY <3>2, <3>4
    <2> QED  BY <2>2, <2>5, <2>7, <2>8, AnalogWrites
  <1> QED  BY <1>1, <1>2

-----------------------------------------------------------------------------
(* set_comm_config *)

LEMMA AnalogSets ==
    ASSUME AnalogInv, said.todo = <<>>, said.id < MaxCommands, NEW c \in Analog!Configs, Analog!SetCommConfig(c)
    PROVE  AnalogInv'
  <1>1. CASE Analog!Refuse("set_comm_config", 3)
    BY <1>1, AnalogCommandRefuses
  <1>2. CASE ~Analog!Refuse("set_comm_config", 3)
    <2>1. PICK writes : writes = Analog!buildCommConfigWrites(c)
      OBVIOUS
    <2>2. Writes(writes, {0, 1, 3, 4, 5})
      BY <2>1, AnalogBuilds
    <2>3. PICK b, s, k : b = FALSE /\ s = "none" /\ k = "set_comm_config"
      OBVIOUS
    <2>4. /\ \A i \in DOMAIN writes : writes[i].raw # Analog!NoCode
          /\ said' = [said EXCEPT !.id = @ + 1, !.status = s, !.cmd = k,
                                  !.val = writes, !.due = <<>>, !.todo = writes, !.late = b]
          /\ UNCHANGED <<ctl, wire, dev>>
      BY <1>2, <2>1, <2>3 DEF Analog!SetCommConfig
    <2>5. /\ DOMAIN said' = DOMAIN said /\ said'.id = said.id + 1 /\ said'.status = s /\ said'.cmd = k
          /\ said'.val = writes /\ said'.todo = writes
      BY <2>4 DEF AnalogInv, ClientTypes
    <2>6. ClientSaid
      BY <2>5 DEF ClientSaid
    <2>7. ClientTypes'
      BY <2>4, <2>6, ClientsRefuse DEF AnalogInv
    <2>8. AnalogMemory'
      BY <2>4, AnalogStays DEF AnalogInv
    <2>9. IsSeq(writes) /\ Len(writes) \in Nat /\ DOMAIN writes = 1..Len(writes)
      BY <2>2 DEF Writes, IsSeq
    <2>10. Writes(said.val, {0, 1, 3, 4, 5})'
      BY <2>2, <2>5, AnalogFixed DEF Writes, IsSeq, Elements
    <2>11. (\A i \in 1..Len(said.val) : said.val[i].raw \in Analog!Word)'
      <3>1. \A i \in 1..Len(writes) : writes[i].raw \in Analog!Word
        BY <2>2, <2>4, <2>9, CodeRange DEF Writes
      <3> QED  BY <2>5, <3>1, AnalogFixed
    <2>12. PICK n : n = 0
      OBVIOUS
    <2>13. AnalogLeft(n, said.todo, said.val)'
      <3>1. AnalogLeft(n, writes, writes)
        BY <2>9, <2>12 DEF AnalogLeft
      <3> QED  BY <2>5, <3>1 DEF AnalogLeft, IsSeq, Elements
    <2>14. (~said.late => \A i \in 1..n : dev["holding"][said.val[i].reg] = <<said.val[i].raw>>)'
      BY <2>12
    <2>15. AnalogWriting'
      BY <2>10, <2>11, <2>13, <2>14 DEF AnalogWriting
    <2>16. AnalogTold'
      BY <2>3, <2>5, <2>15 DEF AnalogTold
    <2> QED  BY <2>4, <2>7, <2>8, <2>16 DEF AnalogInv
  <1> QED  BY <1>1, <1>2

LEMMA Behead ==
    ASSUME NEW s, IsSeq(s), s # <<>>
    PROVE  /\ IsSeq(Tail(s)) /\ Len(s) \in Nat \ {0} /\ Len(Tail(s)) = Len(s) - 1 /\ Head(s) = s[1]
           /\ \A i \in 1..Len(Tail(s)) : Tail(s)[i] = s[i + 1]
  <1>1. PICK S : s \in Seq(S)
    BY DEF IsSeq
  <1>2. Tail(s) \in Seq(S) /\ Len(s) \in Nat \ {0} /\ Len(Tail(s)) = Len(s) - 1 /\ Head(s) = s[1]
    BY <1>1
  <1>3. \A i \in 1..Len(Tail(s)) : Tail(s)[i] = s[i + 1]
    BY <1>1, <1>2
  <1>4. IsSeq(Tail(s))
    BY <1>2, SeqIsSeq
  <1> QED  BY <1>2, <1>3, <1>4

\* What is known of the answer before the next field is written, and what
\* becomes of it with the reply r.
AnalogHeard == [said EXCEPT !.late = @ \/ wire # <<>>]
AnalogGoes(told, ok) ==
    IF ok
    THEN said' = [told EXCEPT !.todo = Tail(@), !.status = IF Len(said.todo) = 1 THEN "done" ELSE @]
    ELSE said' = [told EXCEPT !.todo = <<>>, !.status = "error", !.code = 2]

LEMMA AnalogAsksField ==
    ASSUME Analog!WriteNext, NEW w, w = Head(said.todo), NEW fc, fc = 6, NEW v, v = <<<<w.raw>>>>,
           NEW reg, reg = w.reg
    PROVE  said.todo # <<>> /\ \E r : Asked(Clients!Write(fc, reg, v), r) /\ AnalogGoes(AnalogHeard, r.ok)
  <1> DEFINE x == Head(said.todo)
             Heard == [said EXCEPT !.late = @ \/ wire # Analog!Quiet]
             Done(r) == r.ok /\ said' = [Heard EXCEPT !.todo = Tail(@),
                                                     !.status = IF Len(said.todo) = 1 THEN "done" ELSE @]
             Fails(r) == ~r.ok /\ said' = [Heard EXCEPT !.todo = <<>>, !.status = "error", !.code = 2]
  <1>1. /\ said.todo # <<>>
        /\ \E r \in Analog!Request(Analog!Write(6, x.reg, <<<<x.raw>>>>)) :
              /\ dev' = r.d /\ wire' = r.line /\ ctl' = [ctl EXCEPT !.conn = TRUE, !.tx = r.tx]
              /\ Done(r) \/ Fails(r)
    BY Zenon DEF Analog!WriteNext, Analog!Perform
  <1>2. AnalogHeard = Heard
    BY Zenon, ClientsNames DEF AnalogHeard
  <1> HIDE DEF Done, Fails
  <1>3. \E r : Asked(Clients!Write(fc, reg, v), r) /\ (Done(r) \/ Fails(r))
    BY Zenon, <1>1, AnalogNames, ClientsNames
  <1> QED  BY <1>1, <1>2, <1>3 DEF Done, Fails, AnalogGoes

\* What the step leaves of the answer.
LEMMA AnalogTells ==
    ASSUME ClientTypes, NEW told, told = AnalogHeard, NEW ok \in BOOLEAN, AnalogGoes(told, ok)
    PROVE  /\ DOMAIN said' = DOMAIN said /\ said'.id = said.id /\ said'.cmd = said.cmd /\ said'.val = said.val
           /\ ok => /\ ~said'.late => ~said.late /\ wire = <<>>
                    /\ said'.todo = Tail(said.todo)
                    /\ said'.status = IF Len(said.todo) = 1 THEN "done" ELSE said.status
           /\ ~ok => said'.todo = <<>> /\ said'.status = "error"
  <1>1. PICK b \in BOOLEAN : b <=> said.late \/ wire # <<>>
    <2>1. (said.late \/ wire # <<>>) \in BOOLEAN
      OBVIOUS
    <2> QED  BY <2>1
  <1>2. told = [said EXCEPT !.late = b]
    <2>1. (said.late \/ wire # <<>>) = b
      BY <1>1
    <2> QED  BY <2>1 DEF AnalogHeard
  <1>3. /\ DOMAIN told = DOMAIN said /\ told.id = said.id /\ told.cmd = said.cmd /\ told.val = said.val
        /\ told.todo = said.todo /\ told.status = said.status /\ told.late = b
    BY ONLY <1>2, ClientTypes DEF ClientTypes
  <1>4. CASE ok
    <2>1. PICK t, s : t = Tail(said.todo) /\ s = IF Len(said.todo) = 1 THEN "done" ELSE said.status
      OBVIOUS
    <2>2. said' = [told EXCEPT !.todo = t, !.status = s]
      BY <1>3, <1>4, <2>1 DEF AnalogGoes
    <2>3. DOMAIN told = {"id", "status", "code", "cmd", "val", "due", "late", "todo"}
      BY <1>3 DEF ClientTypes
    <2>4. /\ DOMAIN said' = DOMAIN told /\ said'.id = told.id /\ said'.cmd = told.cmd /\ said'.val = told.val
          /\ said'.todo = t /\ said'.status = s /\ said'.late = told.late
      BY ONLY <2>2, <2>3
    <2> QED  BY <1>1, <1>3, <1>4, <2>1, <2>4
  <1>5. CASE ~ok
    <2>1. PICK t, s, n : t = <<>> /\ s = "error" /\ n = 2
      OBVIOUS
    <2>2. said' = [told EXCEPT !.todo = t, !.status = s, !.code = n]
      BY <1>5, <2>1 DEF AnalogGoes
    <2>3. DOMAIN told = {"id", "status", "code", "cmd", "val", "due", "late", "todo"}
      BY <1>3 DEF ClientTypes
    <2>4. /\ DOMAIN said' = DOMAIN told /\ said'.id = told.id /\ said'.cmd = told.cmd /\ said'.val = told.val
          /\ said'.todo = t /\ said'.status = s
      BY ONLY <2>2, <2>3
    <2> QED  BY <1>3, <1>5, <2>1, <2>4
  <1> QED  BY <1>4, <1>5

\* One more field is in its register.
LEMMA AnalogWritesOne ==
    ASSUME AnalogMemory, NEW k, AnalogLeft(k, said.todo, said.val), said.todo # <<>>,
           Writes(said.val, {0, 1, 3, 4, 5}),
           \A i \in 1..k : dev["holding"][said.val[i].reg] = <<said.val[i].raw>>,
           NEW w, w = said.todo[1], NEW fc, Clients!Area(fc) = "holding",
           NEW x, x = <<w.raw>>, NEW v, v = <<x>>, Landed(fc, w.reg, v)
    PROVE  \A i \in 1..(k + 1) : dev'["holding"][said.val[i].reg] = <<said.val[i].raw>>
  <1>1. /\ k \in 0..Len(said.val) /\ Len(said.val) \in Nat /\ Len(said.todo) = Len(said.val) - k
        /\ Len(said.todo) > 0 /\ w = said.val[k + 1] /\ k + 1 \in 1..Len(said.val)
    <2>1. IsSeq(said.todo) /\ IsSeq(said.val)
      BY DEF AnalogLeft, Writes
    <2>2. Len(said.todo) \in Nat /\ Len(said.todo) > 0 /\ Len(said.val) \in Nat
      BY <2>1, Behead DEF IsSeq
    <2> QED  BY <2>2 DEF AnalogLeft
  <1>2. PICK n \in Nat : n = w.reg
    BY <1>1 DEF Writes
  <1> DEFINE f == dev["holding"]
  <1>3. n \in DOMAIN f
    <2>1. n \in {0, 1, 3, 4, 5}
      BY <1>1, <1>2 DEF Writes
    <2>2. DOMAIN f = Analog!Holding
      BY <1>2 DEF AnalogMemory
    <2> QED  BY <2>1, <2>2 DEF Analog!Holding
  <1>4. Len(v) = 1 /\ v[1] = x
    BY SmallSeqs
  <1>5. dev'["holding"] = [a \in DOMAIN f |-> IF a \in n..(n + Len(v) - 1) THEN v[a - n + 1] ELSE f[a]]
    BY <1>2 DEF Landed
  <1>6. dev'["holding"][n] = x
    <2>1. n \in n..(n + Len(v) - 1) /\ n - n + 1 = 1
      BY <1>2, <1>4
    <2> QED  BY <1>3, <1>4, <1>5, <2>1
  <1>7. ASSUME NEW i \in 1..k PROVE dev'["holding"][said.val[i].reg] = <<said.val[i].raw>>
    <2>1. i \in 1..Len(said.val) /\ i # k + 1
      BY <1>1
    <2>2. PICK m \in Nat : m = said.val[i].reg
      BY <2>1 DEF Writes
    <2>3. m # n /\ m \in {0, 1, 3, 4, 5}
      BY <1>1, <1>2, <2>1, <2>2 DEF Writes
    <2>4. m \in DOMAIN f
      <3>1. DOMAIN f = Analog!Holding
        BY <1>2 DEF AnalogMemory
      <3> QED  BY <2>3, <3>1 DEF Analog!Holding
    <2>5. m \notin n..(n + Len(v) - 1)
      BY <1>2, <1>4, <2>2, <2>3
    <2>6. dev'["holding"][m] = f[m]
      BY <1>5, <2>4, <2>5
    <2> QED  BY <1>2, <2>2, <2>6
  <1>8. \A i \in 1..(k + 1) : i \in 1..k \/ i = k + 1
    BY <1>1
  <1> QED  BY <1>1, <1>2, <1>6, <1>7, <1>8

LEMMA AnalogContinues ==
    ASSUME AnalogInv, Analog!WriteNext PROVE AnalogInv'
  <1>1. PICK w, fc : w = Head(said.todo) /\ fc = 6
    OBVIOUS
  <1>2. PICK reg, x : reg = w.reg /\ x = <<w.raw>>
    OBVIOUS
  <1>3. PICK v : v = <<x>>
    OBVIOUS
  <1>4. PICK told : told = AnalogHeard
    OBVIOUS
  <1>5. said.todo # <<>> /\ \E r : Asked(Clients!Write(fc, reg, v), r) /\ AnalogGoes(AnalogHeard, r.ok)
    BY <1>1, <1>2, <1>3, AnalogAsksField
  <1>6. PICK r : Asked(Clients!Write(fc, reg, v), r) /\ AnalogGoes(told, r.ok)
    BY <1>4, <1>5
  <1>7. PICK ok \in BOOLEAN : ok <=> r.ok
    <2>1. CASE r.ok
      BY <2>1
    <2>2. CASE ~r.ok
      BY <2>2
    <2> QED  BY <2>1, <2>2
  <1>8. /\ DOMAIN said' = DOMAIN said /\ said'.id = said.id /\ said'.cmd = said.cmd /\ said'.val = said.val
        /\ ok => /\ ~said'.late => ~said.late /\ wire = <<>>
                 /\ said'.todo = Tail(said.todo)
                 /\ said'.status = IF Len(said.todo) = 1 THEN "done" ELSE said.status
        /\ ~ok => said'.todo = <<>> /\ said'.status = "error"
    <2>1. AnalogGoes(told, ok)
      <3>1. CASE ok
        BY <1>6, <1>7, <3>1 DEF AnalogGoes
      <3>2. CASE ~ok
        BY <1>6, <1>7, <3>2 DEF AnalogGoes
      <3> QED  BY <3>1, <3>2
    <2>2. ClientTypes
      BY DEF AnalogInv
    <2> QED  BY ONLY <1>4, <2>1, <2>2, AnalogTells
  <1>9. said.cmd = "set_comm_config" /\ said.status = "none" /\ AnalogWriting
    BY <1>5 DEF AnalogInv, AnalogTold
  <1>10. PICK k : /\ AnalogLeft(k, said.todo, said.val)
                  /\ ~said.late => \A i \in 1..k : dev["holding"][said.val[i].reg] = <<said.val[i].raw>>
    BY <1>9 DEF AnalogWriting
  <1>11. /\ IsSeq(said.todo) /\ IsSeq(Tail(said.todo)) /\ Len(said.todo) \in Nat \ {0}
         /\ Len(Tail(said.todo)) = Len(said.todo) - 1 /\ w = said.todo[1]
         /\ \A i \in 1..Len(Tail(said.todo)) : Tail(said.todo)[i] = said.todo[i + 1]
    <2>1. IsSeq(said.todo)
      BY <1>10 DEF AnalogLeft
    <2> QED  BY <1>1, <1>5, <2>1, Behead
  <1>12. /\ k \in Nat /\ Len(said.val) \in Nat /\ k + 1 \in 1..Len(said.val) /\ w = said.val[k + 1]
         /\ Len(said.todo) = Len(said.val) - k /\ IsSeq(said.val)
    <2>1. IsSeq(said.val) /\ Len(said.val) \in Nat
      BY <1>9 DEF AnalogWriting, Writes, IsSeq
    <2> QED  BY <1>10, <1>11, <2>1 DEF AnalogLeft
  <1>13. reg \in Nat /\ w.raw \in Analog!Word /\ Writes(said.val, {0, 1, 3, 4, 5})
    BY <1>2, <1>9, <1>12 DEF AnalogWriting, Writes
  <1>14. fc \in WriteCodes /\ Clients!Area(fc) = "holding"
    BY <1>1 DEF WriteCodes, Clients!Area
  <1>15. IsSeq(v) /\ Len(v) = 1 /\ v[1] = x /\ x[1] = w.raw
    BY <1>2, <1>3, SmallSeqs
  <1> DEFINE q == Clients!Write(fc, reg, v)
  <1>16. q.fc = fc /\ q.addr = reg /\ q.n = 1 /\ q.p = v
    BY <1>15 DEF Clients!Write
  <1>17. Asked(q, r)
    BY <1>6
  <1>18. ClientTypes' /\ ctl'.kind = ctl.kind
    <2>1. ClientSaid /\ ctl.kind \notin Networked
      BY <1>8 DEF ClientSaid, AnalogInv, Networked
    <2>2. ClientTypes'
      BY Zenon, <1>17, <2>1, ClientsPerform DEF Asked, AnalogInv
    <2>3. PICK y, t2 : y = TRUE /\ t2 = r.tx
      OBVIOUS
    <2>4. ctl' = [ctl EXCEPT !.conn = y, !.tx = t2]
      BY <1>17, <2>3 DEF Asked
    <2>5. ctl'.kind = ctl.kind
      BY <2>4 DEF AnalogInv, ClientTypes
    <2> QED  BY <2>2, <2>5
  <1>19. AnalogMemory'
    <2>1. \A i \in 1..q.n : q.p[i][1] \in Analog!Word
      BY <1>13, <1>15, <1>16
    <2>2. q.n \in Nat
      BY <1>16
    <2> HIDE DEF q
    <2> QED  BY <1>13, <1>14, <1>16, <1>17, <2>1, <2>2, AnalogWords DEF AnalogInv
  <1>20. CASE ~ok
    <2>1. AnalogTold'
      BY <1>8, <1>20 DEF AnalogTold
    <2> QED  BY <1>18, <1>19, <2>1 DEF AnalogInv
  <1>21. CASE ok
    <2>1. PICK m \in Nat : m = k + 1
      BY <1>12
    <2>2. AnalogLeft(m, Tail(said.todo), said.val)
      BY <1>10, <1>11, <1>12, <2>1 DEF AnalogLeft
    <2>3. ASSUME ~said'.late
          PROVE  \A i \in 1..m : dev'["holding"][said.val[i].reg] = <<said.val[i].raw>>
      <3>1. ~said.late /\ wire = <<>>
        BY <1>8, <1>21, <2>3
      <3>2. Landed(fc, reg, v)
        <4>1. ClientClear
          BY <3>1, ClientsClear DEF AnalogInv, Networked
        <4>2. r \in Clients!Request(Clients!Write(fc, reg, v)) /\ dev' = r.d /\ r.ok
          BY <1>6, <1>7, <1>21 DEF Asked
        <4> QED  BY <1>13, <1>14, <1>15, <4>1, <4>2, ClientsWrite DEF AnalogInv
      <3>3. \A i \in 1..k : dev["holding"][said.val[i].reg] = <<said.val[i].raw>>
        BY <1>10, <3>1
      <3>4. AnalogMemory
        BY DEF AnalogInv
      <3>5. \A i \in 1..(k + 1) : dev'["holding"][said.val[i].reg] = <<said.val[i].raw>>
        <4>1. Landed(fc, w.reg, v)
          BY <1>2, <3>2
        <4> QED  BY <1>2, <1>3, <1>5, <1>10, <1>11, <1>13, <1>14, <3>3, <3>4, <4>1, AnalogWritesOne
      <3> QED  BY <2>1, <3>5
    <2>4. Writes(said.val, {0, 1, 3, 4, 5})'
      BY <1>8, <1>13, AnalogFixed DEF Writes, IsSeq, Elements
    <2>5. (\A i \in 1..Len(said.val) : said.val[i].raw \in Analog!Word)'
      BY <1>8, <1>9, AnalogFixed DEF AnalogWriting
    <2>6. AnalogLeft(m, said.todo, said.val)'
      BY <1>8, <1>21, <2>2 DEF AnalogLeft, IsSeq, Elements
    <2>7. (~said.late => \A i \in 1..m : dev["holding"][said.val[i].reg] = <<said.val[i].raw>>)'
      BY <1>8, <2>3
    <2>8. AnalogWriting'
      BY <2>4, <2>5, <2>6, <2>7 DEF AnalogWriting
    <2>9. said'.todo # <<>> => said'.status = "none"
      <3>1. Len(said.todo) = 1 => Len(Tail(said.todo)) = 0
        BY <1>11
      <3>2. \A s : IsSeq(s) /\ Len(s) = 0 => s = <<>>
        BY NoElements
      <3> QED  BY <1>8, <1>9, <1>11, <1>21, <3>1, <3>2
    <2>10. AnalogTold'
      BY <1>8, <1>9, <2>8, <2>9 DEF AnalogTold
    <2> QED  BY <1>18, <1>19, <2>10 DEF AnalogInv
  <1> QED  BY <1>20, <1>21

LEMMA AnalogCommands ==
    ASSUME AnalogInv, said.todo = <<>>, said.id < MaxCommands, NEW c, Analog!Command(c) PROVE AnalogInv'
  <1>0. Channels \in Nat \ {0}
    BY DevicesAssumption
  <1>1. ASSUME c = "status", Analog!Answer(c, "done", 0, <<>>, <<>>), UNCHANGED <<ctl, wire, dev>>
        PROVE  AnalogInv'
    <2>1. Answered(c, "done", 0, <<>>, <<>>)
      BY Zenon, <1>1, AnalogNames
    <2> QED  BY <1>1, <2>1, AnalogRefuses
  <1>2. CASE Analog!ConnectFails(c)
    BY <1>2, AnalogCommandRefuses
  <1>3. CASE Analog!GetConfig
    BY <1>3, AnalogReadsConfig
  <1>4. ASSUME NEW config \in Analog!Configs, Analog!SetCommConfig(config) PROVE AnalogInv'
    BY <1>4, AnalogSets
  <1>5. ASSUME c \in {"restore_defaults", "clear_outputs"},
               Analog!Order(c, Analog!RestoreDefaults) \/ Analog!Order(c, Analog!ClearOutputs)
        PROVE  AnalogInv'
    <2>1. PICK reg \in Nat : Analog!Order(c, reg)
      BY <1>5 DEF Analog!RestoreDefaults, Analog!ClearOutputs
    <2> QED  BY <1>5, <2>1, AnalogOrders
  <1>6. ASSUME NEW start \in 1..Channels, NEW n \in {1, Channels}, Analog!ReadOutputs(start, n) PROVE AnalogInv'
    <2>1. start \in Nat \ {0} /\ n \in Nat
      BY <1>0
    <2> QED  BY <1>6, <2>1, AnalogReadsOutputs
  <1>7. ASSUME c = "write_output", NEW ch \in {1, Channels}, NEW v, Analog!WriteOutputs(c, 6, ch, <<v>>)
        PROVE  AnalogInv'
    <2>1. PICK fc, start, values : fc = 6 /\ start = ch /\ values = <<v>>
      OBVIOUS
    <2>2. start \in Nat \ {0} /\ IsSeq(values)
      BY <1>0, <2>1, SmallSeqs
    <2>3. fc \in WriteCodes /\ Clients!Area(fc) = "holding"
      BY <2>1 DEF WriteCodes, Clients!Area
    <2>4. Analog!WriteOutputs(c, fc, start, values)
      BY <1>7, <2>1
    <2> QED  BY <1>7, <2>2, <2>3, <2>4, AnalogWritesOutputs
  <1>8. ASSUME c = "write_outputs", NEW vs \in {<<>>, <<1000, 2000>>}, Analog!WriteOutputs(c, 16, 1, vs)
        PROVE  AnalogInv'
    <2>1. PICK fc, start : fc = 16 /\ start = 1
      OBVIOUS
    <2>2. start \in Nat \ {0} /\ IsSeq(vs)
      BY <2>1, SmallSeqs
    <2>3. fc \in WriteCodes /\ Clients!Area(fc) = "holding"
      BY <2>1 DEF WriteCodes, Clients!Area
    <2>4. Analog!WriteOutputs(c, fc, start, vs)
      BY <1>8, <2>1
    <2> QED  BY <1>8, <2>2, <2>3, <2>4, AnalogWritesOutputs
  <1> QED  BY <1>1, <1>2, <1>3, <1>4, <1>5, <1>6, <1>7, <1>8 DEF Analog!Command

LEMMA AnalogStep == ASSUME AnalogInv, Analog!Next PROVE AnalogInv'
  <1>1. CASE Analog!Handle
    <2>1. said.todo = <<>> /\ said.id < MaxCommands
      BY <1>1 DEF Analog!Handle
    <2>2. CASE Analog!Refuse("unknown", 404)
      BY <2>1, <2>2, AnalogCommandRefuses
    <2>3. ASSUME NEW c, Analog!Command(c) PROVE AnalogInv'
      BY <2>1, <2>3, AnalogCommands
    <2> QED  BY <1>1, <2>2, <2>3 DEF Analog!Handle
  <1>2. CASE Analog!Disconnected
    BY <1>2, AnalogDisconnects
  <1>3. CASE Analog!WriteNext
    BY <1>3, AnalogContinues
  <1> QED  BY <1>1, <1>2, <1>3 DEF Analog!Next

-----------------------------------------------------------------------------
(* A step that changes nothing keeps the invariants. *)

LEMMA ClientsStutter ==
    ASSUME ClientTypes, ctl' = ctl, wire' = wire, dev' = dev, said' = said
    PROVE  ClientTypes' /\ (ClientOrder => ClientOrder')
  BY DEF ClientTypes, ClientOrder, IsSeq, Elements

LEMMA MasterStutters == ASSUME MasterInv, UNCHANGED vars PROVE MasterInv'
  <1>1. ctl' = ctl /\ wire' = wire /\ dev' = dev /\ said' = said
    BY DEF vars
  <1>2. ClientTypes' /\ (ClientOrder => ClientOrder')
    BY <1>1, ClientsStutter DEF MasterInv
  <1> QED  BY <1>1, <1>2 DEF MasterInv, MasterTold

LEMMA CraneStutters == ASSUME CraneInv, UNCHANGED vars PROVE CraneInv'
  <1>1. ctl' = ctl /\ wire' = wire /\ dev' = dev /\ said' = said
    BY DEF vars
  <1>2. ClientTypes' /\ (ClientOrder => ClientOrder')
    BY <1>1, ClientsStutter DEF CraneInv
  <1>3. dev'["discrete"] \in Crane!Switches' 
    <2>1. Crane!Switches' = Crane!Switches
      BY DEF Crane!Switches
    <2> QED  BY <1>1, <2>1 DEF CraneInv
  <1> QED  BY <1>1, <1>2, <1>3 DEF CraneInv, CraneTold, CraneRight

LEMMA LimacoStutters == ASSUME LimacoInv, UNCHANGED vars PROVE LimacoInv'
  <1>1. ctl' = ctl /\ wire' = wire /\ dev' = dev /\ said' = said
    BY DEF vars
  <1>2. ClientTypes'
    BY <1>1, ClientsStutter DEF LimacoInv
  <1>3. RadarHolds'
    BY <1>1, RadarStays DEF LimacoInv
  <1> QED  BY <1>1, <1>2, <1>3 DEF LimacoInv, LimacoTold, LimacoRight

LEMMA AnalogStutters == ASSUME AnalogInv, UNCHANGED vars PROVE AnalogInv'
  <1>1. ctl' = ctl /\ wire' = wire /\ dev' = dev /\ said' = said
    BY DEF vars
  <1>2. ClientTypes'
    BY <1>1, ClientsStutter DEF AnalogInv
  <1>3. AnalogMemory'
    BY <1>1, AnalogStays DEF AnalogInv
  <1>4. ASSUME AnalogWriting PROVE AnalogWriting'
    BY <1>1, <1>4, AnalogWritingStays
  <1> QED  BY <1>1, <1>2, <1>3, <1>4 DEF AnalogInv, AnalogTold

-----------------------------------------------------------------------------
(***************************************************************************)
(* As long as a client gives no more commands than there are transaction   *)
(* numbers, what it says it read the device has and what it says it wrote  *)
(* is there, whatever is late on the line (modbus_client.cpp,              *)
(* modbus_rtu_client.cpp, modbus_types.cpp and the drivers that use them). *)
(* Without the hypothesis an answer to the request of the same number, a   *)
(* whole range of numbers ago, could be taken for this one's.              *)
(***************************************************************************)
THEOREM ModbusAnswersAreTrue == MaxCommands <= TxIds => (Spec => []ModbusAnswers)
  <1> SUFFICES ASSUME MaxCommands <= TxIds PROVE Spec => []ModbusAnswers
    OBVIOUS
  <1> DEFINE I == /\ driver = "modbus" => MasterInv
                  /\ driver = "plc_crane" => CraneInv
                  /\ driver = "pqw_analog_output" => AnalogInv
                  /\ driver = "limaco_radar" => LimacoInv
  <1>1. Init => I
    BY MasterStarts, CraneStarts, AnalogStarts, LimacoStarts DEF Init
  <1>2. I /\ [Next]_vars => I'
    <2> SUFFICES ASSUME I, [Next]_vars PROVE I'
      OBVIOUS
    <2>1. CASE UNCHANGED vars
      <3>1. driver' = driver
        BY <2>1 DEF vars
      <3> QED  BY <2>1, <3>1, MasterStutters, CraneStutters, AnalogStutters, LimacoStutters
    <2>2. CASE Next
      <3>1. driver' = driver
        BY <2>2 DEF Next
      <3>2. driver = "modbus" => MasterInv'
        BY <2>2, MasterStep DEF Next, DriverStep
      <3>3. driver = "plc_crane" => CraneInv'
        BY <2>2, CraneStep DEF Next, DriverStep
      <3>4. driver = "pqw_analog_output" => AnalogInv'
        BY <2>2, AnalogStep DEF Next, DriverStep
      <3>5. driver = "limaco_radar" => LimacoInv'
        BY <2>2, LimacoStep DEF Next, DriverStep
      <3> QED  BY <3>1, <3>2, <3>3, <3>4, <3>5
    <2> QED  BY <2>1, <2>2
  <1>3. I => ModbusAnswers
    BY MasterInvHolds, CraneInvHolds, AnalogInvHolds, LimacoInvHolds DEF ModbusAnswers, FewCommands
  <1> QED  BY <1>1, <1>2, <1>3, PTL DEF Spec
=============================================================================
