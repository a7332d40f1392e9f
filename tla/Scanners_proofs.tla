-------------------------- MODULE Scanners_proofs ---------------------------
(***************************************************************************)
(* Proofs about the drivers of the scanners (ScanRobot, LaserRadar,        *)
(* TempScanner) as drivers of DeviceDrivers: for any bounds on the         *)
(* commands and on what is late on the line, any range of the robot's      *)
(* frame counter and any number of segments of a scan.                     *)
(*                                                                         *)
(* What the drivers say is true for one reason: the port is opened for a   *)
(* command and closed after it, so nothing on the line is older than the   *)
(* command.  Each driver's invariant holds the types without condition,    *)
(* and the truth under the hypothesis that what is late does not survive   *)
(* the port.                                                               *)
(***************************************************************************)
EXTENDS ModbusServers_proofs

Line == INSTANCE DeviceLine

LEMMA ReadsAny ==
    ASSUME NEW line, IsSeq(line), NEW r \in Line!Reads(line)
    PROVE  /\ IsSeq(r.line) /\ Len(r.line) \in Nat /\ Len(line) \in Nat /\ Len(r.line) <= Len(line)
           /\ Elements(r.line) \subseteq Elements(line)
           /\ r.got \in Elements(line) \cup {Line!NoFrame, Line!BadFrame}
           /\ r.got # Line!NoFrame => Len(r.line) < Len(line)
  <1>1. Len(line) \in Nat /\ line \in Seq(Elements(line))
    BY DEF IsSeq
  <1>2. CASE r = [line |-> line, got |-> Line!NoFrame, taken |-> 0]
    <2>1. r.line = line /\ r.got = Line!NoFrame
      BY <1>2
    <2> QED  BY <1>1, <2>1
  <1>3. CASE r # [line |-> line, got |-> Line!NoFrame, taken |-> 0]
    <2>1. PICK k \in 1..Len(line), f \in {line[i] : i \in {1} \cap DOMAIN line} \cup {Line!BadFrame} :
             r = [line |-> SubSeq(line, k + 1, Len(line)), got |-> f, taken |-> k]
      BY <1>3 DEF Line!Reads
    <2>2. r.line = SubSeq(line, k + 1, Len(line)) /\ r.got = f
      BY <2>1
    <2>3. f \in Elements(line) \cup {Line!BadFrame}
      BY <2>1 DEF Elements
    <2>4. k + 1 \in 1..(Len(line) + 1) /\ Len(line) \in (k + 1 - 1)..Len(line) /\ k \in Nat
      BY <1>1
    <2>5. /\ IsSeq(r.line) /\ Len(r.line) = Len(line) - (k + 1) + 1
          /\ \A i \in 1..(Len(line) - (k + 1) + 1) : r.line[i] = line[(k + 1) + i - 1]
      <3> HIDE DEF IsSeq
      <3> QED  BY <2>2, <2>4, SubAny
    <2>6. Len(r.line) = Len(line) - k /\ \A i \in 1..(Len(line) - k) : r.line[i] = line[k + i]
      BY <1>1, <2>4, <2>5
    <2>7. Elements(r.line) \subseteq Elements(line)
      <3>1. SUFFICES ASSUME NEW i \in DOMAIN r.line PROVE \E j \in DOMAIN line : r.line[i] = line[j]
        BY DEF Elements
      <3>2. i \in 1..(Len(line) - k) /\ DOMAIN line = 1..Len(line)
        BY <1>1, <2>5, <2>6 DEF IsSeq
      <3>3. k + i \in 1..Len(line)
        BY <1>1, <2>4, <3>2
      <3> QED  BY <2>6, <3>2, <3>3
    <2> QED  BY <1>1, <2>2, <2>3, <2>4, <2>5, <2>6, <2>7
  <1> QED  BY <1>2, <1>3

LEMMA DrainedAny ==
    ASSUME NEW line, IsSeq(line), NEW l \in Line!Drained(line)
    PROVE  /\ IsSeq(l) /\ Len(l) \in Nat /\ Len(line) \in Nat /\ Len(l) <= Len(line)
           /\ Elements(l) \subseteq Elements(line)
  <1>1. Len(line) \in Nat /\ line \in Seq(Elements(line))
    BY DEF IsSeq
  <1>2. PICK k \in 0..Len(line) : l = SubSeq(line, k + 1, Len(line))
    BY DEF Line!Drained
  <1>4. k + 1 \in 1..(Len(line) + 1) /\ Len(line) \in (k + 1 - 1)..Len(line) /\ k \in Nat
    BY <1>1
  <1>5. /\ IsSeq(l) /\ Len(l) = Len(line) - (k + 1) + 1
        /\ \A i \in 1..(Len(line) - (k + 1) + 1) : l[i] = line[(k + 1) + i - 1]
    BY <1>2, <1>4, SubAny
  <1>6. Len(l) = Len(line) - k /\ \A i \in 1..(Len(line) - k) : l[i] = line[k + i]
    BY <1>1, <1>4, <1>5
  <1>7. Elements(l) \subseteq Elements(line)
    <2>1. SUFFICES ASSUME NEW i \in DOMAIN l PROVE \E j \in DOMAIN line : l[i] = line[j]
      BY DEF Elements
    <2>2. i \in 1..(Len(line) - k) /\ DOMAIN line = 1..Len(line)
      BY <1>1, <1>5, <1>6 DEF IsSeq
    <2>3. k + i \in 1..Len(line)
      BY <1>1, <1>4, <2>2
    <2> QED  BY <1>6, <2>2, <2>3
  <1> QED  BY <1>1, <1>4, <1>5, <1>6, <1>7

LEMMA NoElements ==
    ASSUME NEW s, IsSeq(s), Len(s) = 0
    PROVE  s = <<>>
  BY DEF IsSeq

LEMMA AnswerElements ==
    ASSUME NEW line, IsSeq(line), NEW f
    PROVE  /\ IsSeq(line \o <<f>>) /\ Len(line \o <<f>>) = Len(line) + 1 /\ Len(line) \in Nat
           /\ Elements(line \o <<f>>) \subseteq Elements(line) \cup {f}
  <1>1. IsSeq(<<f>>) /\ Len(<<f>>) = 1 /\ <<f>>[1] = f
    BY SmallSeqs
  <1>2. /\ IsSeq(line \o <<f>>) /\ Len(line) \in Nat /\ Len(line \o <<f>>) = Len(line) + Len(<<f>>)
        /\ \A i \in 1..Len(line) : (line \o <<f>>)[i] = line[i]
        /\ \A i \in 1..Len(<<f>>) : (line \o <<f>>)[Len(line) + i] = <<f>>[i]
    BY <1>1, ConcatAny
  <1>3. PICK l, n : l = line \o <<f>> /\ n = Len(line)
    OBVIOUS
  <1>4. n \in Nat /\ Len(l) = n + 1 /\ \A i \in 1..n : l[i] = line[i]
    BY <1>1, <1>2, <1>3
  <1>5. l[n + 1] = f
    BY <1>1, <1>2, <1>3
  <1>6. DOMAIN l = 1..(n + 1) /\ DOMAIN line = 1..n
    BY <1>2, <1>3, <1>4 DEF IsSeq
  <1>7. \A i \in 1..(n + 1) : i \in 1..n \/ i = n + 1
    BY <1>4
  <1>8. Elements(l) \subseteq Elements(line) \cup {f}
    BY <1>4, <1>5, <1>6, <1>7 DEF Elements
  <1> QED  BY <1>2, <1>3, <1>4, <1>8

LEMMA ExchangeAny ==
    ASSUME NEW line, IsSeq(line), NEW f, NEW o \in Line!Exchange(line, <<f>>)
    PROVE  /\ IsSeq(o.line) /\ Len(o.line) \in Nat /\ Len(o.line) <= MaxLate
           /\ Elements(o.line) \subseteq Elements(line) \cup {f}
           /\ o.got \in Elements(line) \cup {f, Line!NoFrame, Line!BadFrame}
           /\ o.got # Line!NoFrame /\ line = <<>> => o.line = <<>>
  <1>1. PICK l : /\ l = line \/ l = line \o <<f>>
                 /\ Len(l) <= MaxLate /\ o \in Line!Reads(l)
    BY DEF Line!Exchange
  <1>2. /\ IsSeq(l) /\ Len(l) \in Nat /\ Len(line) \in Nat /\ Len(l) <= Len(line) + 1
        /\ Elements(l) \subseteq Elements(line) \cup {f}
    <2>1. Len(line) \in Nat
      BY DEF IsSeq
    <2>2. CASE l = line
      BY <2>1, <2>2
    <2>3. CASE l = line \o <<f>>
      <3>1. /\ IsSeq(line \o <<f>>) /\ Len(line \o <<f>>) = Len(line) + 1
            /\ Elements(line \o <<f>>) \subseteq Elements(line) \cup {f}
        BY AnswerElements
      <3>2. Len(l) = Len(line) + 1 /\ IsSeq(l) /\ Elements(l) \subseteq Elements(line) \cup {f}
        BY ONLY <2>3, <3>1
      <3> QED  BY ONLY <2>1, <3>2
    <2> QED  BY <1>1, <2>2, <2>3
  <1>3. /\ IsSeq(o.line) /\ Len(o.line) \in Nat /\ Len(o.line) <= Len(l)
        /\ Elements(o.line) \subseteq Elements(l)
        /\ o.got \in Elements(l) \cup {Line!NoFrame, Line!BadFrame}
        /\ o.got # Line!NoFrame => Len(o.line) < Len(l)
    BY <1>1, <1>2, ReadsAny
  <1>4. o.got # Line!NoFrame /\ line = <<>> => o.line = <<>>
    <2> SUFFICES ASSUME o.got # Line!NoFrame, line = <<>> PROVE o.line = <<>>
      OBVIOUS
    <2>1. Len(line) = 0
      OBVIOUS
    <2>2. Len(o.line) = 0
      BY ONLY <1>2, <1>3, <2>1, o.got # Line!NoFrame
    <2> QED  BY <1>3, <2>2, NoElements
  <1>5. Len(o.line) <= MaxLate
    <2>1. MaxLate \in Nat
      BY DevicesAssumption
    <2> QED  BY ONLY <1>1, <1>2, <1>3, <2>1
  <1> QED  BY <1>2, <1>3, <1>4, <1>5

LEMMA LostAny ==
    ASSUME NEW line, IsSeq(line), NEW o \in Line!Exchange(line, <<>>)
    PROVE  /\ IsSeq(o.line) /\ Len(o.line) \in Nat /\ Len(o.line) <= MaxLate
           /\ Elements(o.line) \subseteq Elements(line)
           /\ o.got \in Elements(line) \cup {Line!NoFrame, Line!BadFrame}
           /\ o.got # Line!NoFrame /\ line = <<>> => o.line = <<>>
  <1>1. PICK l : /\ l = line \/ l = line \o <<>>
                 /\ Len(l) <= MaxLate /\ o \in Line!Reads(l)
    BY DEF Line!Exchange
  <1>2. IsSeq(l) /\ Len(l) \in Nat /\ l = line
    BY <1>1 DEF IsSeq
  <1>3. /\ IsSeq(o.line) /\ Len(o.line) \in Nat /\ Len(o.line) <= Len(l)
        /\ Elements(o.line) \subseteq Elements(l)
        /\ o.got \in Elements(l) \cup {Line!NoFrame, Line!BadFrame}
        /\ o.got # Line!NoFrame => Len(o.line) < Len(l)
    BY <1>1, <1>2, ReadsAny
  <1>4. o.got # Line!NoFrame /\ line = <<>> => o.line = <<>>
    <2> SUFFICES ASSUME o.got # Line!NoFrame, line = <<>> PROVE o.line = <<>>
      OBVIOUS
    <2>1. Len(l) = 0
      BY <1>2
    <2>2. Len(o.line) = 0
      BY ONLY <1>2, <1>3, <2>1, o.got # Line!NoFrame
    <2> QED  BY <1>3, <2>2, NoElements
  <1>5. Len(o.line) <= MaxLate
    <2>1. MaxLate \in Nat
      BY DevicesAssumption
    <2> QED  BY ONLY <1>1, <1>2, <1>3, <2>1
  <1> QED  BY <1>2, <1>3, <1>4, <1>5

-----------------------------------------------------------------------------
(***************************************************************************)
(* The thermal camera.  A transaction that does not succeed ends the       *)
(* command, so nothing late is on the line while a capture goes on, and    *)
(* the camera's record is that of the capture the host asked for.          *)
(***************************************************************************)
ThermalSteps == {"idle", "begin", "start", "poll", "pixels", "save"}

ThermalTypes ==
    /\ DOMAIN ctl = {"cmd", "step", "arg", "image"}
    /\ DOMAIN dev = {"ctrl", "run", "image", "file"}
    /\ DOMAIN said = {"id", "status", "code", "cmd", "image", "format"}
    /\ ctl.step \in ThermalSteps /\ ctl.arg \in Thermal!Params
    /\ dev.ctrl \in {Thermal!Start, Thermal!Success, Thermal!Failure}
    /\ IsSeq(wire) /\ Len(wire) <= MaxLate
    /\ ctl.step # "idle" => said.cmd = ctl.cmd /\ said.status = "none"

ThermalTruth ==
    /\ ctl.step \in {"start", "poll", "pixels"} => wire = <<>>
    /\ ctl.step \in {"poll", "pixels", "save"} =>
          dev.run = said.id /\ (dev.ctrl = Thermal!Success => dev.image = said.id)
    /\ ctl.step \in {"pixels", "save"} => dev.ctrl = Thermal!Success
    /\ ctl.step = "save" => ctl.image = said.id
    /\ Thermal!AnswersAreTrue

ThermalInv == ThermalTypes /\ (~LateAcross => ThermalTruth)

LEMMA ThermalInvHolds ==
    ASSUME ThermalInv PROVE Thermal!TypeOK /\ (~LateAcross => Thermal!AnswersAreTrue)
  BY DEF ThermalInv, ThermalTypes, ThermalTruth, ThermalSteps, Thermal!TypeOK

LEMMA ThermalParams == Thermal!NoParams \in Thermal!Params
  <1>1. PICK a \in {0, 1, 257} : a = 1
    OBVIOUS
  <1>2. Thermal!NoParams = [addr |-> a, format |-> "", output |-> ""]
    BY <1>1 DEF Thermal!NoParams
  <1> QED  BY <1>2 DEF Thermal!Params

LEMMA ThermalLine ==
    /\ Thermal!Quiet = <<>>
    /\ Thermal!NoFrame = Line!NoFrame /\ Thermal!BadFrame = Line!BadFrame
    /\ \A l, s : Thermal!Exchange(l, s) = Line!Exchange(l, s)
    /\ \A l : Thermal!Drained(l) = Line!Drained(l)
  BY DEF Thermal!Quiet, Thermal!NoFrame, Line!NoFrame, Thermal!BadFrame, Line!BadFrame,
         Thermal!Exchange, Line!Exchange, Thermal!Reads, Line!Reads, Thermal!Drained, Line!Drained

LEMMA ThermalStarts == ASSUME Thermal!Init PROVE ThermalInv
  <1>1. /\ DOMAIN ctl = {"cmd", "step", "arg", "image"} /\ ctl.step = "idle"
        /\ ctl.arg \in Thermal!Params
    BY ThermalParams DEF Thermal!Init, Thermal!Idle
  <1>2. DOMAIN dev = {"ctrl", "run", "image", "file"} /\ dev.ctrl = Thermal!Success
    BY DEF Thermal!Init
  <1>3. DOMAIN said = {"id", "status", "code", "cmd", "image", "format"} /\ said.status = "none"
    BY DEF Thermal!Init
  <1>4. IsSeq(wire) /\ Len(wire) <= MaxLate
    <2>1. wire = <<>> /\ MaxLate \in Nat
      BY ThermalLine, DevicesAssumption DEF Thermal!Init
    <2> QED  BY <2>1, SmallSeqs
  <1> QED  BY <1>1, <1>2, <1>3, <1>4 DEF ThermalInv, ThermalTypes, ThermalTruth, ThermalSteps, Thermal!AnswersAreTrue

Silences == {Line!NoFrame, Line!BadFrame, [frame |-> "exception"]}

LEMMA NoPayload == \A g \in Silences : "p" \notin DOMAIN g
  BY DEF Silences, Line!NoFrame, Line!BadFrame

LEMMA ThermalTransact ==
    ASSUME IsSeq(wire), NEW q, NEW r \in Thermal!transact(q)
    PROVE  /\ DOMAIN r = {"d", "line", "got", "ok"} /\ r.ok \in BOOLEAN
           /\ IsSeq(r.line) /\ Len(r.line) <= MaxLate
           /\ r.d \in {dev, Thermal!Served(dev, q)}
           /\ wire = <<>> /\ r.ok => /\ r.line = <<>> /\ r.got.p = Thermal!Payload(dev, q)
                                     /\ r.d = Thermal!Served(dev, q)
  <1> DEFINE reply == [frame |-> "reply", fc |-> q.fc, n |-> q.n, p |-> Thermal!Payload(dev, q)]
             exception == [frame |-> "exception"]
  <1>1. PICK l, x, o :
           /\ l \in Thermal!Drained(wire) /\ o \in Thermal!Exchange(l, x.r)
           /\ x \in {[d |-> dev, r |-> <<>>], [d |-> dev, r |-> <<exception>>],
                     [d |-> Thermal!Served(dev, q), r |-> <<reply>>]}
           /\ r = [d |-> x.d, line |-> o.line, got |-> o.got, ok |-> Thermal!Parsed(q, o.got)]
    BY DEF Thermal!transact
  <1>2. r.line = o.line /\ r.got = o.got /\ r.d = x.d /\ r.ok = Thermal!Parsed(q, o.got)
        /\ DOMAIN r = {"d", "line", "got", "ok"}
    BY <1>1
  <1>8. r.ok \in BOOLEAN
    BY <1>2 DEF Thermal!Parsed
  <1>3. /\ IsSeq(l) /\ (wire = <<>> => l = <<>>)
    <2>1. IsSeq(l) /\ Len(l) \in Nat /\ Len(l) <= Len(wire)
      BY <1>1, ThermalLine, DrainedAny
    <2>2. wire = <<>> => Len(l) = 0
      BY <2>1
    <2> QED  BY <2>1, <2>2, NoElements
  <1>4. Elements(<<>>) = {}
    BY DEF Elements
  <1>5. CASE x = [d |-> dev, r |-> <<>>]
    <2>1. x.d = dev /\ o \in Line!Exchange(l, <<>>)
      BY <1>1, <1>5, ThermalLine
    <2>2. IsSeq(o.line) /\ Len(o.line) <= MaxLate
          /\ o.got \in Elements(l) \cup {Line!NoFrame, Line!BadFrame}
      BY <2>1, <1>3, LostAny
    <2>3. wire = <<>> => ~r.ok
      BY <1>2, <1>3, <1>4, <2>2, NoPayload DEF Silences, Thermal!Parsed
    <2> QED  BY <1>2, <1>8, <2>1, <2>2, <2>3
  <1>6. CASE x = [d |-> dev, r |-> <<exception>>]
    <2>1. x.d = dev /\ o \in Line!Exchange(l, <<exception>>)
      BY <1>1, <1>6, ThermalLine
    <2>2. IsSeq(o.line) /\ Len(o.line) <= MaxLate
          /\ o.got \in Elements(l) \cup {exception, Line!NoFrame, Line!BadFrame}
      BY <2>1, <1>3, ExchangeAny
    <2>3. wire = <<>> => ~r.ok
      BY <1>2, <1>3, <1>4, <2>2, NoPayload DEF Silences, Thermal!Parsed
    <2> QED  BY <1>2, <1>8, <2>1, <2>2, <2>3
  <1>7. CASE x = [d |-> Thermal!Served(dev, q), r |-> <<reply>>]
    <2>1. x.d = Thermal!Served(dev, q) /\ o \in Line!Exchange(l, <<reply>>)
      BY <1>1, <1>7, ThermalLine
    <2> HIDE DEF reply
    <2>2. IsSeq(o.line) /\ Len(o.line) <= MaxLate
          /\ o.got \in Elements(l) \cup {reply, Line!NoFrame, Line!BadFrame}
          /\ (o.got # Line!NoFrame /\ l = <<>> => o.line = <<>>)
      BY <2>1, <1>3, ExchangeAny
    <2>3. wire = <<>> /\ r.ok => o.got = reply /\ o.got # Line!NoFrame
      BY <1>2, <1>3, <1>4, <2>2, NoPayload DEF Silences, Thermal!Parsed
    <2>4. reply.p = Thermal!Payload(dev, q)
      BY DEF reply
    <2> QED  BY <1>2, <1>3, <1>8, <2>1, <2>2, <2>3, <2>4
  <1> QED  BY <1>1, <1>2, <1>5, <1>6, <1>7, <1>8

\* An answer ends the command; what it says has to be true of the device then.
LEMMA ThermalAnswered ==
    ASSUME ThermalInv, NEW s, NEW c, NEW i, NEW f, Thermal!Answer(s, c, i, f),
           DOMAIN dev' = DOMAIN dev, dev'.ctrl \in {Thermal!Start, Thermal!Success, Thermal!Failure},
           IsSeq(wire'), Len(wire') <= MaxLate, ctl.step # "idle",
           s = "done" /\ ctl.cmd = "capture" /\ ~LateAcross =>
              /\ i = said.id
              /\ f # "" => dev'.file # "none"
              /\ f = "png" => dev'.file = "whole"
    PROVE  ThermalInv'
  <1>1. /\ DOMAIN ctl' = {"cmd", "step", "arg", "image"} /\ ctl'.step = "idle"
        /\ ctl'.arg \in Thermal!Params
    BY ThermalParams DEF Thermal!Answer, Thermal!Idle
  <1>2. /\ DOMAIN said' = DOMAIN said /\ said'.status = s /\ said'.image = i /\ said'.format = f
        /\ said'.id = said.id /\ said'.cmd = said.cmd
    BY DEF Thermal!Answer, ThermalInv, ThermalTypes
  <1>3. ~LateAcross => Thermal!AnswersAreTrue'
    BY <1>2 DEF Thermal!AnswersAreTrue, ThermalInv, ThermalTypes
  <1> QED  BY <1>1, <1>2, <1>3 DEF ThermalInv, ThermalTypes, ThermalTruth, ThermalSteps

\* What an exchange of the capture leaves when the capture goes on.
LEMMA ThermalExchange ==
    ASSUME ThermalInv, NEW q, NEW r \in Thermal!transact(q), dev' = r.d, wire' = r.line,
           ctl.step \in {"start", "poll", "pixels"}, q.fc = 3 \/ (q.fc = 6 /\ q.p = <<"control", Thermal!Start>>)
    PROVE  /\ IsSeq(wire') /\ Len(wire') <= MaxLate
           /\ dev' \in {dev, [dev EXCEPT !.ctrl = Thermal!Start, !.run = said.id]}
           /\ DOMAIN dev' = DOMAIN dev
           /\ dev'.ctrl \in {Thermal!Start, Thermal!Success, Thermal!Failure}
           /\ q.fc = 3 => dev' = dev
           /\ ~LateAcross /\ r.ok => wire' = <<>> /\ r.got.p = Thermal!Payload(dev, q) /\ dev' = Thermal!Served(dev, q)
  <1>1. (~LateAcross => wire = <<>>) /\ IsSeq(wire)
    BY DEF ThermalInv, ThermalTypes, ThermalTruth
  <1>2. q.p[2] = Thermal!Start \/ q.fc # 6
    OBVIOUS
  <1>3. Thermal!Served(dev, q) \in {dev, [dev EXCEPT !.ctrl = Thermal!Start, !.run = said.id]}
        /\ (q.fc = 3 => Thermal!Served(dev, q) = dev)
    <2>1. CASE q.fc = 6
      <3>1. Thermal!Served(dev, q) = [dev EXCEPT !.ctrl = q.p[2], !.run = said.id]
        BY <2>1 DEF Thermal!Served
      <3>2. q.p[2] = Thermal!Start
        BY <1>2, <2>1
      <3> QED  BY ONLY <2>1, <3>1, <3>2
    <2>2. CASE q.fc = 3
      BY <2>2 DEF Thermal!Served
    <2> QED  BY <2>1, <2>2
  <1>4. \A e \in {dev, [dev EXCEPT !.ctrl = Thermal!Start, !.run = said.id]} :
           DOMAIN e = DOMAIN dev /\ e.ctrl \in {Thermal!Start, Thermal!Success, Thermal!Failure}
    BY DEF ThermalInv, ThermalTypes
  <1>5. /\ IsSeq(r.line) /\ Len(r.line) <= MaxLate
        /\ r.d \in {dev, Thermal!Served(dev, q)}
        /\ ~LateAcross /\ r.ok => /\ r.line = <<>> /\ r.got.p = Thermal!Payload(dev, q)
                                  /\ r.d = Thermal!Served(dev, q)
    BY <1>1, ThermalTransact
  <1>6. dev' \in {dev, [dev EXCEPT !.ctrl = Thermal!Start, !.run = said.id]}
    BY <1>3, <1>5
  <1> QED  BY <1>3, <1>4, <1>5, <1>6

LEMMA ThermalFailed ==
    ASSUME ThermalInv, NEW c, Thermal!Failed(c), DOMAIN dev' = DOMAIN dev,
           dev'.ctrl \in {Thermal!Start, Thermal!Success, Thermal!Failure},
           IsSeq(wire'), Len(wire') <= MaxLate, ctl.step # "idle"
    PROVE  ThermalInv'
  BY ThermalAnswered DEF Thermal!Failed

LEMMA ThermalGoes ==
    ASSUME ThermalInv, NEW s \in ThermalSteps, Thermal!Goto(s)
    PROVE  /\ DOMAIN ctl' = DOMAIN ctl /\ ctl'.step = s /\ ctl'.arg = ctl.arg /\ ctl'.cmd = ctl.cmd
           /\ ctl'.image = ctl.image /\ said' = said
  BY DEF ThermalInv, ThermalTypes, Thermal!Goto

LEMMA ThermalStep == ASSUME ThermalInv, Thermal!Next PROVE ThermalInv'
  <1> DEFINE typed(d) == /\ DOMAIN d = DOMAIN dev
                         /\ d.ctrl \in {Thermal!Start, Thermal!Success, Thermal!Failure}
  <1>1. /\ IsSeq(wire) /\ Len(wire) <= MaxLate /\ typed(dev)
        /\ DOMAIN ctl = {"cmd", "step", "arg", "image"}
        /\ DOMAIN dev = {"ctrl", "run", "image", "file"}
        /\ DOMAIN said = {"id", "status", "code", "cmd", "image", "format"}
    BY DEF ThermalInv, ThermalTypes
  <1>2. ASSUME NEW c, NEW p \in Thermal!Params, Thermal!Handle(c, p)
        PROVE  ThermalInv'
    <2>1. /\ DOMAIN ctl' = {"cmd", "step", "arg", "image"} /\ ctl'.step = "begin"
          /\ ctl'.arg = p /\ ctl'.cmd = c
      BY <1>2 DEF Thermal!Handle, Thermal!Idle
    <2>2. /\ DOMAIN said' = {"id", "status", "code", "cmd", "image", "format"}
          /\ said'.status = "none" /\ said'.cmd = c
      BY <1>2 DEF Thermal!Handle
    <2>3. DOMAIN dev' = DOMAIN dev /\ dev'.ctrl = dev.ctrl /\ wire' = wire
      BY <1>1, <1>2 DEF Thermal!Handle
    <2> QED  BY <1>1, <2>1, <2>2, <2>3 DEF ThermalInv, ThermalTypes, ThermalTruth, ThermalSteps, Thermal!AnswersAreTrue
  <1>3. ASSUME Thermal!Begin PROVE ThermalInv'
    <2>1. dev' = dev /\ ctl.step = "begin"
      BY <1>3 DEF Thermal!Begin
    <2>2. \A c : wire' = wire /\ Thermal!Failed(c) => ThermalInv'
      BY <1>1, <2>1, ThermalFailed
    <2>3. CASE ctl.cmd = "status" /\ Thermal!Answer("done", 0, -1, "") /\ UNCHANGED wire
      BY <1>1, <2>1, <2>3, ThermalAnswered
    <2>4. CASE wire' = Thermal!OnOpen(wire)
               /\ \/ Thermal!Goto("start")
                  \/ Thermal!Failed(3)
      <3>1. (wire' = wire \/ wire' = <<>>) /\ (~LateAcross => wire' = <<>>)
        BY <2>4, ThermalLine DEF Thermal!OnOpen
      <3>2. IsSeq(wire') /\ Len(wire') <= MaxLate
        BY <1>1, <3>1, SmallSeqs, DevicesAssumption
      <3>3. CASE Thermal!Failed(3)
        BY <1>1, <2>1, <3>2, <3>3, ThermalFailed
      <3>4. CASE Thermal!Goto("start")
        <4>1. /\ DOMAIN ctl' = DOMAIN ctl /\ ctl'.step = "start" /\ ctl'.arg = ctl.arg
              /\ ctl'.cmd = ctl.cmd /\ said' = said
          BY <3>4, ThermalGoes DEF ThermalSteps
        <4>2. ThermalTypes'
          BY <1>1, <2>1, <3>2, <4>1 DEF ThermalInv, ThermalTypes, ThermalSteps
        <4>3. said'.status = "none"
          BY <2>1, <4>1 DEF ThermalInv, ThermalTypes
        <4>4. ~LateAcross => ThermalTruth'
          BY <3>1, <4>1, <4>3 DEF ThermalTruth, Thermal!AnswersAreTrue
        <4> QED  BY <4>2, <4>4 DEF ThermalInv
      <3> QED  BY <2>4, <3>3, <3>4
    <2> QED  BY <1>3, <2>2, <2>3, <2>4 DEF Thermal!Begin
  <1>4. ASSUME Thermal!StartCapture PROVE ThermalInv'
    <2> DEFINE q == [fc |-> 6, n |-> 1, p |-> <<"control", Thermal!Start>>]
    <2>0. ctl.step = "start" /\ q.fc = 6 /\ q.p = <<"control", Thermal!Start>>
      BY <1>4 DEF Thermal!StartCapture
    <2>1. PICK r \in Thermal!transact(q) :
             /\ dev' = r.d /\ wire' = r.line
             /\ (r.ok /\ Thermal!Goto("poll")) \/ Thermal!Failed(2)
      <3>1. PICK x \in Thermal!writeSingleRegister(<<"control", Thermal!Start>>) :
               /\ dev' = x.d /\ wire' = x.line
               /\ IF x.ok THEN Thermal!Goto("poll") ELSE Thermal!Failed(2)
        BY <1>4 DEF Thermal!StartCapture, Thermal!After
      <3>2. PICK r \in Thermal!transact(q) :
               x = [r EXCEPT !.ok = @ /\ r.got.p = <<"control", Thermal!Start>>]
        BY DEF Thermal!writeSingleRegister
      <3>3. DOMAIN r = {"d", "line", "got", "ok"} /\ r.ok \in BOOLEAN
        BY <1>1, ThermalTransact
      <3>4. x.d = r.d /\ x.line = r.line /\ (x.ok => r.ok)
        BY <3>2, <3>3
      <3> QED  BY <3>1, <3>4
    <2> HIDE DEF q
    <2>2. /\ IsSeq(wire') /\ Len(wire') <= MaxLate /\ typed(dev')
          /\ ~LateAcross /\ r.ok => wire' = <<>> /\ dev' = Thermal!Served(dev, q)
      BY <2>0, <2>1, ThermalExchange
    <2>3. CASE Thermal!Failed(2)
      BY <2>0, <2>2, <2>3, ThermalFailed
    <2>4. CASE r.ok /\ Thermal!Goto("poll")
      <3>1. /\ DOMAIN ctl' = DOMAIN ctl /\ ctl'.step = "poll" /\ ctl'.arg = ctl.arg
            /\ ctl'.cmd = ctl.cmd /\ said' = said
        BY <2>4, ThermalGoes DEF ThermalSteps
      <3>2. ~LateAcross => dev'.ctrl = Thermal!Start /\ dev'.run = said.id
        <4>1. q.p[2] = Thermal!Start
          BY <2>0
        <4>2. ~LateAcross => dev' = [dev EXCEPT !.ctrl = q.p[2], !.run = said.id]
          BY <2>0, <2>2, <2>4 DEF Thermal!Served
        <4> QED  BY <1>1, <4>1, <4>2
      <3>3. ~LateAcross => dev'.ctrl # Thermal!Success
        BY <3>2 DEF Thermal!Start, Thermal!Success
      <3> QED  BY <1>1, <2>0, <2>2, <2>4, <3>1, <3>2, <3>3 DEF ThermalInv, ThermalTypes, ThermalTruth, ThermalSteps, Thermal!AnswersAreTrue
    <2> QED  BY <2>1, <2>3, <2>4
  <1>5. ASSUME Thermal!PollCapture PROVE ThermalInv'
    <2> DEFINE q == [fc |-> 3, n |-> 1, p |-> <<"control">>]
    <2>0. ctl.step = "poll" /\ q.fc = 3 /\ q.p[1] = "control"
      BY <1>5 DEF Thermal!PollCapture
    <2>1. PICK r \in Thermal!transact(q) :
             /\ dev' = r.d /\ wire' = r.line
             /\ \/ r.ok /\ Thermal!State(r.got.p[1]) = "done" /\ Thermal!Goto("pixels")
                \/ Thermal!Failed(2)
                \/ r.ok /\ UNCHANGED <<ctl, said>>
      BY <1>5 DEF Thermal!PollCapture, Thermal!After, Thermal!readRegisters
    <2> HIDE DEF q
    <2>2. /\ IsSeq(wire') /\ Len(wire') <= MaxLate /\ dev' = dev
          /\ ~LateAcross /\ r.ok => wire' = <<>> /\ r.got.p = Thermal!Payload(dev, q)
      BY <2>0, <2>1, ThermalExchange
    <2>3. CASE Thermal!Failed(2)
      BY <1>1, <2>0, <2>2, <2>3, ThermalFailed
    <2>4. CASE r.ok /\ Thermal!State(r.got.p[1]) = "done" /\ Thermal!Goto("pixels")
      <3>1. /\ DOMAIN ctl' = DOMAIN ctl /\ ctl'.step = "pixels" /\ ctl'.arg = ctl.arg
            /\ ctl'.cmd = ctl.cmd /\ said' = said
        BY <2>4, ThermalGoes DEF ThermalSteps
      <3>2. ~LateAcross => r.got.p = <<dev.ctrl>>
        BY <2>0, <2>2, <2>4 DEF Thermal!Payload
      <3>3. ~LateAcross => dev.ctrl = Thermal!Success
        BY <1>1, <2>4, <3>2 DEF Thermal!State
      <3> QED  BY <1>1, <2>0, <2>2, <2>4, <3>1, <3>3 DEF ThermalInv, ThermalTypes, ThermalTruth, ThermalSteps, Thermal!AnswersAreTrue
    <2>5. CASE r.ok /\ UNCHANGED <<ctl, said>>
      BY <2>0, <2>2, <2>5 DEF ThermalInv, ThermalTypes, ThermalTruth, ThermalSteps, Thermal!AnswersAreTrue
    <2> QED  BY <2>1, <2>3, <2>4, <2>5
  <1>6. ASSUME Thermal!CaptureTimeout PROVE ThermalInv'
    BY <1>1, <1>6, ThermalFailed DEF Thermal!CaptureTimeout
  <1>7. ASSUME Thermal!ReadPixels PROVE ThermalInv'
    <2> DEFINE q == [fc |-> 3, n |-> 768, p |-> <<"pixels">>]
    <2>0. ctl.step = "pixels" /\ q.fc = 3 /\ q.p[1] = "pixels"
      BY <1>7 DEF Thermal!ReadPixels
    <2>1. PICK r \in Thermal!transact(q) :
             /\ dev' = r.d /\ wire' = r.line
             /\ \/ r.ok /\ ctl' = [ctl EXCEPT !.step = "save", !.image = r.got.p[1]] /\ UNCHANGED said
                \/ Thermal!Failed(2)
      BY <1>7 DEF Thermal!ReadPixels, Thermal!After, Thermal!readRegisters
    <2> HIDE DEF q
    <2>2. /\ IsSeq(wire') /\ Len(wire') <= MaxLate /\ dev' = dev
          /\ ~LateAcross /\ r.ok => r.got.p = Thermal!Payload(dev, q)
      BY <2>0, <2>1, ThermalExchange
    <2>3. CASE Thermal!Failed(2)
      BY <1>1, <2>0, <2>2, <2>3, ThermalFailed
    <2>4. CASE r.ok /\ ctl' = [ctl EXCEPT !.step = "save", !.image = r.got.p[1]] /\ UNCHANGED said
      <3>1. ~LateAcross => r.got.p = <<dev.image>>
        BY <2>0, <2>2, <2>4 DEF Thermal!Payload
      <3>2. ~LateAcross => r.got.p[1] = said.id
        BY <2>0, <3>1 DEF ThermalInv, ThermalTruth
      <3>3. /\ DOMAIN ctl' = DOMAIN ctl /\ ctl'.step = "save" /\ ctl'.arg = ctl.arg
            /\ ctl'.cmd = ctl.cmd /\ (~LateAcross => ctl'.image = said.id) /\ said' = said
        BY <1>1, <2>4, <3>2
      <3> QED  BY <1>1, <2>0, <2>2, <3>3 DEF ThermalInv, ThermalTypes, ThermalTruth, ThermalSteps, Thermal!AnswersAreTrue
    <2> QED  BY <2>1, <2>3, <2>4
  <1>8. ASSUME NEW o \in {"none", "partial", "whole"}, Thermal!saveCaptureOutput(o) PROVE ThermalInv'
    <2>1. /\ ctl.step = "save" /\ wire' = wire /\ dev' = [dev EXCEPT !.file = o]
          /\ ~LateAcross => ctl.image = said.id
      BY <1>8 DEF Thermal!saveCaptureOutput, ThermalInv, ThermalTruth
    <2>2. typed(dev') /\ dev'.file = o
      BY <1>1, <2>1
    <2>3. CASE ctl.arg.output = ""
      <3>1. Thermal!Answer("done", 0, ctl.image, "")
        BY <1>8, <2>3 DEF Thermal!saveCaptureOutput
      <3> QED  BY <1>1, <2>1, <2>2, <3>1, ThermalAnswered
    <2>4. CASE ctl.arg.output # ""
      <3> DEFINE format == Thermal!resolveOutputFormat(ctl.arg)
      <3>1. /\ o = "partial" => format # "png"
            /\ \/ Thermal!Failed(1)
               \/ o # "none" /\ Thermal!Answer("done", 0, ctl.image, format)
        BY <1>8, <2>4 DEF Thermal!saveCaptureOutput
      <3> HIDE DEF format
      <3>2. CASE Thermal!Failed(1)
        BY <1>1, <2>1, <2>2, <3>2, ThermalFailed
      <3>3. CASE o # "none" /\ Thermal!Answer("done", 0, ctl.image, format)
        <4>1. format = "png" => o = "whole"
          BY <3>1, <3>3
        <4> QED  BY <1>1, <2>1, <2>2, <3>3, <4>1, ThermalAnswered
      <3> QED  BY <3>1, <3>2, <3>3
    <2> QED  BY <2>3, <2>4
  <1>9. ASSUME NEW ok \in BOOLEAN, Thermal!CaptureEnds(ok) PROVE ThermalInv'
    <2>1. /\ dev.ctrl = Thermal!Start /\ UNCHANGED <<ctl, wire, said>>
          /\ dev' = [dev EXCEPT !.ctrl = IF ok THEN Thermal!Success ELSE Thermal!Failure,
                                !.image = IF ok THEN dev.run ELSE @]
      BY <1>9 DEF Thermal!CaptureEnds
    <2>2. /\ typed(dev') /\ dev'.run = dev.run /\ dev'.file = dev.file
          /\ dev'.ctrl = (IF ok THEN Thermal!Success ELSE Thermal!Failure)
          /\ ok => dev'.image = dev.run
      BY <1>1, <2>1
    <2>3. dev.ctrl # Thermal!Success /\ Thermal!Failure # Thermal!Success
      BY <2>1 DEF Thermal!Start, Thermal!Success, Thermal!Failure
    <2> QED  BY <1>1, <2>1, <2>2, <2>3 DEF ThermalInv, ThermalTypes, ThermalTruth, ThermalSteps, Thermal!AnswersAreTrue
  <1> QED  BY <1>2, <1>3, <1>4, <1>5, <1>6, <1>7, <1>8, <1>9 DEF Thermal!Next

-----------------------------------------------------------------------------
LEMMA ModRange == ASSUME NEW x \in Nat, NEW n \in Nat, n > 0 PROVE x % n \in 0..(n - 1)
  OBVIOUS

(***************************************************************************)
(* The laser radar.  Its record of the last task is clear when a task is   *)
(* sent, so a record of a task of that name is of this command; and the    *)
(* frames under way are of this command, since it opened the connection.   *)
(***************************************************************************)
LaserSteps == {"idle", "begin", "open", "send", "poll", "segments"}
LaserTasks == DOMAIN Laser!TaskOf

LaserTypes ==
    /\ DOMAIN ctl = {"cmd", "arg", "step", "ctr", "exp", "res", "got"}
    /\ DOMAIN dev = {"reg", "task", "data", "at"} /\ DOMAIN dev.reg = Laser!Registers
    /\ DOMAIN dev.task = {"ctr", "cmd", "res", "id"}
    /\ DOMAIN said = {"id", "status", "code", "cmd", "val"}
    /\ ctl.step \in LaserSteps /\ ctl.ctr \in 0..(2^16 - 1)
    /\ IsSeq(ctl.got) /\ Len(ctl.got) <= Segments
    /\ IsSeq(wire) /\ Len(wire) <= MaxLate
    /\ ctl.step # "idle" => said.status = "none"
    /\ ctl.step \in {"send", "poll", "segments"} => ctl.cmd \in LaserTasks
    /\ ctl.step # "segments" => ctl.got = <<>>

\* The device's record is of the task of this command.
LaserTask(c, d, id) ==
    /\ d.task.id = id /\ d.task.cmd = Laser!TaskOf[c]
    /\ d.task.res \in Laser!Results \cup {"running"}
    /\ c = "move_x" => d.at = ctl.arg * 1000
    /\ c = "scan_field" /\ d.task.res # "running" => d.data = id

LaserSegment(i, id) == <<i - 1, Segments, id>>

\* A record the device has sent: where it shows the end of the task, it has ended so.
LaserRecord(p) ==
    p[2] = Laser!TaskOf[ctl.cmd] /\ p[3] # "running"
        => LaserTask(ctl.cmd, dev, said.id) /\ dev.task.res = p[3]

LaserTruth ==
    /\ ctl.step \in {"open", "send"} => wire = <<>>
    /\ ctl.step = "send" => dev.task = Laser!NoTask
    /\ ctl.step = "poll" =>
          /\ dev.task = Laser!NoTask \/ LaserTask(ctl.cmd, dev, said.id)
          /\ \A f \in Elements(wire) : "p" \in DOMAIN f => f.cmd = "Query" /\ LaserRecord(f.p)
    /\ ctl.step = "segments" =>
          /\ LaserTask(ctl.cmd, dev, said.id) /\ ctl.cmd = "scan_field"
          /\ dev.task.res \in {"success", "blank"}
          /\ \A i \in 1..Len(ctl.got) : ctl.got[i] = LaserSegment(i, said.id)
          /\ \A f \in Elements(wire) :
                "p" \in DOMAIN f /\ f.cmd = "GetData" => f.p = LaserSegment(f.p[1] + 1, said.id)
    /\ Laser!AnswersAreTrue

LaserInv == LaserTypes /\ (~LateAcross => LaserTruth)

LEMMA LaserInvHolds ==
    ASSUME LaserInv PROVE Laser!TypeOK /\ (~LateAcross => Laser!AnswersAreTrue)
  BY DEF LaserInv, LaserTypes, LaserTruth, LaserSteps, Laser!TypeOK

LEMMA LaserLine ==
    /\ Laser!Quiet = <<>>
    /\ Laser!NoFrame = Line!NoFrame /\ Laser!BadFrame = Line!BadFrame
    /\ \A l, s : Laser!Exchange(l, s) = Line!Exchange(l, s)
    /\ \A l : Laser!Drained(l) = Line!Drained(l) /\ Laser!Reads(l) = Line!Reads(l)
  BY DEF Laser!Quiet, Laser!NoFrame, Line!NoFrame, Laser!BadFrame, Line!BadFrame,
         Laser!Exchange, Line!Exchange, Laser!Reads, Line!Reads, Laser!Drained, Line!Drained

LEMMA LaserCommands ==
    /\ LaserTasks = {"calib_x", "calib_lidar", "move_x", "scan_field"}
    /\ DOMAIN Laser!RegOf = {"get_work_mode", "get_device_status", "get_device_code",
          "get_lidar_model_code", "get_distance_unit", "get_uptime_ms", "get_firmware_version",
          "get_data_block_size", "get_x_axis_ratio", "get_transfer_total_bytes"}
    /\ DOMAIN Laser!Immediate = {"set_imaging_mode", "reboot"}
    /\ \A c \in LaserTasks : Laser!TaskOf[c] \in {"CalibX", "CalibLidar", "MoveX", "ScanField"}
    /\ Laser!TaskOf["move_x"] = "MoveX" /\ Laser!TaskOf["scan_field"] = "ScanField"
    /\ \A c \in LaserTasks : /\ Laser!TaskOf[c] = "MoveX" => c = "move_x"
                             /\ Laser!TaskOf[c] = "ScanField" => c = "scan_field"
    /\ \A c \in DOMAIN Laser!RegOf : Laser!RegOf[c] \in Laser!Registers
    /\ Laser!RawRegister \in Laser!Registers
  <1>1. LaserTasks = {"calib_x", "calib_lidar", "move_x", "scan_field"}
    BY DEF LaserTasks, Laser!TaskOf
  <1>2. /\ Laser!TaskOf["calib_x"] = "CalibX" /\ Laser!TaskOf["calib_lidar"] = "CalibLidar"
        /\ Laser!TaskOf["move_x"] = "MoveX" /\ Laser!TaskOf["scan_field"] = "ScanField"
    BY DEF Laser!TaskOf
  <1>3. DOMAIN Laser!RegOf = {"get_work_mode", "get_device_status", "get_device_code",
          "get_lidar_model_code", "get_distance_unit", "get_uptime_ms", "get_firmware_version",
          "get_data_block_size", "get_x_axis_ratio", "get_transfer_total_bytes"}
    BY DEF Laser!RegOf
  <1>4. DOMAIN Laser!Immediate = {"set_imaging_mode", "reboot"}
    BY DEF Laser!Immediate
  <1>5. /\ \A c \in DOMAIN Laser!RegOf : Laser!RegOf[c] \in Laser!Registers
        /\ Laser!RawRegister \in Laser!Registers
    BY DEF Laser!Registers
  <1> QED  BY <1>1, <1>2, <1>3, <1>4, <1>5

LEMMA LaserStarts == ASSUME Laser!Init PROVE LaserInv
  <1>1. /\ DOMAIN ctl = {"cmd", "arg", "step", "ctr", "exp", "res", "got"} /\ ctl.step = "idle"
        /\ ctl.ctr = 0 /\ ctl.got = <<>>
    BY DEF Laser!Init, Laser!Idle
  <1>2. DOMAIN dev = {"reg", "task", "data", "at"} /\ DOMAIN dev.reg = Laser!Registers
        /\ DOMAIN dev.task = {"ctr", "cmd", "res", "id"}
    BY DEF Laser!Init, Laser!NoTask
  <1>3. DOMAIN said = {"id", "status", "code", "cmd", "val"} /\ said.status = "none"
    BY DEF Laser!Init
  <1>4. IsSeq(wire) /\ Len(wire) <= MaxLate /\ IsSeq(ctl.got) /\ Len(ctl.got) <= Segments
    <2>1. wire = <<>> /\ MaxLate \in Nat /\ Segments \in Nat
      BY LaserLine, DevicesAssumption DEF Laser!Init
    <2> QED  BY <1>1, <2>1, SmallSeqs
  <1>5. ctl.ctr \in 0..(2^16 - 1)
    BY <1>1
  <1> QED  BY <1>1, <1>2, <1>3, <1>4, <1>5 DEF LaserInv, LaserTypes, LaserTruth, LaserSteps, Laser!AnswersAreTrue

LaserAsk(cmd, p) == [ctr |-> ctl.ctr, cmd |-> cmd, p |-> p]
LaserReply(cmd, p) == [frame |-> "reply", cmd |-> cmd, p |-> Laser!Payload(dev, LaserAsk(cmd, p))]

LEMMA LaserSent ==
    ASSUME IsSeq(wire), NEW cmd, NEW p, NEW r \in Laser!sendAndReceive(cmd, p)
    PROVE  /\ IsSeq(r.line) /\ Len(r.line) <= MaxLate
           /\ Elements(r.line) \subseteq Elements(wire) \cup {LaserReply(cmd, p)}
           /\ r.d \in {dev, Laser!Served(dev, LaserAsk(cmd, p))}
           /\ r.ok => /\ r.got \in Elements(wire) \cup {LaserReply(cmd, p)}
                      /\ "p" \in DOMAIN r.got /\ r.got.cmd = cmd
           /\ r.ok /\ wire = <<>> => /\ r.line = <<>> /\ r.got.p = Laser!Payload(dev, LaserAsk(cmd, p))
                                     /\ r.d = Laser!Served(dev, LaserAsk(cmd, p))
  <1> DEFINE q == LaserAsk(cmd, p)
             f == LaserReply(cmd, p)
             Way(d, o) == [d |-> d, line |-> o.line, got |-> o.got,
                           ok |-> "p" \in DOMAIN o.got /\ o.got.cmd = cmd]
  <1>1. PICK l, o, d : /\ l \in Laser!Drained(wire) /\ r = Way(d, o)
                       /\ \/ d = Laser!Served(dev, q) /\ o \in Laser!Exchange(l, <<f>>)
                          \/ d = dev /\ o \in Laser!Exchange(l, <<>>)
    <2>1. CASE \E o \in UNION {Laser!Exchange(l, <<f>>) : l \in Laser!Drained(wire)} :
                  r = Way(Laser!Served(dev, q), o)
      BY <2>1
    <2>2. CASE \E o \in UNION {Laser!Exchange(l, <<>>) : l \in Laser!Drained(wire)} :
                  r = Way(dev, o)
      BY <2>2
    <2> QED  BY <2>1, <2>2 DEF Laser!sendAndReceive, LaserAsk, LaserReply
  <1>2. r.line = o.line /\ r.got = o.got /\ r.d = d /\ (r.ok <=> "p" \in DOMAIN o.got /\ o.got.cmd = cmd)
    BY <1>1
  <1>3. IsSeq(l) /\ (wire = <<>> => l = <<>>) /\ Elements(l) \subseteq Elements(wire)
    <2>1. IsSeq(l) /\ Len(l) \in Nat /\ Len(l) <= Len(wire) /\ Elements(l) \subseteq Elements(wire)
      BY <1>1, LaserLine, DrainedAny
    <2>2. wire = <<>> => Len(l) = 0
      BY <2>1
    <2> QED  BY <2>1, <2>2, NoElements
  <1>4. Elements(<<>>) = {} /\ f.p = Laser!Payload(dev, q)
    BY DEF Elements, LaserReply
  <1> HIDE DEF f, q, Way
  <1>5. CASE d = dev /\ o \in Laser!Exchange(l, <<>>)
    <2>1. o \in Line!Exchange(l, <<>>)
      BY <1>5, LaserLine
    <2>2. /\ IsSeq(o.line) /\ Len(o.line) <= MaxLate /\ Elements(o.line) \subseteq Elements(l)
          /\ o.got \in Elements(l) \cup {Line!NoFrame, Line!BadFrame}
      BY <2>1, <1>3, LostAny
    <2>3. r.ok => o.got \in Elements(l)
      BY <1>2, <2>2, NoPayload DEF Silences
    <2> QED  BY <1>2, <1>3, <1>4, <1>5, <2>2, <2>3 DEF f, q
  <1>6. CASE d = Laser!Served(dev, q) /\ o \in Laser!Exchange(l, <<f>>)
    <2>1. o \in Line!Exchange(l, <<f>>)
      BY <1>6, LaserLine
    <2>2. /\ IsSeq(o.line) /\ Len(o.line) <= MaxLate /\ Elements(o.line) \subseteq Elements(l) \cup {f}
          /\ o.got \in Elements(l) \cup {f, Line!NoFrame, Line!BadFrame}
          /\ (o.got # Line!NoFrame /\ l = <<>> => o.line = <<>>)
      BY <2>1, <1>3, ExchangeAny
    <2>3. r.ok => o.got \in Elements(l) \cup {f} /\ o.got # Line!NoFrame
      BY <1>2, <2>2, NoPayload DEF Silences
    <2> QED  BY <1>2, <1>3, <1>4, <1>6, <2>2, <2>3 DEF f, q
  <1> QED  BY <1>1, <1>5, <1>6

\* What a done says of the device, by command.
LaserClaim(c, v, d, id) ==
    CASE c \in DOMAIN Laser!RegOf -> v = <<Laser!RegOf[c], d.reg[Laser!RegOf[c]]>>
      [] c \in {"get_reg", "set_reg"} -> v = <<Laser!RawRegister, d.reg[Laser!RawRegister]>>
      [] c \in DOMAIN Laser!TaskOf ->
           /\ d.task.id = id /\ d.task.res \in {"success", "blank"}
           /\ c = "move_x" => d.at = v[1] * 1000
           /\ c = "scan_field" => v = [i \in 1..Segments |-> <<i - 1, Segments, id>>]
      [] OTHER -> TRUE

LEMMA LaserClaims ==
    Laser!AnswersAreTrue <=> (said.status = "done" => LaserClaim(said.cmd, said.val, dev, said.id))
  BY DEF Laser!AnswersAreTrue, LaserClaim

LEMMA LaserOthers ==
    ASSUME NEW c, c \notin DOMAIN Laser!RegOf, c \notin LaserTasks, c \notin {"get_reg", "set_reg"},
           NEW v, NEW d, NEW id
    PROVE  LaserClaim(c, v, d, id)
  BY DEF LaserClaim, LaserTasks

LaserDevice(d) ==
    /\ DOMAIN d = {"reg", "task", "data", "at"} /\ DOMAIN d.reg = Laser!Registers
    /\ DOMAIN d.task = {"ctr", "cmd", "res", "id"}

LEMMA LaserAnswered ==
    ASSUME LaserInv, NEW s, NEW c, NEW v, Laser!Answer(s, c, v), ctl.step # "idle",
           LaserDevice(dev'), IsSeq(wire'), Len(wire') <= MaxLate,
           s = "done" /\ ~LateAcross => LaserClaim(ctl.cmd, v, dev', said.id)
    PROVE  LaserInv'
  <1>1. /\ DOMAIN ctl' = {"cmd", "arg", "step", "ctr", "exp", "res", "got"} /\ ctl'.step = "idle"
        /\ ctl'.ctr = 0 /\ ctl'.got = <<>>
    BY DEF Laser!Answer, Laser!Idle
  <1>2. /\ DOMAIN said' = DOMAIN said /\ said'.status = s /\ said'.val = v /\ said'.cmd = ctl.cmd
        /\ said'.id = said.id
    BY DEF Laser!Answer, LaserInv, LaserTypes
  <1>3. IsSeq(ctl'.got) /\ Len(ctl'.got) <= Segments /\ ctl'.ctr \in 0..(2^16 - 1)
    BY <1>1, SmallSeqs, DevicesAssumption
  <1>4. ~LateAcross => Laser!AnswersAreTrue'
    <2>1. ~LateAcross => (said'.status = "done" => LaserClaim(said'.cmd, said'.val, dev', said'.id))
      BY <1>2
    <2>2. Laser!AnswersAreTrue' <=> (said'.status = "done" => LaserClaim(said'.cmd, said'.val, dev', said'.id))
      BY DEF Laser!AnswersAreTrue, LaserClaim
    <2> QED  BY <2>1, <2>2
  <1> QED  BY <1>1, <1>2, <1>3, <1>4 DEF LaserInv, LaserTypes, LaserTruth, LaserSteps, LaserDevice

LEMMA LaserFailed ==
    ASSUME LaserInv, NEW k, Laser!Failed(k), ctl.step # "idle",
           LaserDevice(dev'), IsSeq(wire'), Len(wire') <= MaxLate
    PROVE  LaserInv'
  BY LaserAnswered DEF Laser!Failed

\* What a request does to the device's types, and which it leaves alone.
LEMMA LaserServed ==
    ASSUME LaserInv, NEW q, q.cmd = "RegWrite" => q.p[1] \in Laser!Registers
    PROVE  /\ LaserDevice(dev) /\ LaserDevice(Laser!Served(dev, q))
           /\ q.cmd \in {"RegRead", "Test", "Cancel", "GetData", "SetImagingMode", "Reboot"}
                 \/ (q.cmd = "Query" /\ q.p[1] = 100) => Laser!Served(dev, q) = dev
  <1>1. LaserDevice(dev)
    BY DEF LaserInv, LaserTypes, LaserDevice
  <1>2. LaserDevice(Laser!Served(dev, q))
    BY <1>1 DEF LaserDevice, Laser!Served, Laser!NoTask
  <1>3. {Laser!TaskOf[c] : c \in DOMAIN Laser!TaskOf} \subseteq {"CalibX", "CalibLidar", "MoveX", "ScanField"}
    BY LaserCommands DEF LaserTasks
  <1>4. ASSUME q.cmd \in {"RegRead", "Test", "Cancel", "GetData", "SetImagingMode", "Reboot"}
                  \/ (q.cmd = "Query" /\ q.p[1] = 100)
        PROVE  Laser!Served(dev, q) = dev
    BY <1>3, <1>4 DEF Laser!Served
  <1> QED  BY <1>1, <1>2, <1>4

LEMMA LaserExchange ==
    ASSUME LaserInv, NEW cmd, NEW p, cmd = "RegWrite" => p[1] \in Laser!Registers,
           NEW r \in Laser!sendAndReceive(cmd, p), dev' = r.d, wire' = r.line
    PROVE  /\ IsSeq(wire') /\ Len(wire') <= MaxLate /\ LaserDevice(dev')
           /\ dev' \in {dev, Laser!Served(dev, LaserAsk(cmd, p))}
           /\ Elements(wire') \subseteq Elements(wire) \cup {LaserReply(cmd, p)}
           /\ r.ok => /\ r.got \in Elements(wire) \cup {LaserReply(cmd, p)}
                      /\ "p" \in DOMAIN r.got /\ r.got.cmd = cmd
           /\ r.ok /\ wire = <<>> => /\ wire' = <<>> /\ r.got.p = Laser!Payload(dev, LaserAsk(cmd, p))
                                     /\ dev' = Laser!Served(dev, LaserAsk(cmd, p))
  <1> DEFINE q == LaserAsk(cmd, p)
  <1>1. IsSeq(wire)
    BY DEF LaserInv, LaserTypes
  <1>2. q.cmd = "RegWrite" => q.p[1] \in Laser!Registers
    BY DEF LaserAsk
  <1> HIDE DEF q
  <1>3. LaserDevice(dev) /\ LaserDevice(Laser!Served(dev, q))
    BY <1>2, LaserServed
  <1>4. /\ IsSeq(r.line) /\ Len(r.line) <= MaxLate
        /\ Elements(r.line) \subseteq Elements(wire) \cup {LaserReply(cmd, p)}
        /\ r.d \in {dev, Laser!Served(dev, LaserAsk(cmd, p))}
        /\ r.ok => /\ r.got \in Elements(wire) \cup {LaserReply(cmd, p)}
                   /\ "p" \in DOMAIN r.got /\ r.got.cmd = cmd
        /\ r.ok /\ wire = <<>> => /\ r.line = <<>> /\ r.got.p = Laser!Payload(dev, LaserAsk(cmd, p))
                                  /\ r.d = Laser!Served(dev, LaserAsk(cmd, p))
    BY <1>1, LaserSent
  <1> QED  BY <1>3, <1>4 DEF q

\* A command of one exchange answers with what it got, or fails.
LEMMA LaserSingle ==
    ASSUME LaserInv, ctl.step = "open", NEW cmd, NEW p, cmd = "RegWrite" => p[1] \in Laser!Registers,
           NEW r \in Laser!sendAndReceive(cmd, p), dev' = r.d, wire' = r.line,
           \/ r.ok /\ Laser!Answer("done", 0, r.got.p)
           \/ \E k : Laser!Failed(k),
           LaserClaim(ctl.cmd, Laser!Payload(dev, LaserAsk(cmd, p)),
                      Laser!Served(dev, LaserAsk(cmd, p)), said.id)
    PROVE  LaserInv'
  <1> DEFINE v == Laser!Payload(dev, LaserAsk(cmd, p))
             d == Laser!Served(dev, LaserAsk(cmd, p))
  <1>0. LaserClaim(ctl.cmd, v, d, said.id)
    OBVIOUS
  <1>1. /\ IsSeq(wire') /\ Len(wire') <= MaxLate /\ LaserDevice(dev')
        /\ r.ok /\ wire = <<>> => r.got.p = v /\ dev' = d
    BY LaserExchange
  <1> HIDE DEF v, d
  <1>2. ~LateAcross => wire = <<>>
    BY DEF LaserInv, LaserTruth
  <1>3. CASE \E k : Laser!Failed(k)
    BY <1>1, <1>3, LaserFailed
  <1>4. CASE r.ok /\ Laser!Answer("done", 0, r.got.p)
    <2>1. ~LateAcross => LaserClaim(ctl.cmd, r.got.p, dev', said.id)
      BY <1>0, <1>1, <1>2, <1>4
    <2> QED  BY <1>1, <1>4, <2>1, LaserAnswered
  <1> QED  BY <1>3, <1>4

LEMMA LaserRegisters ==
    ASSUME NEW c, NEW v, NEW d, NEW id, NEW x, v = <<x, d.reg[x]>>,
           \/ c \in DOMAIN Laser!RegOf /\ x = Laser!RegOf[c]
           \/ c \in {"get_reg", "set_reg"} /\ x = Laser!RawRegister
    PROVE  LaserClaim(c, v, d, id)
  <1>1. {"get_reg", "set_reg"} \cap DOMAIN Laser!RegOf = {}
        /\ ({"get_reg", "set_reg"} \cup DOMAIN Laser!RegOf) \cap DOMAIN Laser!TaskOf = {}
    BY LaserCommands DEF LaserTasks
  <1>2. CASE c \in DOMAIN Laser!RegOf
    BY <1>1, <1>2 DEF LaserClaim
  <1>3. CASE c \in {"get_reg", "set_reg"}
    BY <1>1, <1>3 DEF LaserClaim
  <1> QED  BY <1>2, <1>3

LEMMA LaserReads == ASSUME LaserInv, Laser!ReadRegister PROVE LaserInv'
  <1> DEFINE x == IF ctl.cmd = "get_reg" THEN Laser!RawRegister ELSE Laser!RegOf[ctl.cmd]
             v == Laser!Payload(dev, LaserAsk("RegRead", <<x>>))
  <1>1. ctl.step = "open" /\ ctl.cmd \in DOMAIN Laser!RegOf \cup {"get_reg"}
    BY DEF Laser!ReadRegister
  <1>2. PICK r \in Laser!sendAndReceive("RegRead", <<x>>) :
           /\ dev' = r.d /\ wire' = r.line
           /\ \/ r.ok /\ Laser!Answer("done", 0, r.got.p)
              \/ \E k : Laser!Failed(k)
    BY DEF Laser!ReadRegister, Laser!Receive
  <1>3. v = <<x, dev.reg[x]>>
    BY DEF Laser!Payload, LaserAsk
  <1>4. Laser!Served(dev, LaserAsk("RegRead", <<x>>)) = dev
    <2>1. LaserAsk("RegRead", <<x>>).cmd = "RegRead"
      BY DEF LaserAsk
    <2> QED  BY <2>1, LaserServed
  <1>5. LaserClaim(ctl.cmd, v, dev, said.id)
    <2>1. \/ ctl.cmd \in DOMAIN Laser!RegOf /\ x = Laser!RegOf[ctl.cmd]
          \/ ctl.cmd \in {"get_reg", "set_reg"} /\ x = Laser!RawRegister
      BY <1>1, LaserCommands
    <2> HIDE DEF x, v
    <2> QED  BY <1>3, <2>1, LaserRegisters
  <1> HIDE DEF x, v
  <1>6. LaserClaim(ctl.cmd, Laser!Payload(dev, LaserAsk("RegRead", <<x>>)),
                   Laser!Served(dev, LaserAsk("RegRead", <<x>>)), said.id)
    BY <1>4, <1>5 DEF v
  <1>7. PICK p : p = <<x>>
    OBVIOUS
  <1>8. "RegRead" # "RegWrite"
    OBVIOUS
  <1> QED  BY <1>1, <1>2, <1>6, <1>7, <1>8, LaserSingle

LEMMA LaserWrites == ASSUME LaserInv, Laser!WriteRegister PROVE LaserInv'
  <1> DEFINE p == <<Laser!RawRegister, ctl.arg>>
             q == LaserAsk("RegWrite", p)
             d == Laser!Served(dev, q)
  <1>1. ctl.step = "open" /\ ctl.cmd = "set_reg"
    BY DEF Laser!WriteRegister
  <1>2. PICK r \in Laser!sendAndReceive("RegWrite", p) :
           /\ dev' = r.d /\ wire' = r.line
           /\ \/ r.ok /\ Laser!Answer("done", 0, r.got.p)
              \/ \E k : Laser!Failed(k)
    BY DEF Laser!WriteRegister, Laser!Receive
  <1>3. q.cmd = "RegWrite" /\ q.p = p
    BY DEF LaserAsk
  <1>4. p[1] = Laser!RawRegister /\ p[2] = ctl.arg /\ Laser!RawRegister \in Laser!Registers
    BY LaserCommands
  <1>5. d = [dev EXCEPT !.reg[Laser!RawRegister] = ctl.arg]
    <2>1. q.p[1] = Laser!RawRegister /\ q.p[2] = ctl.arg
      BY <1>3, <1>4
    <2> HIDE DEF p, q
    <2>2. d = [dev EXCEPT !.reg[q.p[1]] = q.p[2]]
      <3>1. q.cmd \notin {Laser!TaskOf[c] : c \in DOMAIN Laser!TaskOf}
        BY <1>3, LaserCommands DEF LaserTasks
      <3> QED  BY <1>3, <3>1 DEF Laser!Served
    <2> HIDE DEF d
    <2> QED  BY ONLY <2>1, <2>2
  <1>6. d.reg[Laser!RawRegister] = ctl.arg
    BY <1>4, <1>5 DEF LaserInv, LaserTypes
  <1>7. Laser!Payload(dev, q) = p
    BY <1>3 DEF Laser!Payload
  <1>8. LaserClaim(ctl.cmd, p, d, said.id)
    <2>2. p = <<Laser!RawRegister, d.reg[Laser!RawRegister]>>
      BY <1>6
    <2> HIDE DEF p, d
    <2> QED  BY <1>1, <2>2, LaserRegisters
  <1>9. LaserClaim(ctl.cmd, Laser!Payload(dev, LaserAsk("RegWrite", p)),
                   Laser!Served(dev, LaserAsk("RegWrite", p)), said.id)
    BY <1>7, <1>8
  <1>10. p[1] \in Laser!Registers
    BY <1>4
  <1> HIDE DEF p, q, d
  <1> QED  BY <1>1, <1>2, <1>9, <1>10, LaserSingle

LEMMA LaserSimple ==
    ASSUME LaserInv,
           Laser!TestEcho \/ Laser!Query \/ Laser!Cancel \/ Laser!ImmediateCommand \/ Laser!GetData
    PROVE  LaserInv'
  <1>1. /\ ctl.step = "open"
        /\ ctl.cmd \in {"test", "query", "cancel", "get_data", "set_imaging_mode", "reboot"}
    BY LaserCommands DEF Laser!TestEcho, Laser!Query, Laser!Cancel, Laser!ImmediateCommand, Laser!GetData
  <1>2. \A v, d, id : LaserClaim(ctl.cmd, v, d, id)
    <2>1. /\ ctl.cmd \notin DOMAIN Laser!RegOf /\ ctl.cmd \notin LaserTasks
          /\ ctl.cmd \notin {"get_reg", "set_reg"}
      BY <1>1, LaserCommands
    <2> QED  BY <2>1, LaserOthers
  <1>3. \E cmd \in {"Test", "Query", "Cancel", "SetImagingMode", "Reboot", "GetData"} :
           \E p : \E r \in Laser!sendAndReceive(cmd, p) :
             /\ dev' = r.d /\ wire' = r.line
             /\ \/ r.ok /\ Laser!Answer("done", 0, r.got.p)
                \/ \E k : Laser!Failed(k)
    <2>1. CASE Laser!TestEcho
      BY <2>1 DEF Laser!TestEcho, Laser!Receive
    <2>2. CASE Laser!Query
      BY <2>2 DEF Laser!Query, Laser!Receive
    <2>3. CASE Laser!Cancel
      BY <2>3 DEF Laser!Cancel, Laser!Receive
    <2>4. CASE Laser!ImmediateCommand
      <3>1. Laser!Immediate[ctl.cmd] \in {"SetImagingMode", "Reboot"}
        BY <2>4 DEF Laser!ImmediateCommand, Laser!Immediate
      <3> QED  BY <2>4, <3>1 DEF Laser!ImmediateCommand, Laser!Receive
    <2>5. CASE Laser!GetData
      BY <2>5 DEF Laser!GetData, Laser!Receive
    <2> QED  BY <2>1, <2>2, <2>3, <2>4, <2>5
  <1>4. PICK cmd, p : /\ cmd \in {"Test", "Query", "Cancel", "SetImagingMode", "Reboot", "GetData"}
                      /\ \E r \in Laser!sendAndReceive(cmd, p) :
                           /\ dev' = r.d /\ wire' = r.line
                           /\ \/ r.ok /\ Laser!Answer("done", 0, r.got.p)
                              \/ \E k : Laser!Failed(k)
    BY <1>3
  <1>5. PICK r \in Laser!sendAndReceive(cmd, p) :
                           /\ dev' = r.d /\ wire' = r.line
                           /\ \/ r.ok /\ Laser!Answer("done", 0, r.got.p)
                              \/ \E k : Laser!Failed(k)
    BY <1>4
  <1>6. cmd # "RegWrite"
    BY <1>4
  <1> QED  BY <1>1, <1>2, <1>5, <1>6, LaserSingle

LEMMA LaserGoes ==
    ASSUME LaserInv, NEW c, Laser!Continue(c), DOMAIN c = DOMAIN ctl, c.ctr = ctl.ctr
    PROVE  /\ DOMAIN ctl' = DOMAIN ctl /\ ctl'.ctr \in 0..(2^16 - 1) /\ said' = said
           /\ ctl'.step = c.step /\ ctl'.cmd = c.cmd /\ ctl'.arg = c.arg /\ ctl'.exp = c.exp
           /\ ctl'.got = c.got
  <1>1. PICK n \in Nat : n = 2^16 /\ n > 0
    OBVIOUS
  <1>2. ctl.ctr + 1 \in Nat
    BY DEF LaserInv, LaserTypes
  <1>3. (ctl.ctr + 1) % n \in 0..(n - 1)
    BY <1>1, <1>2, ModRange
  <1>4. ctl' = [c EXCEPT !.ctr = (@ + 1) % n] /\ said' = said
    BY <1>1 DEF Laser!Continue
  <1> QED  BY <1>1, <1>3, <1>4 DEF LaserInv, LaserTypes

LEMMA LaserClears == ASSUME LaserInv, Laser!resetQueryState PROVE LaserInv'
  <1> DEFINE p == <<200>>
             q == LaserAsk("Query", p)
  <1>1. ctl.step = "open" /\ ctl.cmd \in LaserTasks
    BY DEF Laser!resetQueryState, LaserTasks
  <1>2. PICK r \in Laser!sendAndReceive("Query", p) :
           /\ dev' = r.d /\ wire' = r.line
           /\ \/ /\ r.ok /\ r.got.p = <<0, "none", "none">>
                 /\ Laser!Continue([ctl EXCEPT !.step = "send"])
              \/ \E k : Laser!Failed(k)
    BY DEF Laser!resetQueryState, Laser!Receive
  <1>3. q.cmd = "Query" /\ q.p[1] = 200
    BY DEF LaserAsk
  <1> HIDE DEF p
  <1>4. /\ IsSeq(wire') /\ Len(wire') <= MaxLate /\ LaserDevice(dev')
        /\ r.ok /\ wire = <<>> => /\ wire' = <<>> /\ r.got.p = Laser!Payload(dev, q)
                                  /\ dev' = Laser!Served(dev, q)
    <2>1. "Query" # "RegWrite"
      OBVIOUS
    <2> QED  BY <1>2, <2>1, LaserExchange
  <1> HIDE DEF q
  <1>5. CASE \E k : Laser!Failed(k)
    BY <1>1, <1>4, <1>5, LaserFailed
  <1>6. CASE /\ r.ok /\ r.got.p = <<0, "none", "none">>
             /\ Laser!Continue([ctl EXCEPT !.step = "send"])
    <2>1. /\ DOMAIN ctl' = DOMAIN ctl /\ ctl'.ctr \in 0..(2^16 - 1) /\ said' = said
          /\ ctl'.step = "send" /\ ctl'.cmd = ctl.cmd /\ ctl'.got = ctl.got
      <3> DEFINE c == [ctl EXCEPT !.step = "send"]
      <3>1. /\ DOMAIN c = DOMAIN ctl /\ c.ctr = ctl.ctr /\ c.step = "send" /\ c.cmd = ctl.cmd
            /\ c.got = ctl.got
        BY DEF LaserInv, LaserTypes
      <3>2. Laser!Continue(c)
        BY <1>6
      <3> HIDE DEF c
      <3> QED  BY <3>1, <3>2, LaserGoes
    <2>2. ~LateAcross => wire' = <<>> /\ dev'.task = Laser!NoTask
      <3> SUFFICES ASSUME ~LateAcross PROVE wire' = <<>> /\ dev'.task = Laser!NoTask
        OBVIOUS
      <3>1. wire = <<>>
        BY <1>1 DEF LaserInv, LaserTruth
      <3>2. wire' = <<>> /\ Laser!Payload(dev, q) = <<0, "none", "none">> /\ dev' = Laser!Served(dev, q)
        BY <1>4, <1>6, <3>1
      <3>3. CASE dev.task.res = "running"
        <4>1. Laser!Payload(dev, q) = <<dev.task.ctr, dev.task.cmd, dev.task.res>>
          BY <1>3, <3>3 DEF Laser!Payload
        <4> QED  BY <3>2, <3>3, <4>1
      <3>4. CASE dev.task.res # "running"
        <4>1. dev' = [dev EXCEPT !.task = Laser!NoTask]
          <5>1. q.cmd \notin {Laser!TaskOf[c] : c \in DOMAIN Laser!TaskOf}
            BY <1>3, LaserCommands DEF LaserTasks
          <5> QED  BY <1>3, <3>2, <3>4, <5>1 DEF Laser!Served
        <4> QED  BY <3>2, <4>1 DEF LaserInv, LaserTypes
      <3> QED  BY <3>3, <3>4
    <2>3. LaserTypes'
      BY <1>1, <1>4, <2>1 DEF LaserInv, LaserTypes, LaserSteps, LaserDevice
    <2>4. said'.status = "none"
      BY <1>1, <2>1 DEF LaserInv, LaserTypes
    <2> QED  BY <2>1, <2>2, <2>3, <2>4 DEF LaserInv, LaserTruth, Laser!AnswersAreTrue
  <1> QED  BY <1>2, <1>5, <1>6

\* A task the device takes is of this command.
LEMMA LaserTakes ==
    ASSUME LaserInv, ctl.cmd \in LaserTasks, NEW q, q.cmd = Laser!TaskOf[ctl.cmd],
           q.p = <<ctl.arg * 1000>>, dev.task = Laser!NoTask, NEW d, d = Laser!Served(dev, q)
    PROVE  LaserTask(ctl.cmd, d, said.id)
  <1>1. /\ q.cmd \in {"CalibX", "CalibLidar", "MoveX", "ScanField"}
        /\ q.cmd \in {Laser!TaskOf[c] : c \in DOMAIN Laser!TaskOf}
        /\ ctl.cmd = "move_x" => q.cmd = "MoveX"
    BY LaserCommands DEF LaserTasks
  <1>2. dev.task.res # "running"
    BY DEF Laser!NoTask
  <1>3. d = [dev EXCEPT !.task = [ctr |-> q.ctr, cmd |-> q.cmd, res |-> "running", id |-> said.id],
                        !.at = IF q.cmd = "MoveX" THEN q.p[1] ELSE @]
    BY <1>1, <1>2 DEF Laser!Served
  <1>4. /\ d.task = [ctr |-> q.ctr, cmd |-> q.cmd, res |-> "running", id |-> said.id]
        /\ q.cmd = "MoveX" => d.at = q.p[1]
    BY <1>3 DEF LaserInv, LaserTypes
  <1>5. d.task.id = said.id /\ d.task.cmd = q.cmd /\ d.task.res = "running"
    BY <1>4
  <1>6. q.p[1] = ctl.arg * 1000
    OBVIOUS
  <1> QED  BY <1>1, <1>4, <1>5, <1>6 DEF LaserTask

LEMMA LaserSends == ASSUME LaserInv, Laser!SendTask PROVE LaserInv'
  <1> DEFINE p == <<Laser!Encode(ctl.arg)>>
             q == LaserAsk(Laser!TaskOf[ctl.cmd], p)
  <1>1. ctl.step = "send" /\ ctl.cmd \in LaserTasks
    BY DEF Laser!SendTask, LaserInv, LaserTypes
  <1>2. PICK d \in {dev, Laser!Served(dev, q)}, l \in Laser!Drained(wire) :
           \E o \in Laser!Reads(l) :
             /\ dev' = d /\ wire' = o.line
             /\ \/ Laser!Continue([ctl EXCEPT !.step = "poll", !.exp = ctl.ctr])
                \/ Laser!Failed(2)
    BY DEF Laser!SendTask, Laser!sendExpectNoImmediateResponse, LaserAsk
  <1>3. PICK o \in Laser!Reads(l) :
             /\ dev' = d /\ wire' = o.line
             /\ \/ Laser!Continue([ctl EXCEPT !.step = "poll", !.exp = ctl.ctr])
                \/ Laser!Failed(2)
    BY <1>2
  <1>4. /\ q.cmd = Laser!TaskOf[ctl.cmd] /\ q.p = <<ctl.arg * 1000>>
        /\ q.cmd \in {"CalibX", "CalibLidar", "MoveX", "ScanField"}
    BY <1>1, LaserCommands DEF LaserAsk, Laser!Encode
  <1> HIDE DEF p, q
  <1>5. LaserDevice(dev')
    <2>1. q.cmd # "RegWrite"
      BY <1>4
    <2>2. LaserDevice(dev) /\ LaserDevice(Laser!Served(dev, q))
      BY <2>1, LaserServed
    <2> QED  BY <1>2, <1>3, <2>2
  <1>6. /\ IsSeq(wire) /\ Len(wire) <= MaxLate
    BY DEF LaserInv, LaserTypes
  <1>7. /\ IsSeq(wire') /\ Len(wire') \in Nat /\ Len(wire') <= Len(wire) /\ Len(wire) \in Nat
    <2>1. IsSeq(l) /\ Len(l) \in Nat /\ Len(l) <= Len(wire) /\ Len(wire) \in Nat
      BY <1>2, <1>6, DrainedAny, LaserLine
    <2>2. IsSeq(o.line) /\ Len(o.line) \in Nat /\ Len(o.line) <= Len(l)
      BY <1>3, <2>1, ReadsAny, LaserLine
    <2> QED  BY <1>3, <2>1, <2>2
  <1>8. Len(wire') <= MaxLate
    <2>1. MaxLate \in Nat
      BY DevicesAssumption
    <2> QED  BY <1>6, <1>7, <2>1
  <1>9. wire = <<>> => wire' = <<>>
    <2>1. ASSUME wire = <<>> PROVE Len(wire') = 0
      BY <1>7, <2>1
    <2> QED  BY <1>7, <2>1, NoElements
  <1>10. CASE Laser!Failed(2)
    BY <1>1, <1>5, <1>7, <1>8, <1>10, LaserFailed
  <1>11. CASE Laser!Continue([ctl EXCEPT !.step = "poll", !.exp = ctl.ctr])
    <2>1. /\ DOMAIN ctl' = DOMAIN ctl /\ ctl'.ctr \in 0..(2^16 - 1) /\ said' = said
          /\ ctl'.step = "poll" /\ ctl'.cmd = ctl.cmd /\ ctl'.got = ctl.got /\ ctl'.arg = ctl.arg
      <3> DEFINE c == [ctl EXCEPT !.step = "poll", !.exp = ctl.ctr]
      <3>1. /\ DOMAIN c = DOMAIN ctl /\ c.ctr = ctl.ctr /\ c.step = "poll" /\ c.cmd = ctl.cmd
            /\ c.got = ctl.got /\ c.arg = ctl.arg
        BY DEF LaserInv, LaserTypes
      <3>2. Laser!Continue(c)
        BY <1>11
      <3> HIDE DEF c
      <3> QED  BY <3>1, <3>2, LaserGoes
    <2>2. ~LateAcross => dev'.task = Laser!NoTask \/ LaserTask(ctl.cmd, dev', said.id)
      <3>1. ~LateAcross => dev.task = Laser!NoTask
        BY <1>1 DEF LaserInv, LaserTruth
      <3> QED  BY <1>1, <1>2, <1>3, <1>4, <3>1, LaserTakes
    <2>3. ~LateAcross => Elements(wire') = {}
      <3>1. ~LateAcross => wire' = <<>>
        BY <1>1, <1>9 DEF LaserInv, LaserTruth
      <3>2. Elements(<<>>) = {}
        BY DEF Elements
      <3> QED  BY <3>1, <3>2
    <2>4. ~LateAcross => dev'.task = Laser!NoTask \/ LaserTask(ctl.cmd, dev, said.id)'
      BY <2>1, <2>2 DEF LaserTask
    <2>5. LaserTypes'
      BY <1>1, <1>5, <1>7, <1>8, <2>1 DEF LaserInv, LaserTypes, LaserSteps, LaserDevice
    <2>6. said'.status = "none"
      BY <1>1, <2>1 DEF LaserInv, LaserTypes
    <2> QED  BY <2>1, <2>3, <2>4, <2>5, <2>6 DEF LaserInv, LaserTruth, Laser!AnswersAreTrue
  <1> QED  BY <1>3, <1>10, <1>11

\* What a record of the device tells, whichever query it answers.
LEMMA LaserTells ==
    ASSUME LaserInv, ~LateAcross, ctl.step = "poll",
           NEW f \in Elements(wire) \cup {LaserReply("Query", << 100 >>)}, "p" \in DOMAIN f
    PROVE  f.cmd = "Query" /\ LaserRecord(f.p)
  <1> DEFINE q == LaserAsk("Query", << 100 >>)
  <1>1. CASE f \in Elements(wire)
    BY <1>1 DEF LaserInv, LaserTruth
  <1>2. CASE f = LaserReply("Query", << 100 >>)
    <2>1. f.cmd = "Query" /\ f.p = Laser!Payload(dev, q)
      BY <1>2 DEF LaserReply
    <2>2. q.cmd = "Query" /\ q.p[1] = 100
      BY DEF LaserAsk
    <2> HIDE DEF q
    <2>3. f.p = <<dev.task.ctr, dev.task.cmd, dev.task.res>>
      BY <2>1, <2>2 DEF Laser!Payload
    <2>4. ASSUME f.p[2] = Laser!TaskOf[ctl.cmd] PROVE LaserTask(ctl.cmd, dev, said.id) /\ dev.task.res = f.p[3]
      <3>1. Laser!TaskOf[ctl.cmd] \in {"CalibX", "CalibLidar", "MoveX", "ScanField"}
        BY LaserCommands DEF LaserInv, LaserTypes
      <3>2. dev.task.cmd # "none"
        BY <2>3, <2>4, <3>1
      <3>3. dev.task # Laser!NoTask
        BY <3>2 DEF Laser!NoTask
      <3> QED  BY <2>3, <3>3 DEF LaserInv, LaserTruth
    <2> QED  BY <2>1, <2>4 DEF LaserRecord
  <1> QED  BY <1>1, <1>2

\* Where the session stays as it is and the device did not change.
LEMMA LaserPolls ==
    ASSUME LaserInv, ctl.step = "poll", UNCHANGED <<ctl, said>>, dev' = dev,
           IsSeq(wire'), Len(wire') <= MaxLate,
           Elements(wire') \subseteq Elements(wire) \cup {LaserReply("Query", << 100 >>)}
    PROVE  LaserInv'
  <1>1. ASSUME ~LateAcross, NEW f \in Elements(wire'), "p" \in DOMAIN f
        PROVE  f.cmd = "Query" /\ LaserRecord(f.p)'
    <2>1. f.cmd = "Query" /\ LaserRecord(f.p)
      BY <1>1, LaserTells
    <2> QED  BY <2>1 DEF LaserRecord, LaserTask
  <1>2. ~LateAcross => dev'.task = Laser!NoTask \/ LaserTask(ctl.cmd, dev, said.id)'
    BY DEF LaserInv, LaserTruth, LaserTask
  <1>3. LaserTypes'
    BY DEF LaserInv, LaserTypes
  <1>4. said'.status = "none" /\ ctl'.step = "poll"
    BY DEF LaserInv, LaserTypes
  <1>5. ~LateAcross => LaserTruth'
    BY <1>1, <1>2, <1>4 DEF LaserTruth, Laser!AnswersAreTrue
  <1> QED  BY <1>3, <1>5 DEF LaserInv

LEMMA LaserWaits == ASSUME LaserInv, Laser!waitTaskCompleted PROVE LaserInv'
  <1> DEFINE p == << 100 >>
             q == LaserAsk("Query", p)
  <1>1. ctl.step = "poll" /\ ctl.cmd \in LaserTasks
    BY DEF Laser!waitTaskCompleted, LaserInv, LaserTypes
  <1>2. PICK r \in Laser!sendAndReceive("Query", p) :
           /\ dev' = r.d /\ wire' = r.line
           /\ \/ /\ r.ok /\ r.got.p[2] = Laser!TaskOf[ctl.cmd] /\ r.got.p[3] # "running"
                 /\ Laser!TaskDone(r.got.p[3])
              \/ UNCHANGED <<ctl, said>>
              \/ Laser!Failed(2)
    BY DEF Laser!waitTaskCompleted, Laser!Receive
  <1>3. q.cmd = "Query" /\ q.p[1] = 100
    BY DEF LaserAsk
  <1> HIDE DEF p
  <1>4. /\ IsSeq(wire') /\ Len(wire') <= MaxLate /\ LaserDevice(dev')
        /\ dev' \in {dev, Laser!Served(dev, q)}
        /\ Elements(wire') \subseteq Elements(wire) \cup {LaserReply("Query", p)}
        /\ r.ok => /\ r.got \in Elements(wire) \cup {LaserReply("Query", p)}
                   /\ "p" \in DOMAIN r.got
    <2>1. "Query" # "RegWrite"
      OBVIOUS
    <2> QED  BY <1>2, <2>1, LaserExchange
  <1>5. dev' = dev
    <2> HIDE DEF q
    <2>1. Laser!Served(dev, q) = dev
      BY <1>3, LaserServed
    <2> QED  BY <1>4, <2>1
  <1>6. CASE UNCHANGED <<ctl, said>>
    BY <1>1, <1>4, <1>5, <1>6, LaserPolls DEF p
  <1>7. CASE Laser!Failed(2)
    BY <1>1, <1>4, <1>7, LaserFailed
  <1>8. CASE /\ r.ok /\ r.got.p[2] = Laser!TaskOf[ctl.cmd] /\ r.got.p[3] # "running"
             /\ Laser!TaskDone(r.got.p[3])
    <2>1. ~LateAcross => LaserTask(ctl.cmd, dev, said.id) /\ dev.task.res = r.got.p[3]
      <3> SUFFICES ASSUME ~LateAcross
                   PROVE  LaserTask(ctl.cmd, dev, said.id) /\ dev.task.res = r.got.p[3]
        OBVIOUS
      <3>1. LaserRecord(r.got.p)
        BY <1>1, <1>4, <1>8, LaserTells DEF p
      <3> QED  BY <1>8, <3>1 DEF LaserRecord
    <2>2. PICK res : res = r.got.p[3]
      OBVIOUS
    <2>3. \/ /\ ctl.cmd = "scan_field" /\ res \in {"success", "blank"}
             /\ Laser!Continue([ctl EXCEPT !.step = "segments", !.res = res])
          \/ /\ ctl.cmd # "scan_field" /\ res = "success"
             /\ Laser!Answer("done", 0, <<ctl.arg, res>>)
          \/ Laser!Failed(2)
      BY <1>8, <2>2 DEF Laser!TaskDone
    <2>4. CASE Laser!Failed(2)
      BY <1>1, <1>4, <2>4, LaserFailed
    <2>5. CASE /\ ctl.cmd # "scan_field" /\ res = "success"
               /\ Laser!Answer("done", 0, <<ctl.arg, res>>)
      <3> DEFINE v == <<ctl.arg, res>>
      <3>1. v[1] = ctl.arg
        OBVIOUS
      <3>2. ctl.cmd \notin DOMAIN Laser!RegOf /\ ctl.cmd \notin {"get_reg", "set_reg"}
        BY <1>1, LaserCommands
      <3> HIDE DEF v
      <3>3. ~LateAcross => LaserClaim(ctl.cmd, v, dev', said.id)
        BY <1>1, <1>5, <2>1, <2>2, <2>5, <3>1, <3>2 DEF LaserClaim, LaserTask, LaserTasks
      <3> QED  BY <1>1, <1>4, <2>5, <3>3, LaserAnswered DEF v
    <2>6. CASE /\ ctl.cmd = "scan_field" /\ res \in {"success", "blank"}
               /\ Laser!Continue([ctl EXCEPT !.step = "segments", !.res = res])
      <3>1. /\ DOMAIN ctl' = DOMAIN ctl /\ ctl'.ctr \in 0..(2^16 - 1) /\ said' = said
            /\ ctl'.step = "segments" /\ ctl'.cmd = ctl.cmd /\ ctl'.got = ctl.got /\ ctl'.arg = ctl.arg
        <4> DEFINE c == [ctl EXCEPT !.step = "segments", !.res = res]
        <4>1. /\ DOMAIN c = DOMAIN ctl /\ c.ctr = ctl.ctr /\ c.step = "segments" /\ c.cmd = ctl.cmd
              /\ c.got = ctl.got /\ c.arg = ctl.arg
          BY DEF LaserInv, LaserTypes
        <4>2. Laser!Continue(c)
          BY <2>6
        <4> HIDE DEF c
        <4> QED  BY <4>1, <4>2, LaserGoes
      <3>2. LaserTypes'
        BY <1>1, <1>4, <3>1 DEF LaserInv, LaserTypes, LaserSteps, LaserDevice
      <3>3. said'.status = "none"
        BY <1>1, <3>1 DEF LaserInv, LaserTypes
      <3>4. ASSUME ~LateAcross
            PROVE  /\ LaserTask(ctl.cmd, dev, said.id)' /\ dev'.task.res \in {"success", "blank"}
                   /\ \A f \in Elements(wire') : "p" \in DOMAIN f => f.cmd = "Query"
                   /\ ctl'.cmd = "scan_field"
        <4>1. \A f \in Elements(wire') : "p" \in DOMAIN f => f.cmd = "Query"
          BY <1>1, <1>4, <3>4, LaserTells DEF p
        <4> QED  BY <1>5, <2>1, <2>2, <2>6, <3>1, <3>4, <4>1 DEF LaserTask
      <3>5. ctl.got = <<>>
        \* TODO
        BY <1>1 DEF LaserInv, LaserTypes
      <3> QED  BY <3>1, <3>2, <3>3, <3>4, <3>5 DEF LaserInv, LaserTruth, Laser!AnswersAreTrue
    <2> QED  BY <2>3, <2>4, <2>5, <2>6
  <1> QED  BY <1>2, <1>6, <1>7, <1>8

LEMMA LaserCollects == ASSUME LaserInv, Laser!collectAllSegments PROVE LaserInv'
  <1> DEFINE p == <<Len(ctl.got)>>
             q == LaserAsk("GetData", p)
  <1>1. /\ ctl.step = "segments" /\ ctl.cmd \in LaserTasks /\ Len(ctl.got) < Segments
        /\ IsSeq(ctl.got) /\ Len(ctl.got) \in Nat /\ Segments \in Nat
    BY DevicesAssumption DEF Laser!collectAllSegments, LaserInv, LaserTypes, IsSeq
  <1>2. PICK r \in Laser!sendAndReceive("GetData", p) :
           /\ dev' = r.d /\ wire' = r.line
           /\ \/ /\ r.ok /\ r.got.p[1] = Len(ctl.got)
                 /\ Laser!Continue([ctl EXCEPT !.got = Append(@, r.got.p)])
              \/ \E k : Laser!Failed(k)
    BY DEF Laser!collectAllSegments, Laser!Receive
  <1>3. q.cmd = "GetData" /\ q.p = p /\ p[1] = Len(ctl.got)
    BY DEF LaserAsk
  <1> HIDE DEF p
  <1>4. /\ IsSeq(wire') /\ Len(wire') <= MaxLate /\ LaserDevice(dev')
        /\ dev' \in {dev, Laser!Served(dev, q)}
        /\ Elements(wire') \subseteq Elements(wire) \cup {LaserReply("GetData", p)}
        /\ r.ok => /\ r.got \in Elements(wire) \cup {LaserReply("GetData", p)}
                   /\ "p" \in DOMAIN r.got /\ r.got.cmd = "GetData"
    <2>1. "GetData" # "RegWrite"
      OBVIOUS
    <2> QED  BY <1>2, <2>1, LaserExchange
  <1>5. dev' = dev
    <2> HIDE DEF q
    <2>1. Laser!Served(dev, q) = dev
      BY <1>3, LaserServed
    <2> QED  BY <1>4, <2>1
  <1>6. ASSUME ~LateAcross, NEW f \in Elements(wire) \cup {LaserReply("GetData", p)},
               "p" \in DOMAIN f, f.cmd = "GetData"
        PROVE  f.p = LaserSegment(f.p[1] + 1, said.id)
    <2>1. CASE f \in Elements(wire)
      BY <1>1, <1>6, <2>1 DEF LaserInv, LaserTruth
    <2>2. CASE f = LaserReply("GetData", p)
      <3>1. f.p = Laser!Payload(dev, q)
        BY <2>2 DEF LaserReply
      <3> HIDE DEF q
      <3>2. f.p = <<Len(ctl.got), Segments, dev.data>>
        BY <1>3, <3>1 DEF Laser!Payload
      <3>3. dev.data = said.id
        BY <1>1, <1>6 DEF LaserInv, LaserTruth, LaserTask
      <3>4. f.p[1] + 1 - 1 = Len(ctl.got)
        BY <1>1, <3>2
      <3> QED  BY <3>2, <3>3, <3>4 DEF LaserSegment
    <2> QED  BY <1>6, <2>1, <2>2
  <1> HIDE DEF q
  <1>7. CASE \E k : Laser!Failed(k)
    BY <1>1, <1>4, <1>7, LaserFailed
  <1>8. CASE /\ r.ok /\ r.got.p[1] = Len(ctl.got)
             /\ Laser!Continue([ctl EXCEPT !.got = Append(@, r.got.p)])
    <2> DEFINE g == Append(ctl.got, r.got.p)
    <2>1. /\ DOMAIN ctl' = DOMAIN ctl /\ ctl'.ctr \in 0..(2^16 - 1) /\ said' = said
          /\ ctl'.step = "segments" /\ ctl'.cmd = ctl.cmd /\ ctl'.got = g /\ ctl'.arg = ctl.arg
      <3> DEFINE c == [ctl EXCEPT !.got = Append(@, r.got.p)]
      <3>1. /\ DOMAIN c = DOMAIN ctl /\ c.ctr = ctl.ctr /\ c.step = "segments" /\ c.cmd = ctl.cmd
            /\ c.got = g /\ c.arg = ctl.arg
        BY <1>1 DEF LaserInv, LaserTypes
      <3>2. Laser!Continue(c)
        BY <1>8
      <3> HIDE DEF c, g
      <3> QED  BY <3>1, <3>2, LaserGoes
    <2>2. /\ IsSeq(g) /\ Len(g) = Len(ctl.got) + 1
          /\ \A i \in 1..Len(ctl.got) : g[i] = ctl.got[i]
          /\ g[Len(ctl.got) + 1] = r.got.p
      BY <1>1, AppendAny
    <2>3. ~LateAcross => r.got.p = LaserSegment(Len(ctl.got) + 1, said.id)
      BY <1>4, <1>6, <1>8
    <2> HIDE DEF g
    <2>4. LaserTypes'
      <3>1. Len(g) <= Segments
        BY <1>1, <2>2
      <3> QED  BY <1>1, <1>4, <2>1, <2>2, <3>1 DEF LaserInv, LaserTypes, LaserSteps, LaserDevice
    <2>5. said'.status = "none"
      BY <1>1, <2>1 DEF LaserInv, LaserTypes
    <2>6. ASSUME ~LateAcross, NEW i \in 1..Len(g) PROVE g[i] = LaserSegment(i, said.id)
      <3>1. CASE i \in 1..Len(ctl.got)
        BY <1>1, <2>2, <2>6, <3>1 DEF LaserInv, LaserTruth
      <3>2. CASE i = Len(ctl.got) + 1
        BY <2>2, <2>3, <2>6, <3>2
      <3> QED  BY <1>1, <2>2, <3>1, <3>2
    <2>7. ~LateAcross => LaserTruth'
      <3> SUFFICES ASSUME ~LateAcross PROVE LaserTruth'
        OBVIOUS
      <3>1. LaserTask(ctl.cmd, dev, said.id)' /\ ctl'.cmd = "scan_field"
            /\ dev'.task.res \in {"success", "blank"}
        BY <1>1, <1>5, <2>1 DEF LaserInv, LaserTruth, LaserTask
      <3>2. \A f \in Elements(wire') :
               "p" \in DOMAIN f /\ f.cmd = "GetData" => f.p = LaserSegment(f.p[1] + 1, said.id)
        BY <1>4, <1>6
      <3> QED  BY <2>1, <2>5, <2>6, <3>1, <3>2 DEF LaserTruth, Laser!AnswersAreTrue
    <2> QED  BY <2>4, <2>7 DEF LaserInv
  <1> QED  BY <1>2, <1>7, <1>8

LEMMA LaserScans == ASSUME LaserInv, NEW w \in BOOLEAN, Laser!ScanDone(w) PROVE LaserInv'
  <1>1. /\ ctl.step = "segments" /\ Len(ctl.got) = Segments /\ UNCHANGED <<wire, dev>>
        /\ Laser!Answer("done", 0, ctl.got) \/ Laser!Failed(1)
    BY DEF Laser!ScanDone
  <1>2. IsSeq(wire') /\ Len(wire') <= MaxLate /\ LaserDevice(dev')
    BY <1>1 DEF LaserInv, LaserTypes, LaserDevice
  <1>3. CASE Laser!Failed(1)
    BY <1>1, <1>2, <1>3, LaserFailed
  <1>4. CASE Laser!Answer("done", 0, ctl.got)
    <2>1. ASSUME ~LateAcross PROVE LaserClaim(ctl.cmd, ctl.got, dev, said.id)
      <3>1. /\ ctl.cmd = "scan_field" /\ LaserTask(ctl.cmd, dev, said.id)
            /\ dev.task.res \in {"success", "blank"}
            /\ \A i \in 1..Len(ctl.got) : ctl.got[i] = LaserSegment(i, said.id)
        BY <1>1, <2>1 DEF LaserInv, LaserTruth
      <3>2. ctl.got = [i \in 1..Segments |-> <<i - 1, Segments, said.id>>]
        <4>1. IsSeq(ctl.got) /\ Len(ctl.got) = Segments
          BY <1>1 DEF LaserInv, LaserTypes
        <4>2. ctl.got = [i \in 1..Segments |-> ctl.got[i]]
          BY <4>1 DEF IsSeq
        <4>3. \A i \in 1..Segments : ctl.got[i] = <<i - 1, Segments, said.id>>
          BY <1>1, <3>1 DEF LaserSegment
        <4> QED  BY <4>2, <4>3
      <3>3. /\ ctl.cmd \notin DOMAIN Laser!RegOf /\ ctl.cmd \notin {"get_reg", "set_reg"}
            /\ ctl.cmd # "move_x" /\ ctl.cmd \in DOMAIN Laser!TaskOf
        BY <3>1, LaserCommands DEF LaserTasks
      <3> QED  BY <3>1, <3>2, <3>3 DEF LaserClaim, LaserTask
    <2> QED  BY <1>1, <1>2, <1>4, <2>1, LaserAnswered
  <1> QED  BY <1>1, <1>3, <1>4

LEMMA LaserEnds == ASSUME LaserInv, NEW res \in Laser!Results, Laser!TaskEnds(res) PROVE LaserInv'
  <1>1. /\ dev.task.res = "running" /\ UNCHANGED <<ctl, wire, said>>
        /\ dev' = [dev EXCEPT !.task.res = res,
                              !.data = IF dev.task.cmd = "ScanField" THEN dev.task.id ELSE @]
    BY DEF Laser!TaskEnds
  <1>2. /\ LaserDevice(dev') /\ dev'.reg = dev.reg /\ dev'.at = dev.at
        /\ dev'.task.id = dev.task.id /\ dev'.task.cmd = dev.task.cmd /\ dev'.task.res = res
        /\ dev.task.cmd = "ScanField" => dev'.data = dev.task.id
    BY <1>1 DEF LaserInv, LaserTypes, LaserDevice
  <1>3. dev.task # Laser!NoTask
    BY <1>1 DEF Laser!NoTask
  <1>4. LaserTypes'
    BY <1>1, <1>2 DEF LaserInv, LaserTypes, LaserDevice
  <1>5. ASSUME ~LateAcross, LaserTask(ctl.cmd, dev, said.id), ctl.step = "poll"
        PROVE  LaserTask(ctl.cmd, dev, said.id)'
    <2>1. ctl.cmd = "scan_field" => dev.task.cmd = "ScanField"
      BY <1>5, LaserCommands DEF LaserTask
    <2> QED  BY <1>1, <1>2, <1>5, <2>1 DEF LaserTask
  <1>6. ASSUME ~LateAcross PROVE LaserTruth'
    <2>1. ctl.step \in {"open", "send"} => wire' = <<>> /\ ctl.step # "send"
      BY <1>1, <1>3, <1>6 DEF LaserInv, LaserTruth
    <2>2. ctl.step = "poll" =>
            /\ LaserTask(ctl.cmd, dev, said.id)'
            /\ \A f \in Elements(wire') : "p" \in DOMAIN f => f.cmd = "Query" /\ LaserRecord(f.p)'
      <3> SUFFICES ASSUME ctl.step = "poll"
                   PROVE  /\ LaserTask(ctl.cmd, dev, said.id)'
                          /\ \A f \in Elements(wire') : "p" \in DOMAIN f => f.cmd = "Query" /\ LaserRecord(f.p)'
        OBVIOUS
      <3>1. LaserTask(ctl.cmd, dev, said.id)'
        BY <1>3, <1>5, <1>6 DEF LaserInv, LaserTruth
      <3>2. ASSUME NEW f \in Elements(wire'), "p" \in DOMAIN f
            PROVE  f.cmd = "Query" /\ LaserRecord(f.p)'
        <4>1. f.cmd = "Query" /\ LaserRecord(f.p)
          BY <1>1, <1>6, <3>2 DEF LaserInv, LaserTruth
        <4>2. ~(f.p[2] = Laser!TaskOf[ctl.cmd] /\ f.p[3] # "running")
          BY <1>1, <4>1 DEF LaserRecord
        <4> QED  BY <1>1, <4>1, <4>2 DEF LaserRecord
      <3> QED  BY <3>1, <3>2
    <2>3. ctl.step # "segments"
      BY <1>1, <1>6 DEF LaserInv, LaserTruth
    <2>4. Laser!AnswersAreTrue'
      <3>1. said.status = "done" => LaserClaim(said.cmd, said.val, dev, said.id)
        BY <1>6, LaserClaims DEF LaserInv, LaserTruth
      <3>2. (DOMAIN Laser!RegOf \cup {"get_reg", "set_reg"}) \cap LaserTasks = {}
            /\ DOMAIN Laser!RegOf \cap {"get_reg", "set_reg"} = {}
        BY LaserCommands
      <3>3. ASSUME said.status = "done" PROVE LaserClaim(said.cmd, said.val, dev', said.id)
        <4>1. CASE said.cmd \in LaserTasks
          <5>1. dev.task.res \in {"success", "blank"}
            BY <3>1, <3>2, <3>3, <4>1 DEF LaserClaim, LaserTasks
          <5> QED  BY <1>1, <5>1
        <4>2. CASE said.cmd \in DOMAIN Laser!RegOf
          <5>1. said.val = <<Laser!RegOf[said.cmd], dev.reg[Laser!RegOf[said.cmd]]>>
            BY <3>1, <3>2, <3>3, <4>2 DEF LaserClaim, LaserTasks
          <5> QED  BY <1>2, <4>2, <5>1, LaserRegisters
        <4>3. CASE said.cmd \in {"get_reg", "set_reg"}
          <5>1. said.val = <<Laser!RawRegister, dev.reg[Laser!RawRegister]>>
            BY <3>1, <3>2, <3>3, <4>3 DEF LaserClaim, LaserTasks
          <5> QED  BY <1>2, <4>3, <5>1, LaserRegisters
        <4> QED  BY <4>1, <4>2, <4>3, LaserOthers
      <3> QED  BY <1>1, <3>3 DEF Laser!AnswersAreTrue, LaserClaim
    <2> QED  BY <1>1, <2>1, <2>2, <2>3, <2>4 DEF LaserTruth
  <1> QED  BY <1>4, <1>6 DEF LaserInv

LEMMA LaserStep == ASSUME LaserInv, Laser!Next PROVE LaserInv'
  <1>1. ASSUME NEW c, NEW a, Laser!Handle(c, a) PROVE LaserInv'
    <2>1. /\ DOMAIN ctl' = {"cmd", "arg", "step", "ctr", "exp", "res", "got"}
          /\ ctl'.step = "begin" /\ ctl'.ctr = 0 /\ ctl'.got = <<>>
      BY <1>1 DEF Laser!Handle, Laser!Idle
    <2>2. DOMAIN said' = {"id", "status", "code", "cmd", "val"} /\ said'.status = "none"
      BY <1>1 DEF Laser!Handle
    <2>3. wire' = wire /\ dev' = dev
      BY <1>1 DEF Laser!Handle
    <2>4. IsSeq(ctl'.got) /\ Len(ctl'.got) <= Segments /\ ctl'.ctr \in 0..(2^16 - 1)
      BY <2>1, SmallSeqs, DevicesAssumption
    <2> QED  BY <2>1, <2>2, <2>3, <2>4 DEF LaserInv, LaserTypes, LaserTruth, LaserSteps, Laser!AnswersAreTrue
  <1>2. ASSUME Laser!Begin PROVE LaserInv'
    <2>1. /\ ctl.step = "begin" /\ dev' = dev /\ LaserDevice(dev')
          /\ IsSeq(wire) /\ Len(wire) <= MaxLate /\ ctl.got = <<>> /\ said.status = "none"
      BY <1>2 DEF Laser!Begin, LaserInv, LaserTypes, LaserDevice
    <2>2. CASE wire' = wire /\ \E k : Laser!Failed(k)
      BY <2>1, <2>2, LaserFailed
    <2>3. CASE wire' = wire /\ ctl.cmd = "status" /\ Laser!Answer("done", 0, <<"ready">>)
      <3>1. LaserClaim(ctl.cmd, <<"ready">>, dev', said.id)
        <4>1. ctl.cmd \notin DOMAIN Laser!RegOf /\ ctl.cmd \notin LaserTasks
              /\ ctl.cmd \notin {"get_reg", "set_reg"}
          BY <2>3, LaserCommands
        <4> QED  BY <4>1, LaserOthers
      <3> QED  BY <2>1, <2>3, <3>1, LaserAnswered
    <2>4. CASE ctl' = [ctl EXCEPT !.step = "open"] /\ wire' = Laser!OnOpen(wire) /\ UNCHANGED said
      <3>1. (wire' = wire \/ wire' = <<>>) /\ (~LateAcross => wire' = <<>>)
        BY <2>4, LaserLine DEF Laser!OnOpen
      <3>2. IsSeq(wire') /\ Len(wire') <= MaxLate
        BY <2>1, <3>1, SmallSeqs, DevicesAssumption
      <3>3. /\ DOMAIN ctl' = DOMAIN ctl /\ ctl'.step = "open" /\ ctl'.ctr = ctl.ctr
            /\ ctl'.got = ctl.got
        BY <2>4 DEF LaserInv, LaserTypes
      <3>4. LaserTypes'
        BY <2>1, <2>4, <3>2, <3>3 DEF LaserInv, LaserTypes, LaserSteps
      <3> QED  BY <2>1, <2>4, <3>1, <3>3, <3>4 DEF LaserInv, LaserTruth, Laser!AnswersAreTrue
    <2> QED  BY <1>2, <2>2, <2>3, <2>4 DEF Laser!Begin, Laser!Failed
  <1>3. ASSUME Laser!TaskTimeout PROVE LaserInv'
    <2>1. /\ ctl.step = "poll" /\ Laser!Failed(2) /\ UNCHANGED <<wire, dev>>
      BY <1>3 DEF Laser!TaskTimeout
    <2>2. IsSeq(wire') /\ Len(wire') <= MaxLate /\ LaserDevice(dev')
      BY <2>1 DEF LaserInv, LaserTypes, LaserDevice
    <2> QED  BY <2>1, <2>2, LaserFailed
  <1> QED  BY <1>1, <1>2, <1>3, LaserReads, LaserWrites, LaserSimple, LaserClears, LaserSends, LaserWaits,
              LaserCollects, LaserScans, LaserEnds DEF Laser!Next

-----------------------------------------------------------------------------
(***************************************************************************)
(* The scan robot.  Its frame counter is not checked, but every frame      *)
(* under way is of this command, since it opened the port, so a record     *)
(* with a result is of the task that was started; the data of a scan are   *)
(* of it once it has ended, and stay while the segments are read.          *)
(***************************************************************************)
RobotSteps == {"idle", "begin", "open", "board", "poll", "size", "segment"}
RobotTasks == DOMAIN Robot!TaskOf
RobotScans == {"scan_line", "scan_frame"}
States == {"running", "ok", "failed"}

RobotDevice(d) ==
    /\ DOMAIN d = {"reg", "task", "data", "at"} /\ DOMAIN d.reg = Robot!Registers
    /\ DOMAIN d.task = {"ctr", "cmd", "state", "id"} /\ d.task.state \in States
    /\ d.task = [ctr |-> d.task.ctr, cmd |-> d.task.cmd, state |-> d.task.state, id |-> d.task.id]
    /\ d.at \in 0..(2^16 - 1)

CounterValues == 0..(Counters - 1)
SegmentCounts == 0..Segments
TryCounts == 0..(Tries - 1)
Angles == 0..18600

RobotFields ==
    /\ DOMAIN ctl = {"cmd", "arg", "step", "ctr", "exp", "seg", "try", "got"}
    /\ DOMAIN said = {"id", "status", "code", "cmd", "val"}
    /\ RobotDevice(dev)
    /\ ctl.step \in RobotSteps
    /\ IsSeq(wire) /\ Len(wire) <= MaxLate

RobotRanges ==
    /\ ctl.ctr \in CounterValues /\ ctl.seg \in SegmentCounts /\ ctl.try \in TryCounts
    /\ ctl.cmd \in RobotTasks => ctl.arg \in Angles

RobotGot ==
    /\ IsSeq(ctl.got) /\ Len(ctl.got) = ctl.seg
    /\ \A i \in 1..ctl.seg : ctl.got[i][1] = i - 1

RobotFlow ==
    /\ ctl.step # "idle" => said.status = "none"
    /\ ctl.cmd = "set_reg" => ctl.arg \in Robot!Registers
    /\ ctl.step \in {"begin", "open"} => ctl.ctr = 0
    /\ ctl.step = "board" => ctl.cmd = "get_temp"
    /\ ctl.step = "poll" => ctl.cmd \in RobotTasks
    /\ ctl.step \in {"size", "segment"} => ctl.cmd \in RobotScans \cup {"get_data"}
    /\ ctl.step \in {"begin", "open", "poll", "size"} => ctl.got = <<>> /\ ctl.seg = 0
    /\ ctl.step = "segment" => RobotGot

RobotTypes == RobotFields /\ RobotRanges /\ RobotFlow

\* The device's record is of the task of this command.
RobotTask(d) ==
    /\ d.task.id = said.id /\ d.task.cmd = Robot!TaskOf[ctl.cmd] /\ d.task.ctr = 0
    /\ d.at = ctl.arg
    /\ ctl.cmd \in RobotScans /\ d.task.state = "ok" => d.data = said.id

\* A record the device has sent: its result, if it has one, is that of the task.
RobotRecord(p) == p[3] # 0 => dev.task.state # "running" /\ p[3] = Robot!Result(dev.task)

\* The data of the scan are there to be read.
RobotEnded ==
    ctl.cmd \in RobotScans =>
        /\ RobotTask(dev) /\ dev.task.state # "running"
        /\ ctl.cmd = "scan_line" => dev.task.state = "ok"

\* What a done says of the device, by command; a task it tells of has ended.
RobotClaim(c, v, d, id) ==
    /\ c \in DOMAIN Robot!RegOf => v = <<Robot!RegOf[c], d.reg[Robot!RegOf[c]]>>
    /\ c \in {"get_reg", "set_reg", "set_mode", "set_addr"} => v[2] = d.reg[v[1]]
    /\ c = "get_temp" => v = <<Robot!McuTemperature, d.reg[Robot!McuTemperature],
                               Robot!BoardTemperature, d.reg[Robot!BoardTemperature]>>
    /\ c \in {"move", "get_distance_at"} \cup RobotScans => d.task.state # "running"
    /\ c = "move" => d.at = v[1] /\ d.task = [ctr |-> 0, cmd |-> "Move", state |-> "ok", id |-> id]
    /\ c = "get_distance_at" => d.at = v[1] /\ d.task.id = id
    /\ c \in RobotScans =>
          /\ d.task.id = id
          /\ v = [i \in 1..Segments |-> <<i - 1, d.data>>]
          /\ d.task.state = "ok" => d.data = id
          /\ c = "scan_line" => d.task.state = "ok"
    /\ c = "get_data" => [i \in DOMAIN v |-> v[i][1]] = [i \in 1..Segments |-> i - 1]

RobotTruth ==
    /\ ctl.step \in {"open", "board"} => wire = <<>>
    /\ ctl.step = "board" => ctl.got = <<Robot!McuTemperature, dev.reg[Robot!McuTemperature]>>
    /\ ctl.step = "poll" =>
          /\ RobotTask(dev)
          /\ \A f \in Elements(wire) : "p" \in DOMAIN f => f.cmd = "Query" /\ RobotRecord(f.p)
    /\ ctl.step \in {"size", "segment"} => RobotEnded
    /\ ctl.step = "size" =>
          \A f \in Elements(wire) : "p" \in DOMAIN f => f.cmd \in {"Query", "RegRead"}
    /\ ctl.step = "segment" /\ ctl.cmd \in RobotScans =>
          /\ \A i \in 1..ctl.seg : ctl.got[i] = <<i - 1, dev.data>>
          /\ \A f \in Elements(wire) :
                "p" \in DOMAIN f /\ f.cmd = "GetData" => f.p = <<f.p[1], dev.data>>
    /\ said.status = "done" => RobotClaim(said.cmd, said.val, dev, said.id)

RobotInv == RobotTypes /\ (~LateAcross => RobotTruth)

LEMMA RobotCommands ==
    /\ RobotTasks = {"calib", "calib_x", "calib_y", "move", "get_distance_at", "scan_line", "scan_frame"}
    /\ DOMAIN Robot!RegOf = {"get_mode", "get_state", "get_switch_x", "get_switch_y",
          "get_calib_x", "get_calib_y", "get_angles", "get_version"}
    /\ \A c \in RobotTasks : Robot!TaskOf[c] \in Robot!TaskIds
    /\ Robot!TaskIds = {"Calibration", "Move", "MoveDist", "ScanLine", "ScanFrame"}
    /\ Robot!TaskOf["move"] = "Move" /\ Robot!TaskOf["get_distance_at"] = "MoveDist"
    /\ Robot!TaskOf["scan_line"] = "ScanLine" /\ Robot!TaskOf["scan_frame"] = "ScanFrame"
    /\ Robot!Scans = {"ScanLine", "ScanFrame"}
    /\ \A c \in RobotTasks : Robot!TaskOf[c] \in Robot!Scans <=> c \in RobotScans
    /\ \A c \in DOMAIN Robot!RegOf : Robot!RegOf[c] \in Robot!Registers
    /\ {13, Robot!SegmentSize, Robot!McuTemperature, Robot!BoardTemperature} \subseteq Robot!Registers
    /\ DOMAIN Robot!Written = {"set_mode", "set_addr"}
    /\ Robot!Written["set_mode"] \in Robot!Registers /\ Robot!Written["set_addr"] \in Robot!Registers
  <1>1. RobotTasks = {"calib", "calib_x", "calib_y", "move", "get_distance_at", "scan_line", "scan_frame"}
    BY DEF RobotTasks, Robot!TaskOf
  <1>2. /\ Robot!TaskOf["calib"] = "Calibration" /\ Robot!TaskOf["calib_x"] = "Calibration"
        /\ Robot!TaskOf["calib_y"] = "Calibration"
        /\ Robot!TaskOf["move"] = "Move" /\ Robot!TaskOf["get_distance_at"] = "MoveDist"
        /\ Robot!TaskOf["scan_line"] = "ScanLine" /\ Robot!TaskOf["scan_frame"] = "ScanFrame"
    BY DEF Robot!TaskOf
  <1>3. DOMAIN Robot!RegOf = {"get_mode", "get_state", "get_switch_x", "get_switch_y",
          "get_calib_x", "get_calib_y", "get_angles", "get_version"}
        /\ Robot!RegOf["get_mode"] = 0
    BY DEF Robot!RegOf
  <1>4. /\ \A c \in DOMAIN Robot!RegOf : Robot!RegOf[c] \in Robot!Registers
        /\ {13, Robot!SegmentSize, Robot!McuTemperature, Robot!BoardTemperature} \subseteq Robot!Registers
    BY DEF Robot!Registers
  <1>5. /\ DOMAIN Robot!Written = {"set_mode", "set_addr"}
        /\ Robot!Written["set_mode"] = 0 /\ Robot!Written["set_addr"] = 13
    BY DEF Robot!Written
  <1>6. 0 \in Robot!Registers
    BY <1>3, <1>4
  <1>7. /\ Robot!TaskIds = {"Calibration", "Move", "MoveDist", "ScanLine", "ScanFrame"}
        /\ Robot!Scans = {"ScanLine", "ScanFrame"}
    BY DEF Robot!TaskIds, Robot!Scans
  <1>8. \A c \in RobotTasks : Robot!TaskOf[c] \in Robot!TaskIds
                              /\ (Robot!TaskOf[c] \in Robot!Scans <=> c \in RobotScans)
    BY <1>1, <1>2, <1>7 DEF RobotScans
  <1> QED  BY <1>1, <1>2, <1>3, <1>4, <1>5, <1>6, <1>7, <1>8

LEMMA RobotInvHolds ==
    ASSUME RobotInv PROVE Robot!TypeOK /\ (~LateAcross => Robot!AnswersAreTrue)
  <1>1. Robot!TypeOK
    BY DEF RobotInv, RobotTypes, RobotFields, RobotRanges, RobotDevice, RobotSteps, Robot!TypeOK,
           CounterValues, SegmentCounts, TryCounts
  <1>2. ASSUME ~LateAcross PROVE Robot!AnswersAreTrue
    <2>1. said.status = "done" => RobotClaim(said.cmd, said.val, dev, said.id)
      BY <1>2 DEF RobotInv, RobotTruth
    <2> QED  BY <2>1 DEF Robot!AnswersAreTrue, RobotClaim, RobotScans
  <1> QED  BY <1>1, <1>2

LEMMA RobotLine ==
    /\ Robot!Quiet = <<>>
    /\ Robot!NoFrame = Line!NoFrame /\ Robot!BadFrame = Line!BadFrame
    /\ \A l, s : Robot!Exchange(l, s) = Line!Exchange(l, s)
  BY DEF Robot!Quiet, Robot!NoFrame, Line!NoFrame, Robot!BadFrame, Line!BadFrame,
         Robot!Exchange, Line!Exchange, Robot!Reads, Line!Reads

LEMMA RobotIdle ==
    /\ DOMAIN Robot!Idle = {"cmd", "arg", "step", "ctr", "exp", "seg", "try", "got"}
    /\ Robot!Idle.step = "idle" /\ Robot!Idle.ctr = 0 /\ Robot!Idle.seg = 0 /\ Robot!Idle.try = 0
    /\ Robot!Idle.got = <<>> /\ Robot!Idle.cmd = "none"
    /\ 0 \in CounterValues /\ 0 \in SegmentCounts /\ 0 \in TryCounts
  <1>1. Counters \in Nat \ {0} /\ Tries \in Nat \ {0} /\ Segments \in Nat
    BY DevicesAssumption
  <1>2. 0 \in CounterValues /\ 0 \in SegmentCounts /\ 0 \in TryCounts
    BY <1>1 DEF CounterValues, SegmentCounts, TryCounts
  <1> QED  BY <1>2 DEF Robot!Idle

LEMMA RobotStarts == ASSUME Robot!Init PROVE RobotInv
  <1>1. /\ DOMAIN ctl = {"cmd", "arg", "step", "ctr", "exp", "seg", "try", "got"}
        /\ ctl.step = "idle" /\ ctl.ctr \in CounterValues /\ ctl.seg \in SegmentCounts
        /\ ctl.try \in TryCounts /\ ctl.cmd = "none"
    BY RobotIdle DEF Robot!Init
  <1>2. RobotDevice(dev)
    <2>1. PICK n \in Nat : n = 2^16 /\ n > 0
      OBVIOUS
    <2>2. 0 \in 0..(n - 1)
      BY <2>1
    <2> QED  BY <2>1, <2>2 DEF Robot!Init, Robot!NoTask, RobotDevice, States
  <1>3. DOMAIN said = {"id", "status", "code", "cmd", "val"} /\ said.status = "none"
    BY DEF Robot!Init
  <1>4. IsSeq(wire) /\ Len(wire) <= MaxLate
    <2>1. wire = <<>> /\ MaxLate \in Nat
      BY RobotLine, DevicesAssumption DEF Robot!Init
    <2> QED  BY <2>1, SmallSeqs
  <1>5. "none" \notin RobotTasks
    BY RobotCommands
  <1>6. RobotTypes
    <2>1. RobotFields
      BY <1>1, <1>2, <1>3, <1>4 DEF RobotFields, RobotSteps
    <2>2. RobotRanges
      BY <1>1, <1>5 DEF RobotRanges
    <2>3. RobotFlow
      BY <1>1 DEF RobotFlow
    <2> QED  BY <2>1, <2>2, <2>3 DEF RobotTypes
  <1>7. RobotTruth
    BY <1>1, <1>3 DEF RobotTruth
  <1> QED  BY <1>6, <1>7 DEF RobotInv

RobotAsk(ch, cmd, p) == [ch |-> ch, ctr |-> ctl.ctr, cmd |-> cmd, p |-> p]
RobotReply(ch, cmd, p) ==
    [frame |-> ch, ctr |-> ctl.ctr, cmd |-> cmd, p |-> Robot!Payload(dev, RobotAsk(ch, cmd, p))]

LEMMA RobotServed ==
    ASSUME RobotInv, NEW q, q.cmd \in Robot!TaskIds => q.p[1] \in 0..(2^16 - 1)
    PROVE  /\ RobotDevice(dev) /\ RobotDevice(Robot!Served(dev, q))
           /\ q.cmd \notin Robot!TaskIds \cup {"RegWrite"} => Robot!Served(dev, q) = dev
  <1>1. RobotDevice(dev)
    BY DEF RobotInv, RobotTypes, RobotFields
  <1>2. "RegWrite" \notin Robot!TaskIds
    BY RobotCommands
  <1>3. CASE q.cmd = "RegWrite"
    <2>1. Robot!Served(dev, q) = [dev EXCEPT !.reg[q.p[1]] = q.p[2]]
      BY <1>2, <1>3 DEF Robot!Served
    <2> QED  BY <1>1, <1>3, <2>1 DEF RobotDevice
  <1>4. CASE q.cmd \in Robot!TaskIds
    <2>1. Robot!Served(dev, q) =
           [dev EXCEPT !.task = [ctr |-> q.ctr, cmd |-> q.cmd, state |-> "running", id |-> said.id],
                       !.at = q.p[1]]
      BY <1>2, <1>4 DEF Robot!Served
    <2> QED  BY <1>1, <1>4, <2>1 DEF RobotDevice, States
  <1>5. CASE q.cmd \notin Robot!TaskIds \cup {"RegWrite"}
    <2>1. Robot!Served(dev, q) = dev
      BY <1>5 DEF Robot!Served
    <2> QED  BY <1>1, <2>1
  <1> QED  BY <1>1, <1>3, <1>4, <1>5

LEMMA RobotSent ==
    ASSUME IsSeq(wire), NEW ch, NEW cmd, NEW p, NEW r \in Robot!sendAndReceive(ch, cmd, p)
    PROVE  /\ IsSeq(r.line) /\ Len(r.line) <= MaxLate
           /\ Elements(r.line) \subseteq Elements(wire) \cup {RobotReply(ch, cmd, p)}
           /\ r.d \in {dev, Robot!Served(dev, RobotAsk(ch, cmd, p))}
           /\ r.ok => /\ r.got \in Elements(wire) \cup {RobotReply(ch, cmd, p)}
                      /\ "p" \in DOMAIN r.got /\ r.got.cmd = cmd
           /\ r.ok /\ wire = <<>> => /\ r.line = <<>> /\ r.got = RobotReply(ch, cmd, p)
                                     /\ r.d = Robot!Served(dev, RobotAsk(ch, cmd, p))
  <1> DEFINE q == RobotAsk(ch, cmd, p)
             f == RobotReply(ch, cmd, p)
             Way(d, o) == [d |-> d, line |-> o.line, got |-> o.got, ok |-> Robot!Accepts(q, o.got)]
  <1>1. PICK o, d : /\ r = Way(d, o)
                    /\ \/ d = Robot!Served(dev, q) /\ o \in Robot!Exchange(wire, <<f>>)
                       \/ d = dev /\ o \in Robot!Exchange(wire, <<>>)
    <2>1. PICK x \in {[d |-> dev, r |-> <<>>], [d |-> Robot!Served(dev, q), r |-> <<f>>]} :
             r \in {[d |-> x.d, line |-> o.line, got |-> o.got, ok |-> Robot!Accepts(q, o.got)] :
                       o \in Robot!Exchange(wire, x.r)}
      BY DEF Robot!sendAndReceive, RobotAsk, RobotReply
    <2>2. PICK o \in Robot!Exchange(wire, x.r) : r = Way(x.d, o)
      BY <2>1
    <2>3. \/ x.d = dev /\ x.r = <<>>
          \/ x.d = Robot!Served(dev, q) /\ x.r = <<f>>
      <3> HIDE DEF f, q
      <3> QED  BY <2>1
    <2> HIDE DEF f, q, Way
    <2> QED  BY <2>2, <2>3
  <1>2. r.line = o.line /\ r.got = o.got /\ r.d = d /\ r.ok = Robot!Accepts(q, o.got)
    BY <1>1
  <1>3. r.ok => "p" \in DOMAIN r.got /\ r.got.cmd = cmd
    BY <1>2 DEF Robot!Accepts, RobotAsk
  <1>4. Elements(<<>>) = {}
    BY DEF Elements
  <1> HIDE DEF f, q, Way
  <1>5. CASE d = dev /\ o \in Robot!Exchange(wire, <<>>)
    <2>1. o \in Line!Exchange(wire, <<>>)
      BY <1>5, RobotLine
    <2>2. /\ IsSeq(o.line) /\ Len(o.line) <= MaxLate /\ Elements(o.line) \subseteq Elements(wire)
          /\ o.got \in Elements(wire) \cup {Line!NoFrame, Line!BadFrame}
      BY <2>1, LostAny
    <2>3. r.ok => o.got \in Elements(wire)
      BY <1>2, <1>3, <2>2, NoPayload DEF Silences
    <2> QED  BY <1>2, <1>3, <1>4, <1>5, <2>2, <2>3 DEF f, q
  <1>6. CASE d = Robot!Served(dev, q) /\ o \in Robot!Exchange(wire, <<f>>)
    <2>1. o \in Line!Exchange(wire, <<f>>)
      BY <1>6, RobotLine
    <2>2. /\ IsSeq(o.line) /\ Len(o.line) <= MaxLate /\ Elements(o.line) \subseteq Elements(wire) \cup {f}
          /\ o.got \in Elements(wire) \cup {f, Line!NoFrame, Line!BadFrame}
          /\ (o.got # Line!NoFrame /\ wire = <<>> => o.line = <<>>)
      BY <2>1, ExchangeAny
    <2>3. r.ok => o.got \in Elements(wire) \cup {f} /\ o.got # Line!NoFrame
      BY <1>2, <1>3, <2>2, NoPayload DEF Silences
    <2> QED  BY <1>2, <1>3, <1>4, <1>6, <2>2, <2>3 DEF f, q
  <1> QED  BY <1>1, <1>5, <1>6

LEMMA RobotExchange ==
    ASSUME RobotInv, NEW ch, NEW cmd, NEW p, cmd \in Robot!TaskIds => p[1] \in 0..(2^16 - 1),
           NEW r \in Robot!sendAndReceive(ch, cmd, p), dev' = r.d, wire' = r.line
    PROVE  /\ IsSeq(wire') /\ Len(wire') <= MaxLate /\ RobotDevice(dev')
           /\ cmd \notin Robot!TaskIds \cup {"RegWrite"} => dev' = dev
           /\ Elements(wire') \subseteq Elements(wire) \cup {RobotReply(ch, cmd, p)}
           /\ r.ok => /\ r.got \in Elements(wire) \cup {RobotReply(ch, cmd, p)}
                      /\ "p" \in DOMAIN r.got /\ r.got.cmd = cmd
           /\ r.ok /\ wire = <<>> => /\ wire' = <<>> /\ r.got = RobotReply(ch, cmd, p)
                                     /\ r.got.p = Robot!Payload(dev, RobotAsk(ch, cmd, p))
                                     /\ dev' = Robot!Served(dev, RobotAsk(ch, cmd, p))
  <1> DEFINE q == RobotAsk(ch, cmd, p)
  <1>1. IsSeq(wire)
    BY DEF RobotInv, RobotTypes, RobotFields
  <1>2. q.cmd = cmd /\ q.p = p
    BY DEF RobotAsk
  <1>3. RobotReply(ch, cmd, p).p = Robot!Payload(dev, q)
    BY DEF RobotReply
  <1> HIDE DEF q
  <1>4. /\ RobotDevice(dev) /\ RobotDevice(Robot!Served(dev, q))
        /\ cmd \notin Robot!TaskIds \cup {"RegWrite"} => Robot!Served(dev, q) = dev
    BY <1>2, RobotServed
  <1>5. /\ IsSeq(r.line) /\ Len(r.line) <= MaxLate
        /\ Elements(r.line) \subseteq Elements(wire) \cup {RobotReply(ch, cmd, p)}
        /\ r.d \in {dev, Robot!Served(dev, q)}
        /\ r.ok => /\ r.got \in Elements(wire) \cup {RobotReply(ch, cmd, p)}
                   /\ "p" \in DOMAIN r.got /\ r.got.cmd = cmd
        /\ r.ok /\ wire = <<>> => /\ r.line = <<>> /\ r.got = RobotReply(ch, cmd, p)
                                  /\ r.d = Robot!Served(dev, q)
    BY <1>1, RobotSent DEF q
  <1>6. wire' = r.line /\ dev' = r.d
    OBVIOUS
  <1>7. r.ok /\ wire = <<>> => r.got.p = Robot!Payload(dev, q)
    BY <1>3, <1>5
  <1> QED  BY <1>4, <1>5, <1>6, <1>7 DEF q

LEMMA RobotAnswered ==
    ASSUME RobotInv, NEW s, NEW c, NEW v, Robot!Answer(s, c, v), ctl.step # "idle",
           RobotDevice(dev'), IsSeq(wire'), Len(wire') <= MaxLate,
           s = "done" /\ ~LateAcross => RobotClaim(ctl.cmd, v, dev', said.id)
    PROVE  RobotInv'
  <1>1. /\ DOMAIN ctl' = {"cmd", "arg", "step", "ctr", "exp", "seg", "try", "got"}
        /\ ctl'.step = "idle" /\ ctl'.ctr \in CounterValues /\ ctl'.seg \in SegmentCounts
        /\ ctl'.try \in TryCounts /\ ctl'.cmd = "none"
    BY RobotIdle DEF Robot!Answer
  <1>2. /\ DOMAIN said' = DOMAIN said /\ said'.status = s /\ said'.val = v /\ said'.cmd = ctl.cmd
        /\ said'.id = said.id
    BY DEF Robot!Answer, RobotInv, RobotTypes
  <1>3. "none" \notin RobotTasks
    BY RobotCommands
  <1>4. RobotTypes'
    <2>1. RobotFields'
      BY <1>1, <1>2 DEF RobotInv, RobotTypes, RobotFields, RobotSteps, RobotDevice
    <2>2. RobotRanges'
      BY <1>1, <1>3 DEF RobotRanges, RobotTasks, Robot!TaskOf
    <2>3. RobotFlow'
      BY <1>1 DEF RobotFlow
    <2> QED  BY <2>1, <2>2, <2>3 DEF RobotTypes
  <1>5. ~LateAcross => (said'.status = "done" => RobotClaim(said'.cmd, said'.val, dev', said'.id))
    BY <1>2
  <1>6. ~LateAcross => (said.status = "done" => RobotClaim(said.cmd, said.val, dev, said.id))'
    BY <1>5 DEF RobotClaim
  <1>7. ~LateAcross => RobotTruth'
    BY <1>1, <1>6 DEF RobotTruth
  <1> QED  BY <1>4, <1>7 DEF RobotInv

LEMMA RobotFailed ==
    ASSUME RobotInv, NEW k, Robot!Failed(k), ctl.step # "idle",
           RobotDevice(dev'), IsSeq(wire'), Len(wire') <= MaxLate
    PROVE  RobotInv'
  BY RobotAnswered DEF Robot!Failed

LEMMA RobotRegisters ==
    ASSUME NEW c, NEW v, NEW d, NEW id, NEW x, v[1] = x, v[2] = d.reg[x],
           \/ c \in DOMAIN Robot!RegOf /\ x = Robot!RegOf[c] /\ v = <<x, d.reg[x]>>
           \/ c \in {"get_reg", "set_reg", "set_mode", "set_addr"}
    PROVE  RobotClaim(c, v, d, id)
  <1>1. {"get_reg", "set_reg", "set_mode", "set_addr"} \cap DOMAIN Robot!RegOf = {}
    BY RobotCommands
  <1>2. CASE c \in DOMAIN Robot!RegOf /\ x = Robot!RegOf[c] /\ v = <<x, d.reg[x]>>
    BY <1>1, <1>2, RobotCommands DEF RobotClaim, RobotScans
  <1>3. CASE c \in {"get_reg", "set_reg", "set_mode", "set_addr"}
    BY <1>1, <1>3 DEF RobotClaim, RobotScans
  <1> QED  BY <1>2, <1>3

RobotUntold == {"test", "get_distance", "query", "interrupt_test", "scan_progress", "scan_cancel",
                "get_addr", "status", "calib", "calib_x", "calib_y"}

LEMMA RobotOthers ==
    ASSUME NEW c \in RobotUntold, NEW v, NEW d, NEW id
    PROVE  RobotClaim(c, v, d, id)
  BY RobotCommands DEF RobotClaim, RobotScans, RobotUntold

\* What a reply of a register holds, to the first exchange of a session.
LEMMA RobotRead ==
    ASSUME RobotInv, NEW x, NEW r \in Robot!sendAndReceive("main", "RegRead", <<x, 100>>),
           dev' = r.d, wire' = r.line
    PROVE  /\ IsSeq(wire') /\ Len(wire') <= MaxLate /\ RobotDevice(dev') /\ dev' = dev
           /\ Elements(wire') \subseteq Elements(wire) \cup {RobotReply("main", "RegRead", <<x, 100>>)}
           /\ r.ok /\ wire = <<>> => wire' = <<>> /\ r.got.p = <<x, dev.reg[x]>>
  <1> DEFINE p == <<x, 100>>
             q == RobotAsk("main", "RegRead", p)
  <1>1. p[1] = x /\ q.cmd = "RegRead" /\ q.p = p
    BY DEF RobotAsk
  <1>2. "RegRead" \notin Robot!TaskIds \cup {"RegWrite"}
    BY RobotCommands
  <1> HIDE DEF p
  <1>3. /\ IsSeq(wire') /\ Len(wire') <= MaxLate /\ RobotDevice(dev') /\ dev' = dev
        /\ Elements(wire') \subseteq Elements(wire) \cup {RobotReply("main", "RegRead", p)}
        /\ r.ok /\ wire = <<>> => wire' = <<>> /\ r.got.p = Robot!Payload(dev, q)
    <2>1. r \in Robot!sendAndReceive("main", "RegRead", p)
      BY DEF p
    <2> QED  BY <1>2, <2>1, RobotExchange
  <1> HIDE DEF q
  <1>4. Robot!Payload(dev, q) = <<x, dev.reg[x]>>
    BY <1>1 DEF Robot!Payload
  <1> QED  BY <1>3, <1>4 DEF p

LEMMA RobotReads == ASSUME RobotInv, Robot!ReadRegister \/ Robot!handleRegRead PROVE RobotInv'
  <1>1. PICK x : \E r \in Robot!sendAndReceive("main", "RegRead", <<x, 100>>) :
           /\ ctl.step = "open"
           /\ \/ ctl.cmd \in DOMAIN Robot!RegOf /\ x = Robot!RegOf[ctl.cmd]
              \/ ctl.cmd = "get_reg"
           /\ dev' = r.d /\ wire' = r.line
           /\ \/ r.ok /\ Robot!Answer("done", 0, r.got.p)
              \/ \E k : Robot!Failed(k)
    <2>1. CASE Robot!ReadRegister
      BY <2>1 DEF Robot!ReadRegister, Robot!Receive
    <2>2. CASE Robot!handleRegRead
      <3> DEFINE x == IF ctl.cmd = "get_reg" THEN ctl.arg ELSE Robot!RegOf.get_version
      <3>1. \/ ctl.cmd \in DOMAIN Robot!RegOf /\ x = Robot!RegOf[ctl.cmd]
            \/ ctl.cmd = "get_reg"
        BY <2>2, RobotCommands DEF Robot!handleRegRead
      <3>2. \E r \in Robot!sendAndReceive("main", "RegRead", <<x, 100>>) :
              /\ ctl.step = "open" /\ dev' = r.d /\ wire' = r.line
              /\ \/ r.ok /\ Robot!Answer("done", 0, r.got.p)
                 \/ \E k : Robot!Failed(k)
        BY <2>2 DEF Robot!handleRegRead, Robot!Receive
      <3> HIDE DEF x
      <3> QED  BY <3>1, <3>2
    <2> QED  BY <2>1, <2>2
  <1>2. PICK r \in Robot!sendAndReceive("main", "RegRead", <<x, 100>>) :
           /\ ctl.step = "open"
           /\ \/ ctl.cmd \in DOMAIN Robot!RegOf /\ x = Robot!RegOf[ctl.cmd]
              \/ ctl.cmd = "get_reg"
           /\ dev' = r.d /\ wire' = r.line
           /\ \/ r.ok /\ Robot!Answer("done", 0, r.got.p)
              \/ \E k : Robot!Failed(k)
    BY <1>1
  <1>3. /\ IsSeq(wire') /\ Len(wire') <= MaxLate /\ RobotDevice(dev') /\ dev' = dev
        /\ r.ok /\ wire = <<>> => r.got.p = <<x, dev.reg[x]>>
    BY <1>2, RobotRead
  <1>4. CASE \E k : Robot!Failed(k)
    BY <1>2, <1>3, <1>4, RobotFailed
  <1>5. CASE r.ok /\ Robot!Answer("done", 0, r.got.p)
    <2>1. ~LateAcross => r.got.p = <<x, dev.reg[x]>>
      BY <1>2, <1>3, <1>5 DEF RobotInv, RobotTruth
    <2>2. ~LateAcross => RobotClaim(ctl.cmd, r.got.p, dev', said.id)
      BY <1>2, <1>3, <2>1, RobotRegisters
    <2> QED  BY <1>2, <1>3, <1>5, <2>2, RobotAnswered
  <1> QED  BY <1>2, <1>4, <1>5

LEMMA RobotWrites == ASSUME RobotInv, Robot!WriteRegister PROVE RobotInv'
  <1> DEFINE x == IF ctl.cmd = "set_reg" THEN ctl.arg ELSE Robot!Written[ctl.cmd]
             y == IF ctl.cmd = "set_reg" THEN 1 ELSE ctl.arg
             p == <<x, y>>
             q == RobotAsk("main", "RegWrite", p)
  <1>1. ctl.step = "open" /\ ctl.cmd \in {"set_mode", "set_addr", "set_reg"}
    BY DEF Robot!WriteRegister
  <1>2. PICK r \in Robot!sendAndReceive("main", "RegWrite", p) :
           /\ dev' = r.d /\ wire' = r.line
           /\ \/ r.ok /\ Robot!Answer("done", 0, <<x, r.got.p[2]>>)
              \/ \E k : Robot!Failed(k)
    BY DEF Robot!WriteRegister, Robot!Receive
  <1>3. x \in Robot!Registers
    BY <1>1, RobotCommands DEF RobotInv, RobotTypes, RobotFlow
  <1>4. p[1] = x /\ p[2] = y /\ q.cmd = "RegWrite" /\ q.p = p
    BY DEF RobotAsk
  <1> HIDE DEF x, y, p
  <1>5. "RegWrite" \notin Robot!TaskIds
    BY RobotCommands
  <1>6. /\ IsSeq(wire') /\ Len(wire') <= MaxLate /\ RobotDevice(dev')
        /\ r.ok /\ wire = <<>> => /\ r.got.p = Robot!Payload(dev, q)
                                  /\ dev' = Robot!Served(dev, q)
    BY <1>2, <1>5, RobotExchange
  <1> HIDE DEF q
  <1>7. Robot!Payload(dev, q) = p
    BY <1>4 DEF Robot!Payload
  <1>8. Robot!Served(dev, q).reg[x] = y
    <2>1. Robot!Served(dev, q) = [dev EXCEPT !.reg[q.p[1]] = q.p[2]]
      BY <1>4, <1>5 DEF Robot!Served
    <2> QED  BY <1>3, <1>4, <2>1 DEF RobotInv, RobotTypes, RobotFields, RobotDevice
  <1>9. CASE \E k : Robot!Failed(k)
    BY <1>1, <1>6, <1>9, RobotFailed
  <1>10. CASE r.ok /\ Robot!Answer("done", 0, <<x, r.got.p[2]>>)
    <2>1. ~LateAcross => r.got.p[2] = dev'.reg[x]
      BY <1>1, <1>4, <1>6, <1>7, <1>8, <1>10 DEF RobotInv, RobotTruth
    <2>a. PICK v : v = <<x, r.got.p[2]>>
      OBVIOUS
    <2>2. v = <<x, r.got.p[2]>> /\ v[1] = x /\ v[2] = r.got.p[2]
      BY <2>a
    <2>3. ~LateAcross => RobotClaim(ctl.cmd, v, dev', said.id)
      BY <1>1, <2>1, <2>2, RobotRegisters
    <2> QED  BY <1>1, <1>6, <1>10, <2>2, <2>3, RobotAnswered
  <1> QED  BY <1>2, <1>9, <1>10

LEMMA RobotSimple ==
    ASSUME RobotInv, Robot!Single \/ Robot!GetAddr \/ Robot!InvalidMode
    PROVE  RobotInv'
  <1>1. CASE Robot!InvalidMode
    <2>1. ctl.step = "open" /\ Robot!Failed(2) /\ UNCHANGED <<wire, dev>>
      BY <1>1 DEF Robot!InvalidMode
    <2>2. IsSeq(wire') /\ Len(wire') <= MaxLate /\ RobotDevice(dev')
      BY <2>1 DEF RobotInv, RobotTypes, RobotFields, RobotDevice
    <2> QED  BY <2>1, <2>2, RobotFailed
  <1>2. CASE Robot!Single \/ Robot!GetAddr
    <2>1. PICK ch, cmd, p :
             /\ cmd \notin Robot!TaskIds \cup {"RegWrite"}
             /\ ctl.step = "open" /\ ctl.cmd \in RobotUntold
             /\ \E r \in Robot!sendAndReceive(ch, cmd, p) :
                  /\ dev' = r.d /\ wire' = r.line
                  /\ (\E v : Robot!Answer("done", 0, v)) \/ (\E k : Robot!Failed(k))
      <3>1. CASE Robot!GetAddr
        <4>1. "TestCom" \notin Robot!TaskIds \cup {"RegWrite"} /\ "get_addr" \in RobotUntold
          BY RobotCommands DEF RobotUntold
        <4> QED  BY <3>1, <4>1 DEF Robot!GetAddr, Robot!Receive
      <3>2. CASE Robot!Single
        <4> DEFINE names == [test |-> "TestCom", get_distance |-> "GetDistance", query |-> "Query",
                             interrupt_test |-> "Test", scan_progress |-> "ScanProgress",
                             scan_cancel |-> "ScanCancel"]
                   ch == IF ctl.cmd \in {"interrupt_test", "scan_progress", "scan_cancel"}
                         THEN "insert" ELSE "main"
        <4>1. /\ ctl.step = "open" /\ ctl.cmd \in DOMAIN names
              /\ \E r \in Robot!sendAndReceive(ch, names[ctl.cmd], <<ctl.arg>>) :
                   /\ dev' = r.d /\ wire' = r.line
                   /\ (\E v : Robot!Answer("done", 0, v)) \/ (\E k : Robot!Failed(k))
          BY <3>2 DEF Robot!Single, Robot!Receive
        <4>2. DOMAIN names = {"test", "get_distance", "query", "interrupt_test", "scan_progress", "scan_cancel"}
          OBVIOUS
        <4>3. ctl.cmd \in RobotUntold
          BY <4>1, <4>2 DEF RobotUntold
        <4>4. names[ctl.cmd] \in {"TestCom", "GetDistance", "Query", "Test", "ScanProgress", "ScanCancel"}
          BY <4>1, <4>2
        <4>5. names[ctl.cmd] \notin Robot!TaskIds \cup {"RegWrite"}
          BY <4>4, RobotCommands
        <4> HIDE DEF names, ch
        <4> QED  BY <4>1, <4>3, <4>5
      <3> QED  BY <1>2, <3>1, <3>2
    <2>2. PICK r \in Robot!sendAndReceive(ch, cmd, p) :
             /\ dev' = r.d /\ wire' = r.line
             /\ (\E v : Robot!Answer("done", 0, v)) \/ (\E k : Robot!Failed(k))
      BY <2>1
    <2>3. IsSeq(wire') /\ Len(wire') <= MaxLate /\ RobotDevice(dev')
      BY <2>1, <2>2, RobotExchange
    <2>4. \A v : RobotClaim(ctl.cmd, v, dev', said.id)
      BY <2>1, RobotOthers
    <2>5. CASE \E k : Robot!Failed(k)
      BY <2>1, <2>3, <2>5, RobotFailed
    <2>6. CASE \E v : Robot!Answer("done", 0, v)
      BY <2>1, <2>3, <2>4, <2>6, RobotAnswered
    <2> QED  BY <2>2, <2>5, <2>6
  <1> QED  BY <1>1, <1>2

\* The session goes on: which of its fields it may change.
LEMMA RobotNext ==
    ASSUME RobotInv PROVE Robot!nextCounter \in CounterValues
  <1>1. Counters \in Nat /\ Counters > 0
    BY DevicesAssumption
  <1>2. ctl.ctr \in CounterValues
    BY DEF RobotInv, RobotTypes, RobotRanges
  <1>3. ctl.ctr + 1 \in Nat
    BY <1>1, <1>2 DEF CounterValues
  <1> QED  BY <1>1, <1>3, ModRange DEF Robot!nextCounter, CounterValues

LEMMA Pairs ==
    ASSUME NEW x1, NEW y1, NEW x2, NEW y2
    PROVE  <<x1, y1>> \o <<x2, y2>> = <<x1, y1, x2, y2>>
  <1>1. PICK s, t, u : s = <<x1, y1>> /\ t = <<x2, y2>> /\ u = <<x1, y1, x2, y2>>
    OBVIOUS
  <1>2. /\ Len(s) = 2 /\ s[1] = x1 /\ s[2] = y1
        /\ Len(t) = 2 /\ t[1] = x2 /\ t[2] = y2
        /\ Len(u) = 4 /\ u[1] = x1 /\ u[2] = y1 /\ u[3] = x2 /\ u[4] = y2
    BY <1>1
  <1>3. IsSeq(s) /\ IsSeq(t) /\ IsSeq(u)
    <2> DEFINE S == {x1, y1, x2, y2}
    <2>1. s \in Seq(S) /\ t \in Seq(S) /\ u \in Seq(S)
      BY <1>1
    <2> HIDE DEF S
    <2> QED  BY <2>1, SeqIsSeq
  <1>4. PICK v : v = s \o t
    OBVIOUS
  <1>5. /\ IsSeq(v) /\ Len(v) = 4
        /\ \A i \in 1..2 : v[i] = s[i]
        /\ \A i \in 1..2 : v[2 + i] = t[i]
    <2>1. /\ IsSeq(s \o t) /\ Len(s \o t) = Len(s) + Len(t)
          /\ \A i \in 1..Len(s) : (s \o t)[i] = s[i]
          /\ \A i \in 1..Len(t) : (s \o t)[Len(s) + i] = t[i]
      BY <1>3, ConcatAny
    <2> QED  BY <1>2, <1>4, <2>1
  <1>6. v[1] = x1 /\ v[2] = y1 /\ v[2 + 1] = x2 /\ v[2 + 2] = y2
    BY <1>2, <1>5
  <1>7. \A i \in 1..4 : v[i] = u[i]
    BY <1>2, <1>6
  <1>8. v = [i \in 1..4 |-> v[i]] /\ u = [i \in 1..4 |-> u[i]]
    BY <1>2, <1>3, <1>5 DEF IsSeq
  <1>9. v = u
    BY <1>7, <1>8
  <1> QED  BY <1>1, <1>4, <1>9

\* A session that keeps its command keeps what is known of its argument.
LEMMA RobotKeeps ==
    ASSUME RobotInv, DOMAIN ctl' = DOMAIN ctl, ctl'.cmd = ctl.cmd, ctl'.arg = ctl.arg,
           ctl'.step \in RobotSteps, ctl'.ctr \in CounterValues,
           ctl'.seg \in SegmentCounts, ctl'.try \in TryCounts, said' = said,
           RobotDevice(dev'), IsSeq(wire'), Len(wire') <= MaxLate
    PROVE  RobotFields' /\ RobotRanges'
  <1>1. RobotFields'
    BY DEF RobotInv, RobotTypes, RobotFields, RobotSteps, RobotDevice
  <1>2. RobotRanges'
    BY DEF RobotInv, RobotTypes, RobotRanges, RobotTasks, Robot!TaskOf
  <1> QED  BY <1>1, <1>2

LEMMA RobotTemps == ASSUME RobotInv, Robot!GetTemp PROVE RobotInv'
  <1>1. ctl.cmd = "get_temp"
    BY DEF Robot!GetTemp
  <1>2. ASSUME ctl.step = "open",
               NEW r \in Robot!sendAndReceive("main", "RegRead", <<Robot!McuTemperature, 100>>),
               dev' = r.d, wire' = r.line,
               \/ r.ok /\ UNCHANGED said
                    /\ ctl' = [ctl EXCEPT !.step = "board", !.got = r.got.p, !.ctr = Robot!nextCounter]
               \/ \E k : Robot!Failed(k)
        PROVE  RobotInv'
    <2>1. /\ IsSeq(wire') /\ Len(wire') <= MaxLate /\ RobotDevice(dev') /\ dev' = dev
          /\ r.ok /\ wire = <<>> => wire' = <<>> /\ r.got.p = <<Robot!McuTemperature, dev.reg[Robot!McuTemperature]>>
      BY <1>2, RobotRead
    <2>2. CASE \E k : Robot!Failed(k)
      BY <1>2, <2>1, <2>2, RobotFailed
    <2>3. CASE r.ok /\ UNCHANGED said
                 /\ ctl' = [ctl EXCEPT !.step = "board", !.got = r.got.p, !.ctr = Robot!nextCounter]
      <3>1. /\ DOMAIN ctl' = DOMAIN ctl /\ ctl'.step = "board" /\ ctl'.got = r.got.p
            /\ ctl'.ctr = Robot!nextCounter /\ ctl'.cmd = ctl.cmd /\ ctl'.arg = ctl.arg
            /\ ctl'.seg = ctl.seg /\ ctl'.try = ctl.try
        BY <2>3 DEF RobotInv, RobotTypes, RobotFields
      <3>2. ctl.seg \in SegmentCounts /\ ctl.try \in TryCounts /\ said.status = "none"
        BY <1>2 DEF RobotInv, RobotTypes, RobotRanges, RobotFlow
      <3>3. RobotFields' /\ RobotRanges'
        BY <2>1, <2>3, <3>1, <3>2, RobotKeeps, RobotNext DEF RobotSteps
      <3>4. RobotFlow'
        BY <1>1, <2>3, <3>1, <3>2 DEF RobotFlow
      <3>5. ~LateAcross => wire' = <<>> /\ ctl'.got = <<Robot!McuTemperature, dev'.reg[Robot!McuTemperature]>>
        BY <1>2, <2>1, <2>3, <3>1 DEF RobotInv, RobotTruth
      <3>6. ~LateAcross => RobotTruth'
        BY <2>3, <3>1, <3>2, <3>5 DEF RobotTruth
      <3> QED  BY <3>3, <3>4, <3>6 DEF RobotInv, RobotTypes
    <2> QED  BY <1>2, <2>2, <2>3
  <1>3. ASSUME ctl.step = "board",
               NEW r \in Robot!sendAndReceive("main", "RegRead", <<Robot!BoardTemperature, 100>>),
               dev' = r.d, wire' = r.line,
               \/ r.ok /\ Robot!Answer("done", 0, ctl.got \o r.got.p)
               \/ \E k : Robot!Failed(k)
        PROVE  RobotInv'
    <2>1. /\ IsSeq(wire') /\ Len(wire') <= MaxLate /\ RobotDevice(dev') /\ dev' = dev
          /\ r.ok /\ wire = <<>> => r.got.p = <<Robot!BoardTemperature, dev.reg[Robot!BoardTemperature]>>
      BY <1>3, RobotRead
    <2>2. CASE \E k : Robot!Failed(k)
      BY <1>3, <2>1, <2>2, RobotFailed
    <2>3. CASE r.ok /\ Robot!Answer("done", 0, ctl.got \o r.got.p)
      <3>1. ~LateAcross => ctl.got \o r.got.p =
               <<Robot!McuTemperature, dev.reg[Robot!McuTemperature],
                 Robot!BoardTemperature, dev.reg[Robot!BoardTemperature]>>
        <4>1. ~LateAcross => /\ ctl.got = <<Robot!McuTemperature, dev.reg[Robot!McuTemperature]>>
                             /\ r.got.p = <<Robot!BoardTemperature, dev.reg[Robot!BoardTemperature]>>
          BY <1>3, <2>1, <2>3 DEF RobotInv, RobotTruth
        <4> QED  BY <4>1, Pairs
      <3>2. ~LateAcross => RobotClaim(ctl.cmd, ctl.got \o r.got.p, dev', said.id)
        BY <1>1, <2>1, <3>1, RobotCommands DEF RobotClaim, RobotScans
      <3> QED  BY <1>3, <2>1, <2>3, <3>2, RobotAnswered
    <2> QED  BY <1>3, <2>2, <2>3
  <1>4. CASE ctl.step = "open"
    <2>1. PICK r \in Robot!sendAndReceive("main", "RegRead", <<Robot!McuTemperature, 100>>) :
             /\ dev' = r.d /\ wire' = r.line
             /\ \/ r.ok /\ UNCHANGED said
                     /\ ctl' = [ctl EXCEPT !.step = "board", !.got = r.got.p, !.ctr = Robot!nextCounter]
                \/ \E k : Robot!Failed(k)
      BY <1>4 DEF Robot!GetTemp, Robot!Receive
    <2> QED  BY <1>2, <1>4, <2>1
  <1>5. CASE ctl.step = "board"
    <2>1. PICK r \in Robot!sendAndReceive("main", "RegRead", <<Robot!BoardTemperature, 100>>) :
             /\ dev' = r.d /\ wire' = r.line
             /\ \/ r.ok /\ Robot!Answer("done", 0, ctl.got \o r.got.p)
                \/ \E k : Robot!Failed(k)
      BY <1>5 DEF Robot!GetTemp, Robot!Receive
    <2> QED  BY <1>3, <1>5, <2>1
  <1> QED  BY <1>4, <1>5 DEF Robot!GetTemp

LEMMA RobotEncodes == ASSUME NEW a \in Angles PROVE Robot!Encode(a) = a /\ a \in 0..(2^16 - 1)
  <1>1. PICK n \in Nat : n = 2^16 /\ n > 18600
    OBVIOUS
  <1>2. a % n = a /\ a \in 0..(n - 1)
    BY <1>1 DEF Angles
  <1> QED  BY <1>1, <1>2 DEF Robot!Encode

LEMMA RobotTaskStarts == ASSUME RobotInv, Robot!StartTask PROVE RobotInv'
  <1> DEFINE cmd == Robot!TaskOf[ctl.cmd]
             p == <<ctl.arg>>
             q == RobotAsk("main", cmd, p)
  <1>1. ctl.step = "open" /\ ctl.cmd \in RobotTasks
    BY DEF Robot!StartTask, RobotTasks
  <1>2. ctl.arg \in Angles /\ Robot!Encode(ctl.arg) = ctl.arg /\ ctl.arg \in 0..(2^16 - 1)
    BY <1>1, RobotEncodes DEF RobotInv, RobotTypes, RobotRanges
  <1>3. PICK r \in Robot!sendAndReceive("main", cmd, p) :
           /\ dev' = r.d /\ wire' = r.line
           /\ \/ /\ r.ok /\ UNCHANGED said
                 /\ ctl' = [ctl EXCEPT !.step = "poll", !.exp = r.got.ctr, !.ctr = Robot!nextCounter]
              \/ \E k : Robot!Failed(k)
    BY <1>2 DEF Robot!StartTask, Robot!Receive
  <1>4. cmd \in Robot!TaskIds /\ p[1] = ctl.arg /\ q.cmd = cmd /\ q.p = p /\ q.ctr = ctl.ctr
    BY <1>1, RobotCommands DEF RobotAsk
  <1> HIDE DEF cmd, p
  <1>5. /\ IsSeq(wire') /\ Len(wire') <= MaxLate /\ RobotDevice(dev')
        /\ r.ok /\ wire = <<>> => wire' = <<>> /\ dev' = Robot!Served(dev, q)
    <2>1. cmd \in Robot!TaskIds => p[1] \in 0..(2^16 - 1)
      BY <1>2, <1>4
    <2> QED  BY <1>3, <2>1, RobotExchange
  <1> HIDE DEF q
  <1>6. CASE \E k : Robot!Failed(k)
    BY <1>1, <1>5, <1>6, RobotFailed
  <1>7. CASE /\ r.ok /\ UNCHANGED said
             /\ ctl' = [ctl EXCEPT !.step = "poll", !.exp = r.got.ctr, !.ctr = Robot!nextCounter]
    <2>1. /\ DOMAIN ctl' = DOMAIN ctl /\ ctl'.step = "poll" /\ ctl'.got = ctl.got
          /\ ctl'.ctr = Robot!nextCounter /\ ctl'.cmd = ctl.cmd /\ ctl'.arg = ctl.arg
          /\ ctl'.seg = ctl.seg /\ ctl'.try = ctl.try
      BY <1>7 DEF RobotInv, RobotTypes, RobotFields
    <2>2. /\ ctl.seg \in SegmentCounts /\ ctl.try \in TryCounts /\ said.status = "none"
          /\ ctl.got = <<>> /\ ctl.seg = 0 /\ ctl.ctr = 0 /\ ctl.cmd # "set_reg"
      BY <1>1, RobotCommands DEF RobotInv, RobotTypes, RobotRanges, RobotFlow
    <2>3. RobotFields' /\ RobotRanges'
      BY <1>5, <1>7, <2>1, <2>2, RobotKeeps, RobotNext DEF RobotSteps
    <2>4. RobotFlow'
      BY <1>1, <1>7, <2>1, <2>2 DEF RobotFlow, RobotTasks, Robot!TaskOf
    <2>5. ~LateAcross => wire' = <<>> /\ RobotTask(dev)'
      <3> SUFFICES ASSUME ~LateAcross PROVE wire' = <<>> /\ RobotTask(dev)'
        OBVIOUS
      <3>1. wire' = <<>> /\ dev' = Robot!Served(dev, q)
        BY <1>1, <1>5, <1>7 DEF RobotInv, RobotTruth
      <3>2. "RegWrite" \notin Robot!TaskIds
        BY RobotCommands
      <3>3. dev' = [dev EXCEPT !.task = [ctr |-> q.ctr, cmd |-> q.cmd, state |-> "running", id |-> said.id],
                               !.at = q.p[1]]
        BY <1>4, <3>1, <3>2 DEF Robot!Served
      <3>4. /\ dev'.task = [ctr |-> q.ctr, cmd |-> q.cmd, state |-> "running", id |-> said.id]
            /\ dev'.at = q.p[1]
        BY <3>3 DEF RobotInv, RobotTypes, RobotFields, RobotDevice
      <3>5. /\ dev'.task.ctr = 0 /\ dev'.task.cmd = Robot!TaskOf[ctl.cmd] /\ dev'.task.state = "running"
            /\ dev'.task.id = said.id /\ dev'.at = ctl.arg
        BY <1>4, <2>2, <3>4 DEF cmd
      <3> QED  BY <1>7, <2>1, <3>1, <3>5 DEF RobotTask
    <2>6. Elements(<<>>) = {}
      BY DEF Elements
    <2>7. ~LateAcross => RobotTruth'
      BY <1>7, <2>1, <2>2, <2>5, <2>6 DEF RobotTruth
    <2> QED  BY <2>3, <2>4, <2>7 DEF RobotInv, RobotTypes
  <1> QED  BY <1>3, <1>6, <1>7

\* What a reply to a query tells, whichever query it answers.
LEMMA RobotTells ==
    ASSUME RobotInv, ~LateAcross, ctl.step = "poll",
           NEW f \in Elements(wire) \cup {RobotReply("main", "Query", << 100 >>)}, "p" \in DOMAIN f
    PROVE  f.cmd = "Query" /\ RobotRecord(f.p)
  <1> DEFINE q == RobotAsk("main", "Query", << 100 >>)
  <1>1. CASE f \in Elements(wire)
    BY <1>1 DEF RobotInv, RobotTruth
  <1>2. CASE f = RobotReply("main", "Query", << 100 >>)
    <2>1. f.cmd = "Query" /\ f.p = Robot!Payload(dev, q)
      BY <1>2 DEF RobotReply
    <2>2. q.cmd = "Query"
      BY DEF RobotAsk
    <2> HIDE DEF q
    <2>3. f.p = <<dev.task.ctr, dev.task.cmd, Robot!Result(dev.task)>>
      BY <2>1, <2>2 DEF Robot!Payload
    <2>4. f.p[3] # 0 => dev.task.state # "running"
      BY <2>3 DEF Robot!Result
    <2> QED  BY <2>1, <2>3, <2>4 DEF RobotRecord
  <1> QED  BY <1>1, <1>2

LEMMA RobotPolls == ASSUME RobotInv, Robot!Poll PROVE RobotInv'
  <1>1. ctl.step = "poll" /\ ctl.cmd \in RobotTasks
    BY DEF Robot!Poll, RobotInv, RobotTypes, RobotFlow
  <1>2. PICK r \in Robot!sendAndReceive("main", "Query", << 100 >>) :
           /\ dev' = r.d /\ wire' = r.line
           /\ \/ r.ok /\ r.got.p[3] # 0 /\ Robot!TaskDone(r.got.p[3])
              \/ Robot!Goto("poll") /\ UNCHANGED said
    BY DEF Robot!Poll, Robot!Receive
  <1>3. /\ IsSeq(wire') /\ Len(wire') <= MaxLate /\ RobotDevice(dev') /\ dev' = dev
        /\ Elements(wire') \subseteq Elements(wire) \cup {RobotReply("main", "Query", << 100 >>)}
        /\ r.ok => /\ r.got \in Elements(wire) \cup {RobotReply("main", "Query", << 100 >>)}
                   /\ "p" \in DOMAIN r.got
    <2>1. "Query" \notin Robot!TaskIds \cup {"RegWrite"}
      BY RobotCommands
    <2> QED  BY <1>2, <2>1, RobotExchange
  <1>4. /\ ctl.seg \in SegmentCounts /\ ctl.try \in TryCounts /\ said.status = "none"
        /\ ctl.got = <<>> /\ ctl.seg = 0 /\ ctl.cmd # "set_reg"
    BY <1>1, RobotCommands DEF RobotInv, RobotTypes, RobotRanges, RobotFlow
  <1>5. ASSUME ~LateAcross, NEW f \in Elements(wire'), "p" \in DOMAIN f
        PROVE  f.cmd = "Query" /\ RobotRecord(f.p)
    BY <1>1, <1>3, <1>5, RobotTells
  <1>6. ASSUME NEW s \in {"poll", "size"}, Robot!Goto(s), UNCHANGED said
        PROVE  /\ RobotFields' /\ RobotRanges' /\ ctl'.step = s /\ ctl'.cmd = ctl.cmd
               /\ ctl'.arg = ctl.arg /\ ctl'.got = <<>> /\ ctl'.seg = 0
    <2>1. /\ DOMAIN ctl' = DOMAIN ctl /\ ctl'.step = s /\ ctl'.got = ctl.got
          /\ ctl'.ctr = Robot!nextCounter /\ ctl'.cmd = ctl.cmd /\ ctl'.arg = ctl.arg
          /\ ctl'.seg = ctl.seg /\ ctl'.try = ctl.try
      BY <1>6 DEF Robot!Goto, RobotInv, RobotTypes, RobotFields
    <2>2. s \in RobotSteps
      BY <1>6 DEF RobotSteps
    <2>3. RobotFields' /\ RobotRanges'
      BY <1>3, <1>4, <1>6, <2>1, <2>2, RobotKeeps, RobotNext
    <2> QED  BY <1>4, <2>1, <2>3
  <1>7. CASE Robot!Goto("poll") /\ UNCHANGED said
    <2>1. /\ RobotFields' /\ RobotRanges' /\ ctl'.step = "poll" /\ ctl'.cmd = ctl.cmd
          /\ ctl'.arg = ctl.arg /\ ctl'.got = <<>> /\ ctl'.seg = 0
      BY <1>6, <1>7
    <2>2. RobotFlow'
      BY <1>1, <1>4, <1>7, <2>1 DEF RobotFlow, RobotTasks, Robot!TaskOf
    <2>3. ASSUME ~LateAcross, NEW f \in Elements(wire'), "p" \in DOMAIN f
          PROVE  f.cmd = "Query" /\ RobotRecord(f.p)'
      BY <1>3, <1>5, <2>3 DEF RobotRecord
    <2>4. ~LateAcross => RobotTask(dev)'
      BY <1>1, <1>3, <1>7, <2>1 DEF RobotInv, RobotTruth, RobotTask
    <2>5. ~LateAcross => RobotTruth'
      BY <1>4, <1>7, <2>1, <2>3, <2>4 DEF RobotTruth
    <2> QED  BY <2>1, <2>2, <2>5 DEF RobotInv, RobotTypes
  <1>8. CASE r.ok /\ r.got.p[3] # 0 /\ Robot!TaskDone(r.got.p[3])
    <2>1. PICK n : n = r.got.p[3]
      OBVIOUS
    <2>2. ~LateAcross => RobotTask(dev) /\ dev.task.state # "running" /\ n = Robot!Result(dev.task)
      <3>1. ~LateAcross => RobotRecord(r.got.p)
        BY <1>1, <1>3, <1>8, RobotTells
      <3>2. ~LateAcross => RobotTask(dev)
        BY <1>1 DEF RobotInv, RobotTruth
      <3> QED  BY <1>8, <2>1, <3>1, <3>2 DEF RobotRecord
    <2>3. \/ ctl.cmd \in {"calib", "calib_x", "calib_y"} /\ Robot!Answer("done", 0, <<ctl.arg>>)
          \/ ctl.cmd = "move" /\ n = 10 /\ Robot!Answer("done", 0, <<ctl.arg>>)
          \/ ctl.cmd = "get_distance_at" /\ Robot!Answer("done", 0, <<ctl.arg, n>>)
          \/ \E k : Robot!Failed(k)
          \/ /\ ctl.cmd \in RobotScans /\ (ctl.cmd = "scan_line" => n # 20)
             /\ Robot!Goto("size") /\ UNCHANGED said
      <3>1. Robot!TaskDone(n)
        BY <1>8, <2>1
      <3>2. ctl.cmd \in {"calib", "calib_x", "calib_y", "move", "get_distance_at", "scan_line", "scan_frame"}
        BY <1>1, RobotCommands
      <3>3. CASE ctl.cmd \in {"calib", "calib_x", "calib_y", "move"}
        <4>1. IF n = 10 THEN Robot!Answer("done", 0, <<ctl.arg>>) ELSE Robot!Failed(2)
          BY <3>1, <3>3 DEF Robot!TaskDone
        <4> QED  BY <3>3, <4>1
      <3>4. CASE ctl.cmd = "get_distance_at"
        <4>1. Robot!Answer("done", 0, <<ctl.arg, n>>)
          BY <3>1, <3>4 DEF Robot!TaskDone
        <4> QED  BY <3>4, <4>1
      <3>5. CASE ctl.cmd = "scan_line" /\ n \in {0, 20}
        <4>1. Robot!Failed(2)
          BY <3>1, <3>5 DEF Robot!TaskDone
        <4> QED  BY <4>1
      <3>6. CASE ctl.cmd \in RobotScans /\ ~(ctl.cmd = "scan_line" /\ n \in {0, 20})
        <4>1. Robot!Goto("size") /\ UNCHANGED said
          BY <3>1, <3>6 DEF Robot!TaskDone, RobotScans
        <4> QED  BY <3>6, <4>1
      <3> QED  BY <3>2, <3>3, <3>4, <3>5, <3>6 DEF RobotScans
    <2>4. CASE ctl.cmd \in {"calib", "calib_x", "calib_y"} /\ Robot!Answer("done", 0, <<ctl.arg>>)
      <3>1. ctl.cmd \in RobotUntold
        BY <2>4 DEF RobotUntold
      <3> QED  BY <1>1, <1>3, <2>4, <3>1, RobotOthers, RobotAnswered
    <2>5. CASE ctl.cmd = "move" /\ n = 10 /\ Robot!Answer("done", 0, <<ctl.arg>>)
      <3>1. PICK v : v = <<ctl.arg>>
        OBVIOUS
      <3>2. v[1] = ctl.arg
        BY <3>1
      <3>3. ~LateAcross => dev.task = [ctr |-> 0, cmd |-> "Move", state |-> "ok", id |-> said.id]
        <4> SUFFICES ASSUME ~LateAcross
                     PROVE  dev.task = [ctr |-> 0, cmd |-> "Move", state |-> "ok", id |-> said.id]
          OBVIOUS
        <4>1. DOMAIN dev.task = {"ctr", "cmd", "state", "id"} /\ dev.task.state \in States
          BY DEF RobotInv, RobotTypes, RobotFields, RobotDevice
        <4>2. dev.task.state # "failed"
          BY <2>2, <2>5 DEF Robot!Result
        <4>3. /\ dev.task.ctr = 0 /\ dev.task.cmd = "Move" /\ dev.task.id = said.id
              /\ dev.task.state = "ok"
          BY <2>2, <2>5, <4>1, <4>2, RobotCommands DEF RobotTask, States
        <4>4. dev.task = [ctr |-> dev.task.ctr, cmd |-> dev.task.cmd, state |-> dev.task.state,
                          id |-> dev.task.id]
          BY DEF RobotInv, RobotTypes, RobotFields, RobotDevice
        <4> QED  BY <4>3, <4>4
      <3>4. ~LateAcross => RobotClaim(ctl.cmd, v, dev', said.id)
        BY <1>3, <2>2, <2>5, <3>2, <3>3, RobotCommands DEF RobotClaim, RobotTask, RobotScans
      <3> QED  BY <1>1, <1>3, <2>5, <3>1, <3>4, RobotAnswered
    <2>6. CASE ctl.cmd = "get_distance_at" /\ Robot!Answer("done", 0, <<ctl.arg, n>>)
      <3>1. PICK v : v = <<ctl.arg, n>>
        OBVIOUS
      <3>2. v[1] = ctl.arg
        BY <3>1
      <3>4. ~LateAcross => RobotClaim(ctl.cmd, v, dev', said.id)
        BY <1>3, <2>2, <2>6, <3>2, RobotCommands DEF RobotClaim, RobotTask, RobotScans
      <3> QED  BY <1>1, <1>3, <2>6, <3>1, <3>4, RobotAnswered
    <2>7. CASE \E k : Robot!Failed(k)
      BY <1>1, <1>3, <2>7, RobotFailed
    <2>8. CASE /\ ctl.cmd \in RobotScans /\ (ctl.cmd = "scan_line" => n # 20)
               /\ Robot!Goto("size") /\ UNCHANGED said
      <3>1. /\ RobotFields' /\ RobotRanges' /\ ctl'.step = "size" /\ ctl'.cmd = ctl.cmd
            /\ ctl'.arg = ctl.arg /\ ctl'.got = <<>> /\ ctl'.seg = 0
        BY <1>6, <2>8
      <3>2. RobotFlow'
        BY <1>4, <2>8, <3>1 DEF RobotFlow, RobotScans
      <3>3. ~LateAcross => (ctl.cmd = "scan_line" => dev.task.state = "ok")
        <4>1. dev.task.state \in States
          BY DEF RobotInv, RobotTypes, RobotFields, RobotDevice
        <4>2. dev.task.state = "failed" => Robot!Result(dev.task) = 20
          BY DEF Robot!Result
        <4> QED  BY <2>2, <2>8, <4>1, <4>2 DEF States
      <3>4. ~LateAcross => RobotEnded'
        BY <1>3, <2>2, <2>8, <3>1, <3>3 DEF RobotEnded, RobotTask, RobotScans
      <3>5. ASSUME ~LateAcross, NEW f \in Elements(wire'), "p" \in DOMAIN f
            PROVE  f.cmd \in {"Query", "RegRead"}
        BY <1>5, <3>5
      <3>6. ~LateAcross => RobotTruth'
        BY <1>4, <2>8, <3>1, <3>4, <3>5 DEF RobotTruth
      <3> QED  BY <3>1, <3>2, <3>6 DEF RobotInv, RobotTypes
    <2> QED  BY <2>3, <2>4, <2>5, <2>6, <2>7, <2>8
  <1> QED  BY <1>2, <1>7, <1>8

LEMMA RobotInputs ==
    /\ \A c \in RobotTasks : Robot!Inputs(c) \subseteq Angles
    /\ Robot!Inputs("set_reg") \subseteq Robot!Registers
  <1>1. /\ DOMAIN Robot!SetCommands = {"set_addr", "set_mode"}
        /\ DOMAIN Robot!RegisterCommands = {"get_reg", "set_reg"}
        /\ Robot!RegisterCommands["set_reg"] = {13}
    BY DEF Robot!SetCommands, Robot!RegisterCommands
  <1>2. /\ DOMAIN Robot!TaskCommands = {"calib", "calib_x", "calib_y", "move", "get_distance_at"}
        /\ DOMAIN Robot!ScanCommands = {"scan_line", "scan_frame"}
        /\ DOMAIN Robot!DataCommands = {"get_data", "query"}
    BY DEF Robot!TaskCommands, Robot!ScanCommands, Robot!DataCommands
  <1>3. /\ Robot!TaskCommands["calib"] = {300} /\ Robot!TaskCommands["calib_x"] = {100}
        /\ Robot!TaskCommands["calib_y"] = {200}
        /\ Robot!TaskCommands["move"] = {0, 18600}
        /\ Robot!TaskCommands["get_distance_at"] = {0, 18600}
    BY DEF Robot!TaskCommands
  <1>4. Robot!ScanCommands["scan_line"] = {0, 18600} /\ Robot!ScanCommands["scan_frame"] = {0, 18600}
    BY DEF Robot!ScanCommands
  <1>5. Robot!Inputs("set_reg") = {13}
    BY <1>1, <1>2 DEF Robot!Inputs
  <1>6. \A c \in DOMAIN Robot!TaskCommands : Robot!Inputs(c) = Robot!TaskCommands[c]
    BY <1>1, <1>2 DEF Robot!Inputs
  <1>7. \A c \in DOMAIN Robot!ScanCommands : Robot!Inputs(c) = Robot!ScanCommands[c]
    BY <1>1, <1>2 DEF Robot!Inputs
  <1>8. 300 \in Angles /\ 100 \in Angles /\ 200 \in Angles /\ 0 \in Angles /\ 18600 \in Angles
    BY DEF Angles
  <1>9. \A c \in DOMAIN Robot!TaskCommands : Robot!TaskCommands[c] \subseteq Angles
    BY <1>2, <1>3, <1>8
  <1>10. \A c \in DOMAIN Robot!ScanCommands : Robot!ScanCommands[c] \subseteq Angles
    BY <1>2, <1>4, <1>8
  <1>11. RobotTasks = DOMAIN Robot!TaskCommands \cup DOMAIN Robot!ScanCommands
    BY <1>2, RobotCommands
  <1>12. \A c \in RobotTasks : Robot!Inputs(c) \subseteq Angles
    BY <1>6, <1>7, <1>9, <1>10, <1>11
  <1> QED  BY <1>5, <1>12, RobotCommands

LEMMA RobotHandles ==
    ASSUME RobotInv, NEW c, NEW a \in Robot!Inputs(c), Robot!Handle(c, a) PROVE RobotInv'
  <1>1. /\ DOMAIN ctl' = {"cmd", "arg", "step", "ctr", "exp", "seg", "try", "got"}
        /\ ctl'.step = "begin" /\ ctl'.ctr = 0 /\ ctl'.seg = 0 /\ ctl'.try = 0 /\ ctl'.got = <<>>
        /\ ctl'.cmd = c /\ ctl'.arg = a
    BY RobotIdle DEF Robot!Handle
  <1>2. /\ DOMAIN said' = {"id", "status", "code", "cmd", "val"} /\ said'.status = "none"
        /\ wire' = wire /\ dev' = dev
    BY DEF Robot!Handle
  <1>3. /\ c \in RobotTasks => a \in Angles
        /\ c = "set_reg" => a \in Robot!Registers
    BY RobotInputs
  <1>4. RobotFields'
    BY <1>1, <1>2 DEF RobotInv, RobotTypes, RobotFields, RobotSteps, RobotDevice
  <1>5. RobotRanges'
    BY <1>1, <1>3, RobotIdle DEF RobotRanges, RobotTasks, Robot!TaskOf
  <1>6. RobotFlow'
    BY <1>1, <1>2, <1>3 DEF RobotFlow
  <1>7. RobotTruth'
    BY <1>1, <1>2 DEF RobotTruth
  <1> QED  BY <1>4, <1>5, <1>6, <1>7 DEF RobotInv, RobotTypes

LEMMA RobotBegins == ASSUME RobotInv, Robot!Begin PROVE RobotInv'
  <1>1. /\ ctl.step = "begin" /\ dev' = dev /\ RobotDevice(dev')
        /\ IsSeq(wire) /\ Len(wire) <= MaxLate /\ said.status = "none"
        /\ ctl.got = <<>> /\ ctl.seg = 0 /\ ctl.ctr = 0
    BY DEF Robot!Begin, RobotInv, RobotTypes, RobotFields, RobotFlow, RobotDevice
  <1>2. ASSUME wire' = wire, NEW s, NEW k, NEW v, Robot!Answer(s, k, v),
               s = "done" => ctl.cmd = "status"
        PROVE  RobotInv'
    <2>1. s = "done" => RobotClaim(ctl.cmd, v, dev', said.id)
      BY <1>2, RobotOthers DEF RobotUntold
    <2> QED  BY <1>1, <1>2, <2>1, RobotAnswered
  <1>3. CASE ctl' = [ctl EXCEPT !.step = "open"] /\ wire' = Robot!OnOpen(wire) /\ UNCHANGED said
    <2>1. (wire' = wire \/ wire' = <<>>) /\ (~LateAcross => wire' = <<>>)
      BY <1>3, RobotLine DEF Robot!OnOpen
    <2>2. IsSeq(wire') /\ Len(wire') <= MaxLate
      BY <1>1, <2>1, SmallSeqs, DevicesAssumption
    <2>3. /\ DOMAIN ctl' = DOMAIN ctl /\ ctl'.step = "open" /\ ctl'.ctr = ctl.ctr
          /\ ctl'.got = ctl.got /\ ctl'.seg = ctl.seg /\ ctl'.try = ctl.try
          /\ ctl'.cmd = ctl.cmd /\ ctl'.arg = ctl.arg
      BY <1>3 DEF RobotInv, RobotTypes, RobotFields
    <2>4. ctl.ctr \in CounterValues /\ ctl.seg \in SegmentCounts /\ ctl.try \in TryCounts
      BY DEF RobotInv, RobotTypes, RobotRanges
    <2>5. RobotFields' /\ RobotRanges'
      BY <1>1, <1>3, <2>2, <2>3, <2>4, RobotKeeps DEF RobotSteps
    <2>6. RobotFlow'
      BY <1>1, <1>3, <2>3 DEF RobotInv, RobotTypes, RobotFlow
    <2>7. ~LateAcross => RobotTruth'
      BY <1>1, <1>3, <2>1, <2>3 DEF RobotTruth
    <2> QED  BY <2>5, <2>6, <2>7 DEF RobotInv, RobotTypes
  <1>4. \/ \E s, k, v : wire' = wire /\ Robot!Answer(s, k, v) /\ (s = "done" => ctl.cmd = "status")
        \/ ctl' = [ctl EXCEPT !.step = "open"] /\ wire' = Robot!OnOpen(wire) /\ UNCHANGED said
    BY DEF Robot!Begin
  <1> QED  BY <1>2, <1>3, <1>4

LEMMA RobotGetsData == ASSUME RobotInv, Robot!GetData PROVE RobotInv'
  <1>1. /\ ctl.step = "open" /\ ctl.cmd = "get_data" /\ ctl' = [ctl EXCEPT !.step = "size"]
        /\ UNCHANGED <<wire, dev, said>>
    BY DEF Robot!GetData
  <1>2. /\ DOMAIN ctl' = DOMAIN ctl /\ ctl'.step = "size" /\ ctl'.ctr = ctl.ctr
        /\ ctl'.got = ctl.got /\ ctl'.seg = ctl.seg /\ ctl'.try = ctl.try
        /\ ctl'.cmd = ctl.cmd /\ ctl'.arg = ctl.arg
    BY <1>1 DEF RobotInv, RobotTypes, RobotFields
  <1>3. ctl.ctr \in CounterValues /\ ctl.seg \in SegmentCounts /\ ctl.try \in TryCounts
    BY DEF RobotInv, RobotTypes, RobotRanges
  <1>4. RobotDevice(dev') /\ IsSeq(wire') /\ Len(wire') <= MaxLate
    BY <1>1 DEF RobotInv, RobotTypes, RobotFields, RobotDevice
  <1>5. RobotFields' /\ RobotRanges'
    BY <1>1, <1>2, <1>3, <1>4, RobotKeeps DEF RobotSteps
  <1>6. RobotFlow' /\ said.status = "none"
    BY <1>1, <1>2 DEF RobotInv, RobotTypes, RobotFlow
  <1>7. ~LateAcross => Elements(wire') = {}
    BY <1>1 DEF RobotInv, RobotTruth, Elements
  <1>8. RobotEnded'
    BY <1>1, <1>2 DEF RobotEnded, RobotScans
  <1>9. ~LateAcross => RobotTruth'
    BY <1>1, <1>2, <1>6, <1>7, <1>8 DEF RobotTruth
  <1> QED  BY <1>5, <1>6, <1>9 DEF RobotInv, RobotTypes

LEMMA RobotSizes == ASSUME RobotInv, Robot!readSegmentSize PROVE RobotInv'
  <1>1. /\ ctl.step = "size" /\ ctl.cmd \in RobotScans \cup {"get_data"} /\ ctl.got = <<>>
        /\ ctl.seg = 0 /\ said.status = "none" /\ ctl.seg \in SegmentCounts /\ ctl.try \in TryCounts
    BY DEF Robot!readSegmentSize, RobotInv, RobotTypes, RobotFlow, RobotRanges
  <1>2. PICK r \in Robot!sendAndReceive("main", "RegRead", <<Robot!SegmentSize, 100>>) :
           /\ dev' = r.d /\ wire' = r.line
           /\ \/ Robot!Goto("segment") /\ UNCHANGED said
              \/ \E k : Robot!Failed(k)
    BY DEF Robot!readSegmentSize, Robot!Receive
  <1>3. /\ IsSeq(wire') /\ Len(wire') <= MaxLate /\ RobotDevice(dev') /\ dev' = dev
        /\ Elements(wire') \subseteq Elements(wire)
                 \cup {RobotReply("main", "RegRead", <<Robot!SegmentSize, 100>>)}
    BY <1>2, RobotRead
  <1>4. CASE \E k : Robot!Failed(k)
    BY <1>1, <1>3, <1>4, RobotFailed
  <1>5. CASE Robot!Goto("segment") /\ UNCHANGED said
    <2>1. /\ DOMAIN ctl' = DOMAIN ctl /\ ctl'.step = "segment" /\ ctl'.got = ctl.got
          /\ ctl'.ctr = Robot!nextCounter /\ ctl'.cmd = ctl.cmd /\ ctl'.arg = ctl.arg
          /\ ctl'.seg = ctl.seg /\ ctl'.try = ctl.try
      BY <1>5 DEF Robot!Goto, RobotInv, RobotTypes, RobotFields
    <2>2. RobotFields' /\ RobotRanges'
      BY <1>1, <1>3, <1>5, <2>1, RobotKeeps, RobotNext DEF RobotSteps
    <2>3. RobotGot'
      BY <1>1, <2>1, SmallSeqs DEF RobotGot
    <2>4. RobotFlow'
      BY <1>1, <1>5, <2>1, <2>3, RobotCommands DEF RobotInv, RobotTypes, RobotFlow
    <2>5. ~LateAcross => RobotEnded'
      BY <1>1, <1>3, <1>5, <2>1 DEF RobotInv, RobotTruth, RobotEnded, RobotTask
    <2>6. ASSUME ~LateAcross, NEW f \in Elements(wire'), "p" \in DOMAIN f PROVE f.cmd # "GetData"
      <3>1. CASE f \in Elements(wire)
        BY <1>1, <2>6, <3>1 DEF RobotInv, RobotTruth
      <3>2. CASE f = RobotReply("main", "RegRead", <<Robot!SegmentSize, 100>>)
        BY <3>2 DEF RobotReply
      <3> QED  BY <1>3, <3>1, <3>2
    <2>7. \A i \in 1..ctl'.seg : FALSE
      BY <1>1, <2>1
    <2>8. ~LateAcross => RobotTruth'
      BY <1>1, <1>5, <2>1, <2>5, <2>6, <2>7 DEF RobotTruth
    <2> QED  BY <2>2, <2>4, <2>8 DEF RobotInv, RobotTypes
  <1> QED  BY <1>2, <1>4, <1>5

LEMMA RobotTimesOut == ASSUME RobotInv, Robot!PollTimeout PROVE RobotInv'
  <1>1. ctl.step = "poll" /\ Robot!Failed(2) /\ UNCHANGED <<wire, dev>>
    BY DEF Robot!PollTimeout
  <1>2. IsSeq(wire') /\ Len(wire') <= MaxLate /\ RobotDevice(dev')
    BY <1>1 DEF RobotInv, RobotTypes, RobotFields, RobotDevice
  <1> QED  BY <1>1, <1>2, RobotFailed

LEMMA RobotCollects == ASSUME RobotInv, Robot!collectScanData PROVE RobotInv'
  <1> DEFINE p == <<ctl.seg>>
             q == RobotAsk("main", "GetData", p)
  <1>1. /\ ctl.step = "segment" /\ ctl.cmd \in RobotScans \cup {"get_data"} /\ RobotGot
        /\ said.status = "none" /\ ctl.seg < Segments /\ ctl.cmd # "set_reg"
    BY DEF Robot!collectScanData, RobotInv, RobotTypes, RobotFlow, RobotScans
  <1>2. /\ ctl.seg \in SegmentCounts /\ ctl.try \in TryCounts /\ Segments \in Nat
        /\ Tries \in Nat \ {0}
    BY DevicesAssumption DEF RobotInv, RobotTypes, RobotRanges
  <1>3. ctl.seg \in Nat /\ ctl.seg + 1 \in SegmentCounts /\ 0 \in TryCounts
    BY <1>1, <1>2 DEF SegmentCounts, TryCounts
  <1>4. PICK r \in Robot!sendAndReceive("main", "GetData", p) :
           /\ dev' = r.d /\ wire' = r.line
           /\ \/ /\ r.ok /\ r.got.p[1] = ctl.seg /\ UNCHANGED said
                 /\ ctl' = [ctl EXCEPT !.seg = @ + 1, !.try = 0, !.ctr = Robot!nextCounter,
                                       !.got = Append(@, r.got.p)]
              \/ /\ ctl.try + 1 < Tries /\ UNCHANGED said
                 /\ ctl' = [ctl EXCEPT !.try = @ + 1, !.ctr = Robot!nextCounter]
              \/ \E k : Robot!Failed(k)
    BY DEF Robot!collectScanData, Robot!Receive, Robot!SegmentOf
  <1>5. p[1] = ctl.seg /\ q.cmd = "GetData" /\ q.p = p
    BY DEF RobotAsk
  <1>6. RobotReply("main", "GetData", p).p = Robot!Payload(dev, q)
    BY DEF RobotReply
  <1> HIDE DEF p
  <1>7. /\ IsSeq(wire') /\ Len(wire') <= MaxLate /\ RobotDevice(dev') /\ dev' = dev
        /\ Elements(wire') \subseteq Elements(wire) \cup {RobotReply("main", "GetData", p)}
        /\ r.ok => /\ r.got \in Elements(wire) \cup {RobotReply("main", "GetData", p)}
                   /\ "p" \in DOMAIN r.got /\ r.got.cmd = "GetData"
    <2>1. "GetData" \notin Robot!TaskIds \cup {"RegWrite"}
      BY RobotCommands
    <2> QED  BY <1>4, <2>1, RobotExchange
  <1> HIDE DEF q
  <1>8. ASSUME ~LateAcross, ctl.cmd \in RobotScans,
               NEW f \in Elements(wire) \cup {RobotReply("main", "GetData", p)},
               "p" \in DOMAIN f, f.cmd = "GetData"
        PROVE  f.p = <<f.p[1], dev.data>>
    <2>1. CASE f \in Elements(wire)
      BY <1>1, <1>8, <2>1 DEF RobotInv, RobotTruth
    <2>2. CASE f = RobotReply("main", "GetData", p)
      <3>1. f.p = <<p[1], dev.data>>
        BY <1>5, <1>6, <2>2 DEF Robot!Payload
      <3> QED  BY <3>1
    <2> QED  BY <1>8, <2>1, <2>2
  <1>9. ~LateAcross => RobotEnded
    BY <1>1 DEF RobotInv, RobotTruth
  <1>10. CASE \E k : Robot!Failed(k)
    BY <1>1, <1>7, <1>10, RobotFailed
  <1>11. CASE /\ ctl.try + 1 < Tries /\ UNCHANGED said
              /\ ctl' = [ctl EXCEPT !.try = @ + 1, !.ctr = Robot!nextCounter]
    <2>1. /\ DOMAIN ctl' = DOMAIN ctl /\ ctl'.step = "segment" /\ ctl'.got = ctl.got
          /\ ctl'.ctr = Robot!nextCounter /\ ctl'.cmd = ctl.cmd /\ ctl'.arg = ctl.arg
          /\ ctl'.seg = ctl.seg /\ ctl'.try = ctl.try + 1
      BY <1>1, <1>11 DEF RobotInv, RobotTypes, RobotFields
    <2>2. ctl.try + 1 \in TryCounts
      BY <1>2, <1>11 DEF TryCounts
    <2>3. RobotFields' /\ RobotRanges'
      BY <1>2, <1>7, <1>11, <2>1, <2>2, RobotKeeps, RobotNext DEF RobotSteps
    <2>4. RobotGot'
      BY <1>1, <2>1 DEF RobotGot
    <2>5. RobotFlow'
      BY <1>1, <1>11, <2>1, <2>4 DEF RobotFlow, RobotScans
    <2>6. ~LateAcross => RobotEnded'
      BY <1>7, <1>9, <1>11, <2>1 DEF RobotEnded, RobotTask
    <2>7. ~LateAcross /\ ctl.cmd \in RobotScans => \A i \in 1..ctl'.seg : ctl'.got[i] = <<i - 1, dev'.data>>
      BY <1>1, <1>7, <2>1 DEF RobotInv, RobotTruth
    <2>8. ~LateAcross /\ ctl.cmd \in RobotScans =>
            \A f \in Elements(wire') : "p" \in DOMAIN f /\ f.cmd = "GetData" => f.p = <<f.p[1], dev'.data>>
      BY <1>7, <1>8
    <2>9. ~LateAcross => RobotTruth'
      BY <1>1, <1>11, <2>1, <2>6, <2>7, <2>8 DEF RobotTruth, RobotScans
    <2> QED  BY <2>3, <2>5, <2>9 DEF RobotInv, RobotTypes
  <1>12. CASE /\ r.ok /\ r.got.p[1] = ctl.seg /\ UNCHANGED said
              /\ ctl' = [ctl EXCEPT !.seg = @ + 1, !.try = 0, !.ctr = Robot!nextCounter,
                                    !.got = Append(@, r.got.p)]
    <2> DEFINE g == Append(ctl.got, r.got.p)
    <2>1. /\ DOMAIN ctl' = DOMAIN ctl /\ ctl'.step = "segment" /\ ctl'.got = g
          /\ ctl'.ctr = Robot!nextCounter /\ ctl'.cmd = ctl.cmd /\ ctl'.arg = ctl.arg
          /\ ctl'.seg = ctl.seg + 1 /\ ctl'.try = 0
      BY <1>1, <1>12 DEF RobotInv, RobotTypes, RobotFields
    <2>2. /\ IsSeq(g) /\ Len(g) = ctl.seg + 1
          /\ \A i \in 1..ctl.seg : g[i] = ctl.got[i]
          /\ g[ctl.seg + 1] = r.got.p
      <3>1. IsSeq(ctl.got) /\ Len(ctl.got) = ctl.seg
        BY <1>1 DEF RobotGot
      <3>2. /\ IsSeq(g) /\ Len(g) = Len(ctl.got) + 1
            /\ \A i \in 1..Len(ctl.got) : g[i] = ctl.got[i]
            /\ g[Len(ctl.got) + 1] = r.got.p
        BY <3>1, AppendAny
      <3> HIDE DEF g
      <3> QED  BY <3>1, <3>2
    <2> HIDE DEF g
    <2>3. RobotFields' /\ RobotRanges'
      BY <1>2, <1>3, <1>7, <1>12, <2>1, RobotKeeps, RobotNext DEF RobotSteps
    <2>a. \A i \in 1..(ctl.seg + 1) : i \in 1..ctl.seg \/ i = ctl.seg + 1
      BY <1>3
    <2>4. RobotGot'
      <3>1. \A i \in 1..ctl.seg : ctl.got[i][1] = i - 1
        BY <1>1 DEF RobotGot
      <3>2. \A i \in 1..(ctl.seg + 1) : g[i][1] = i - 1
        <4>1. SUFFICES ASSUME NEW i \in 1..(ctl.seg + 1) PROVE g[i][1] = i - 1
          OBVIOUS
        <4>2. CASE i \in 1..ctl.seg
          BY <2>2, <3>1, <4>2
        <4>3. CASE i = ctl.seg + 1
          <5>1. g[i][1] = ctl.seg
            BY <1>12, <2>2, <4>3
          <5> QED  BY <1>3, <4>3, <5>1
        <4> QED  BY <2>a, <4>2, <4>3
      <3> QED  BY <2>1, <2>2, <3>2 DEF RobotGot
    <2>5. RobotFlow'
      BY <1>1, <1>12, <2>1, <2>4 DEF RobotFlow, RobotScans
    <2>6. ~LateAcross => RobotEnded'
      BY <1>7, <1>9, <1>12, <2>1 DEF RobotEnded, RobotTask
    <2>7. ASSUME ~LateAcross, ctl.cmd \in RobotScans, NEW i \in 1..(ctl.seg + 1)
          PROVE  g[i] = <<i - 1, dev'.data>>
      <3>1. CASE i \in 1..ctl.seg
        BY <1>1, <1>7, <2>2, <2>7, <3>1 DEF RobotInv, RobotTruth
      <3>2. CASE i = ctl.seg + 1
        <4>1. r.got.p = <<r.got.p[1], dev.data>>
          BY <1>7, <1>8, <1>12, <2>7
        <4>2. i - 1 = ctl.seg
          BY <1>3, <3>2
        <4> QED  BY <1>7, <1>12, <2>2, <3>2, <4>1, <4>2
      <3> QED  BY <2>a, <3>1, <3>2
    <2>8. ~LateAcross /\ ctl.cmd \in RobotScans =>
            \A f \in Elements(wire') : "p" \in DOMAIN f /\ f.cmd = "GetData" => f.p = <<f.p[1], dev'.data>>
      BY <1>7, <1>8
    <2>9. ~LateAcross => RobotTruth'
      BY <1>1, <1>12, <2>1, <2>6, <2>7, <2>8 DEF RobotTruth, RobotScans
    <2> QED  BY <2>3, <2>5, <2>9 DEF RobotInv, RobotTypes
  <1> QED  BY <1>4, <1>10, <1>11, <1>12

LEMMA RobotScanned == ASSUME RobotInv, Robot!ScanDone PROVE RobotInv'
  <1>1. /\ ctl.step = "segment" /\ ctl.seg = Segments /\ UNCHANGED <<wire, dev>>
        /\ Robot!Answer("done", 0, ctl.got)
    BY DEF Robot!ScanDone
  <1>2. IsSeq(wire') /\ Len(wire') <= MaxLate /\ RobotDevice(dev')
    BY <1>1 DEF RobotInv, RobotTypes, RobotFields, RobotDevice
  <1>3. /\ ctl.cmd \in RobotScans \cup {"get_data"}
        /\ IsSeq(ctl.got) /\ Len(ctl.got) = Segments /\ Segments \in Nat
        /\ \A i \in 1..Segments : ctl.got[i][1] = i - 1
    BY <1>1, DevicesAssumption DEF RobotInv, RobotTypes, RobotFlow, RobotGot
  <1>4. ctl.got = [i \in 1..Segments |-> ctl.got[i]] /\ DOMAIN ctl.got = 1..Segments
    BY <1>3 DEF IsSeq
  <1>5. CASE ctl.cmd = "get_data"
    <2>1. [i \in DOMAIN ctl.got |-> ctl.got[i][1]] = [i \in 1..Segments |-> i - 1]
      BY <1>3, <1>4
    <2>2. PICK v : v = ctl.got
      OBVIOUS
    <2>3. [i \in DOMAIN v |-> v[i][1]] = [i \in 1..Segments |-> i - 1]
      BY <2>1, <2>2
    <2>4. RobotClaim(ctl.cmd, v, dev', said.id)
      BY <1>5, <2>3, RobotCommands DEF RobotClaim, RobotScans
    <2> QED  BY <1>1, <1>2, <2>2, <2>4, RobotAnswered
  <1>6. CASE ctl.cmd \in RobotScans
    <2>1. ASSUME ~LateAcross PROVE RobotClaim(ctl.cmd, ctl.got, dev, said.id)
      <3>1. /\ RobotTask(dev) /\ dev.task.state # "running"
            /\ ctl.cmd = "scan_line" => dev.task.state = "ok"
            /\ \A i \in 1..Segments : ctl.got[i] = <<i - 1, dev.data>>
        BY <1>1, <1>6, <2>1 DEF RobotInv, RobotTruth, RobotEnded
      <3>2. ctl.got = [i \in 1..Segments |-> <<i - 1, dev.data>>]
        BY <1>4, <3>1
      <3>3. /\ dev.task.id = said.id /\ (dev.task.state = "ok" => dev.data = said.id)
        BY <1>6, <3>1 DEF RobotTask
      <3> QED  BY <1>6, <3>1, <3>2, <3>3, RobotCommands DEF RobotClaim, RobotScans
    <2> QED  BY <1>1, <1>2, <2>1, RobotAnswered
  <1> QED  BY <1>3, <1>5, <1>6

LEMMA RobotTaskEnds == ASSUME RobotInv, NEW ok \in BOOLEAN, Robot!TaskEnds(ok) PROVE RobotInv'
  <1>1. /\ dev.task.state = "running" /\ UNCHANGED <<ctl, wire, said>>
        /\ dev' = [dev EXCEPT !.task.state = IF ok THEN "ok" ELSE "failed",
                              !.data = IF ok /\ dev.task.cmd \in Robot!Scans THEN dev.task.id ELSE @]
    BY DEF Robot!TaskEnds
  <1>2. RobotDevice(dev)
    BY DEF RobotInv, RobotTypes, RobotFields
  <1>3. /\ DOMAIN dev' = DOMAIN dev /\ dev'.reg = dev.reg /\ dev'.at = dev.at
        /\ dev'.task = [dev.task EXCEPT !.state = IF ok THEN "ok" ELSE "failed"]
        /\ dev'.data = (IF ok /\ dev.task.cmd \in Robot!Scans THEN dev.task.id ELSE dev.data)
    BY <1>1, <1>2 DEF RobotDevice
  <1>4. /\ DOMAIN dev'.task = DOMAIN dev.task
        /\ dev'.task.id = dev.task.id /\ dev'.task.cmd = dev.task.cmd /\ dev'.task.ctr = dev.task.ctr
        /\ dev'.task.state = (IF ok THEN "ok" ELSE "failed")
    BY <1>2, <1>3 DEF RobotDevice
  <1>5. RobotDevice(dev')
    <2>1. dev'.task = [ctr |-> dev'.task.ctr, cmd |-> dev'.task.cmd, state |-> dev'.task.state,
                       id |-> dev'.task.id]
      BY <1>2, <1>3, <1>4 DEF RobotDevice
    <2>2. dev'.task.state \in States
      BY <1>4 DEF States
    <2> QED  BY <1>2, <1>3, <1>4, <2>1, <2>2 DEF RobotDevice
  <1>6. RobotTypes'
    <2>1. RobotFields'
      BY <1>1, <1>5 DEF RobotInv, RobotTypes, RobotFields, RobotDevice
    <2>2. RobotRanges'
      BY <1>1 DEF RobotInv, RobotTypes, RobotRanges
    <2>3. RobotFlow'
      BY <1>1 DEF RobotInv, RobotTypes, RobotFlow, RobotGot
    <2> QED  BY <2>1, <2>2, <2>3 DEF RobotTypes
  <1>7. ASSUME ~LateAcross PROVE RobotTruth'
    <2>1. ctl.step = "poll" => RobotTask(dev)'
      <3> SUFFICES ASSUME ctl.step = "poll" PROVE RobotTask(dev)'
        OBVIOUS
      <3>1. RobotTask(dev) /\ ctl.cmd \in RobotTasks
        BY <1>7 DEF RobotInv, RobotTruth, RobotTypes, RobotFlow
      <3>2. ctl.cmd \in RobotScans => dev.task.cmd \in Robot!Scans
        BY <3>1, RobotCommands DEF RobotTask
      <3> QED  BY <1>1, <1>3, <1>4, <3>1, <3>2 DEF RobotTask
    <2>2. ASSUME ctl.step = "poll", NEW f \in Elements(wire), "p" \in DOMAIN f
          PROVE  f.cmd = "Query" /\ RobotRecord(f.p)'
      <3>1. f.cmd = "Query" /\ RobotRecord(f.p)
        BY <1>7, <2>2 DEF RobotInv, RobotTruth
      <3> QED  BY <1>1, <3>1 DEF RobotRecord
    <2>3. ctl.step \in {"size", "segment"} => ctl.cmd \notin RobotScans
      BY <1>1, <1>7 DEF RobotInv, RobotTruth, RobotEnded
    <2>4. said.status = "done" => RobotClaim(said.cmd, said.val, dev', said.id)
      <3>1. said.status = "done" => RobotClaim(said.cmd, said.val, dev, said.id)
        BY <1>7 DEF RobotInv, RobotTruth
      <3>2. said.status = "done" => said.cmd \notin {"move", "get_distance_at"} \cup RobotScans
        BY <1>1, <3>1 DEF RobotClaim
      <3> QED  BY <1>3, <3>1, <3>2 DEF RobotClaim
    <2>5. (said.status = "done" => RobotClaim(said.cmd, said.val, dev, said.id))'
      BY <1>1, <2>4 DEF RobotClaim
    <2>6. ctl.step \in {"size", "segment"} => RobotEnded'
      BY <1>1, <2>3 DEF RobotEnded
    <2>7. /\ ctl'.step \in {"open", "board"} => wire' = <<>>
          /\ ctl'.step = "board" => ctl'.got = <<Robot!McuTemperature, dev'.reg[Robot!McuTemperature]>>
          /\ ctl'.step = "size" =>
                \A f \in Elements(wire') : "p" \in DOMAIN f => f.cmd \in {"Query", "RegRead"}
      BY <1>1, <1>3, <1>7 DEF RobotInv, RobotTruth
    <2> QED  BY <1>1, <2>1, <2>2, <2>3, <2>5, <2>6, <2>7 DEF RobotTruth
  <1> QED  BY <1>6, <1>7 DEF RobotInv

LEMMA RobotStep == ASSUME RobotInv, Robot!Next PROVE RobotInv'
  BY RobotHandles, RobotBegins, RobotReads, RobotWrites, RobotSimple, RobotTemps, RobotTaskStarts,
     RobotPolls, RobotTimesOut, RobotGetsData, RobotSizes, RobotCollects, RobotScanned, RobotTaskEnds
  DEF Robot!Next

\* A step that changes nothing keeps the invariants.
LEMMA RobotStutters == ASSUME RobotInv, UNCHANGED vars PROVE RobotInv'
  <1>1. ctl' = ctl /\ wire' = wire /\ dev' = dev /\ said' = said
    BY DEF vars
  <1>2. RobotTypes'
    BY <1>1 DEF RobotInv, RobotTypes, RobotFields, RobotRanges, RobotFlow, RobotGot, RobotDevice, RobotTasks
  <1>3. ASSUME ~LateAcross PROVE RobotTruth'
    BY <1>1, <1>3 DEF RobotInv, RobotTruth, RobotTask, RobotRecord, RobotEnded, RobotClaim
  <1> QED  BY <1>2, <1>3 DEF RobotInv

LEMMA LaserStutters == ASSUME LaserInv, UNCHANGED vars PROVE LaserInv'
  <1>1. ctl' = ctl /\ wire' = wire /\ dev' = dev /\ said' = said
    BY DEF vars
  <1>2. LaserTypes'
    BY <1>1 DEF LaserInv, LaserTypes
  <1>3. ASSUME ~LateAcross PROVE LaserTruth'
    BY <1>1, <1>3 DEF LaserInv, LaserTruth, LaserTask, LaserRecord, LaserClaim, Laser!AnswersAreTrue
  <1> QED  BY <1>2, <1>3 DEF LaserInv

LEMMA ThermalStutters == ASSUME ThermalInv, UNCHANGED vars PROVE ThermalInv'
  <1>1. ctl' = ctl /\ wire' = wire /\ dev' = dev /\ said' = said
    BY DEF vars
  <1> QED  BY <1>1 DEF ThermalInv, ThermalTypes, ThermalTruth, Thermal!AnswersAreTrue

-----------------------------------------------------------------------------
(***************************************************************************)
(* If what arrives late does not survive the closing of the port, a        *)
(* scanner's answers are true: a task said to be done is the one that was  *)
(* started and the device has finished it, the segments of a scan are the  *)
(* ones the device holds of that scan, and what a read returns is what the *)
(* device holds (radar_session.cpp, laser_session.cpp,                     *)
(* thermal_session.cpp).                                                   *)
(***************************************************************************)
THEOREM ScannersTellTheTruth == ~LateAcross => (Spec => []ScannerAnswers)
  <1> SUFFICES ASSUME ~LateAcross PROVE Spec => []ScannerAnswers
    OBVIOUS
  <1> DEFINE I == /\ driver = "3d_scan_robot" => RobotInv
                  /\ driver = "3d_laser_radar" => LaserInv
                  /\ driver = "3d_temp_scanner" => ThermalInv
  <1>1. Init => I
    BY RobotStarts, LaserStarts, ThermalStarts DEF Init
  <1>2. I /\ [Next]_vars => I'
    <2> SUFFICES ASSUME I, [Next]_vars PROVE I'
      OBVIOUS
    <2>1. CASE UNCHANGED vars
      <3>1. driver' = driver
        BY <2>1 DEF vars
      <3> QED  BY <2>1, <3>1, RobotStutters, LaserStutters, ThermalStutters
    <2>2. CASE Next
      <3>1. driver' = driver
        BY <2>2 DEF Next
      <3>2. driver = "3d_scan_robot" => RobotInv'
        BY <2>2, RobotStep DEF Next, DriverStep
      <3>3. driver = "3d_laser_radar" => LaserInv'
        BY <2>2, LaserStep DEF Next, DriverStep
      <3>4. driver = "3d_temp_scanner" => ThermalInv'
        BY <2>2, ThermalStep DEF Next, DriverStep
      <3> QED  BY <3>1, <3>2, <3>3, <3>4
    <2> QED  BY <2>1, <2>2
  <1>3. I => ScannerAnswers
    BY RobotInvHolds, LaserInvHolds, ThermalInvHolds DEF ScannerAnswers
  <1> QED  BY <1>1, <1>2, <1>3, PTL DEF Spec
=============================================================================
