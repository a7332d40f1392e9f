------------------------ MODULE ModbusServers_proofs ------------------------
(***************************************************************************)
(* Proofs about the Modbus servers and the simulated crane as drivers of   *)
(* DeviceDrivers: for any number of masters, of requests and of pieces of  *)
(* requests in a read, and for areas and address spaces of any size.       *)
(*                                                                         *)
(* A buffer is served, and a write is offered to the crane, request after  *)
(* request and register after register: by a recursive function over the   *)
(* places of a sequence.  That the recursion has a solution, and what is   *)
(* true at its end, is proved by induction over the places (Inductive).    *)
(***************************************************************************)
EXTENDS DeviceDrivers, SequenceTheorems, WellFoundedInduction, TLAPS

(* A set of numbers with 0 and every successor has them all. *)
LEMMA Inductive ==
    ASSUME NEW S, 0 \in S, \A k \in Nat : k \in S => k + 1 \in S
    PROVE  Nat \subseteq S
  <1> DEFINE B == Nat \ S
             R == {p \in Nat \X Nat : p[1] < p[2]}
  <1>1. SUFFICES ASSUME B # {} PROVE FALSE
    OBVIOUS
  <1>2. IsWellFoundedOn(R, Nat)
    BY NatLessThanWellFounded DEF OpToRel
  <1>3. PICK m \in B : \A n \in B : ~(<<n, m>> \in R)
    BY <1>1, <1>2, WFMin
  <1>4. m # 0 /\ m - 1 \in Nat /\ m - 1 < m /\ m = (m - 1) + 1
    BY <1>3
  <1>5. m - 1 \notin B
    <2>1. <<m - 1, m>> \in R
      BY <1>4
    <2> QED  BY <2>1, <1>3
  <1> QED  BY <1>3, <1>4, <1>5

-----------------------------------------------------------------------------
(* The crane that is simulated *)

\* Where a part can be.
SimPart(p) ==
    IF p = "cylinder" THEN {"at_top", "moving_up", "at_bottom", "moving_down", "idle"}
    ELSE {"closed", "moving_open", "open", "moving_close", "idle"}

SimDevices ==
    [cylinder : SimPart("cylinder"), valve : SimPart("valve"),
     cylinderTimer : BOOLEAN, valveTimer : BOOLEAN, hr : [0..3 -> 0..2]]

(***************************************************************************)
(* The device by itself: what moves has its timer, and in auto mode it is  *)
(* at its goal or on its way.                                              *)
(***************************************************************************)
SimTimers(d) ==
    /\ d.cylinderTimer <=> d.cylinder \in Sim!Moving
    /\ d.valveTimer <=> d.valve \in Sim!Moving

SimGoal(d) ==
    d.hr[3] = 1 =>
        \/ d.valve = "moving_open"
        \/ d.valve = "open" /\ d.cylinder \in {"moving_down", "at_bottom"}

SimDevice(d) == d \in SimDevices /\ SimTimers(d) /\ SimGoal(d)

\* What a master finds: the registers of the device, the switches of its parts.
SimShown ==
    ctl.running =>
        /\ \A a \in 0..3 : wire.hr[a] = dev.hr[a] \/ (a = 0 /\ dev.hr[3] = 1)
        /\ ~(~wire.up /\ wire.down) /\ ~(wire.open /\ wire.closed)

SimInv ==
    /\ SimDevice(dev)
    /\ DOMAIN ctl = {"running", "writes", "commands"}
    /\ 0..3 \subseteq DOMAIN wire.hr /\ DOMAIN wire = {"hr", "up", "down", "open", "closed"}
    /\ SimShown

LEMMA SimInvHolds == ASSUME SimInv PROVE Sim!AnswersAreTrue
  BY DEF SimInv, SimShown, SimDevice, SimTimers, SimGoal, Sim!AnswersAreTrue

LEMMA SimStarts == ASSUME Sim!Init PROVE SimInv
  <1>1. dev \in SimDevices
    BY DEF Sim!Init, SimDevices, SimPart
  <1>2. SimTimers(dev) /\ SimGoal(dev)
    BY DEF Sim!Init, SimTimers, SimGoal, Sim!Moving
  <1>3. 0..3 \subseteq DOMAIN wire.hr
    BY DevicesAssumption DEF Sim!Init
  <1> QED  BY <1>1, <1>2, <1>3 DEF Sim!Init, SimInv, SimShown, SimDevice

(* An action on a part of a crane that is not in auto mode. *)
LEMMA SimCylinder ==
    ASSUME NEW d, d \in SimDevices, SimTimers(d), NEW v \in 0..2
    PROVE  /\ Sim!applyCylinderAction(d, v) \in SimDevices /\ SimTimers(Sim!applyCylinderAction(d, v))
           /\ Sim!applyCylinderAction(d, v).valve = d.valve /\ Sim!applyCylinderAction(d, v).hr = [d.hr EXCEPT ![0] = v]
           /\ v = 2 => Sim!applyCylinderAction(d, v).cylinder \in {"moving_down", "at_bottom"}
  <1> DEFINE x == [d EXCEPT !.hr[0] = v]
  <1>1. x \in SimDevices /\ SimTimers(x) /\ x.valve = d.valve /\ x.cylinder = d.cylinder
        /\ x.hr = [d.hr EXCEPT ![0] = v]
    BY DEF SimDevices, SimPart, SimTimers
  <1> HIDE DEF x
  <1>2. \A t, m \in {"at_top", "at_bottom", "moving_up", "moving_down"} : m \in Sim!Moving =>
           LET e == Sim!Go("cylinder", "cylinderTimer", x, t, m) IN
           /\ e \in SimDevices /\ SimTimers(e) /\ e.valve = x.valve /\ e.hr = x.hr
           /\ e.cylinder \in {t, m}
    BY <1>1 DEF Sim!Go, SimDevices, SimPart, SimTimers, Sim!Moving
  <1>3. LET e == Sim!Halt("cylinder", "cylinderTimer", x) IN
        e \in SimDevices /\ SimTimers(e) /\ e.valve = x.valve /\ e.hr = x.hr
    <2> DEFINE to == IF x.cylinder \in Sim!Moving THEN "idle" ELSE x.cylinder
               e == [x EXCEPT !.cylinderTimer = FALSE, !.cylinder = to]
    <2>1. Sim!Halt("cylinder", "cylinderTimer", x) = e
      BY <1>1 DEF Sim!Halt, SimDevices, SimPart
    <2>2. to \in {"at_top", "at_bottom", "open", "closed", "idle"} /\ to \notin Sim!Moving
      BY <1>1 DEF SimDevices, SimPart, Sim!Moving
    <2>3. to \in SimPart("cylinder")
      BY <1>1 DEF SimDevices, SimPart
    <2> HIDE DEF to
    <2>4. e \in SimDevices /\ e.valve = x.valve /\ e.hr = x.hr
      BY <1>1, <2>3 DEF SimDevices, SimPart
    <2>5. SimTimers(e)
      BY <1>1, <2>2 DEF SimTimers, SimDevices, SimPart
    <2> QED  BY <2>1, <2>4, <2>5
  <1>4. "moving_up" \in Sim!Moving /\ "moving_down" \in Sim!Moving
    BY DEF Sim!Moving
  <1>5. CASE v = 0
    BY <1>5, <1>1, <1>3 DEF Sim!applyCylinderAction, x
  <1>6. CASE v = 1
    BY <1>6, <1>1, <1>2, <1>4 DEF Sim!applyCylinderAction, x
  <1>7. CASE v = 2
    BY <1>7, <1>1, <1>2, <1>4 DEF Sim!applyCylinderAction, x
  <1> QED  BY <1>5, <1>6, <1>7

LEMMA SimValve ==
    ASSUME NEW d, d \in SimDevices, SimTimers(d), NEW v \in 0..2
    PROVE  /\ Sim!applyValveAction(d, v) \in SimDevices /\ SimTimers(Sim!applyValveAction(d, v))
           /\ Sim!applyValveAction(d, v).cylinder = d.cylinder /\ Sim!applyValveAction(d, v).hr = [d.hr EXCEPT ![1] = v]
           /\ v = 1 => Sim!applyValveAction(d, v).valve \in {"moving_open", "open"}
           /\ v = 1 /\ d.valve # "open" => Sim!applyValveAction(d, v).valve = "moving_open"
  <1> DEFINE x == [d EXCEPT !.hr[1] = v]
  <1>1. x \in SimDevices /\ SimTimers(x) /\ x.valve = d.valve /\ x.cylinder = d.cylinder
        /\ x.hr = [d.hr EXCEPT ![1] = v]
    BY DEF SimDevices, SimPart, SimTimers
  <1> HIDE DEF x
  <1>2. \A t, m \in {"open", "closed", "moving_open", "moving_close"} : m \in Sim!Moving =>
           LET e == Sim!Go("valve", "valveTimer", x, t, m) IN
           /\ e \in SimDevices /\ SimTimers(e) /\ e.cylinder = x.cylinder /\ e.hr = x.hr
           /\ e.valve \in {t, m}
           /\ x.valve # t => e.valve = m
    <2> TAKE t, m \in {"open", "closed", "moving_open", "moving_close"}
    <2> HAVE m \in Sim!Moving
    <2> DEFINE y == [x EXCEPT !.valve = m, !.valveTimer = TRUE]
    <2>1. Sim!Go("valve", "valveTimer", x, t, m) = IF x.valve \in {t, m} THEN x ELSE y
      BY DEF Sim!Go
    <2>2. y \in SimDevices /\ y.valve = m /\ y.cylinder = x.cylinder /\ y.hr = x.hr /\ y.valveTimer
          /\ y.cylinderTimer = x.cylinderTimer
      BY <1>1 DEF SimDevices, SimPart
    <2>3. SimTimers(y)
      BY <1>1, <2>2 DEF SimTimers
    <2> QED  BY <1>1, <2>1, <2>2, <2>3
  <1>3. LET e == Sim!Halt("valve", "valveTimer", x) IN
        e \in SimDevices /\ SimTimers(e) /\ e.cylinder = x.cylinder /\ e.hr = x.hr
    <2> DEFINE to == IF x.valve \in Sim!Moving THEN "idle" ELSE x.valve
               e == [x EXCEPT !.valveTimer = FALSE, !.valve = to]
    <2>1. Sim!Halt("valve", "valveTimer", x) = e
      BY <1>1 DEF Sim!Halt, SimDevices, SimPart
    <2>2. to \in {"at_top", "at_bottom", "open", "closed", "idle"} /\ to \notin Sim!Moving
      BY <1>1 DEF SimDevices, SimPart, Sim!Moving
    <2>3. to \in SimPart("valve")
      BY <1>1 DEF SimDevices, SimPart
    <2> HIDE DEF to
    <2>4. e \in SimDevices /\ e.cylinder = x.cylinder /\ e.hr = x.hr
      BY <1>1, <2>3 DEF SimDevices, SimPart
    <2>5. SimTimers(e)
      BY <1>1, <2>2 DEF SimTimers, SimDevices, SimPart
    <2> QED  BY <2>1, <2>4, <2>5
  <1>4. "moving_open" \in Sim!Moving /\ "moving_close" \in Sim!Moving
    BY DEF Sim!Moving
  <1>5. CASE v = 0
    BY <1>5, <1>1, <1>3 DEF Sim!applyValveAction, x
  <1>6. CASE v = 1
    BY <1>6, <1>1, <1>2, <1>4 DEF Sim!applyValveAction, x
  <1>7. CASE v = 2
    BY <1>7, <1>1, <1>2, <1>4 DEF Sim!applyValveAction, x
  <1> QED  BY <1>5, <1>6, <1>7

\* Auto mode sends the crane to its goal.
LEMMA SimAuto ==
    ASSUME NEW d, d \in SimDevices, SimTimers(d)
    PROVE  /\ SimDevice(Sim!stepAutoSequence(d))
           /\ \A a \in 0..3 : \/ Sim!stepAutoSequence(d).hr[a] = d.hr[a]
                              \/ a \in {0, 1} /\ Sim!stepAutoSequence(d).hr[3] = 1
  <1>1. CASE d.hr[3] # 1
    BY <1>1 DEF Sim!stepAutoSequence, SimDevice, SimGoal
  <1>2. CASE d.hr[3] = 1 /\ d.valve \notin {"open", "moving_open"}
    <2>0. PICK k \in 0..2 : k = 1
      OBVIOUS
    <2> DEFINE e == Sim!applyValveAction(d, k)
    <2>1. e \in SimDevices /\ SimTimers(e) /\ e.hr = [d.hr EXCEPT ![1] = k] /\ e.valve = "moving_open"
      BY <1>2, <2>0, SimValve
    <2>2. Sim!stepAutoSequence(d) = e
      BY <1>2, <2>0 DEF Sim!stepAutoSequence
    <2>3. d.hr \in [0..3 -> 0..2]
      BY DEF SimDevices
    <2>4. \A a \in 0..3 : e.hr[a] = IF a = 1 THEN 1 ELSE d.hr[a]
      BY <2>0, <2>1, <2>3
    <2>5. e.hr[3] = 1
      BY <2>4, <1>2
    <2> HIDE DEF e
    <2> QED  BY <2>1, <2>2, <2>4, <2>5 DEF SimDevice, SimGoal
  <1>3. CASE d.hr[3] = 1 /\ d.valve \in {"open", "moving_open"} /\ d.cylinder \notin {"at_bottom", "moving_down"}
    <2>0. PICK k \in 0..2 : k = 2
      OBVIOUS
    <2> DEFINE e == Sim!applyCylinderAction(d, k)
    <2>1. e \in SimDevices /\ SimTimers(e) /\ e.hr = [d.hr EXCEPT ![0] = k] /\ e.valve = d.valve
          /\ e.cylinder \in {"moving_down", "at_bottom"}
      BY <2>0, SimCylinder
    <2>2. Sim!stepAutoSequence(d) = e
      BY <1>3, <2>0 DEF Sim!stepAutoSequence
    <2>3. d.hr \in [0..3 -> 0..2]
      BY DEF SimDevices
    <2>4. \A a \in 0..3 : e.hr[a] = IF a = 0 THEN 2 ELSE d.hr[a]
      BY <2>0, <2>1, <2>3
    <2>5. e.hr[3] = 1
      BY <2>4, <1>3
    <2>6. SimGoal(e)
      BY <2>1, <1>3 DEF SimGoal
    <2> HIDE DEF e
    <2> QED  BY <2>1, <2>2, <2>4, <2>5, <2>6 DEF SimDevice
  <1>4. CASE d.hr[3] = 1 /\ d.valve \in {"open", "moving_open"} /\ d.cylinder \in {"at_bottom", "moving_down"}
    BY <1>4 DEF Sim!stepAutoSequence, SimDevice, SimGoal
  <1> QED  BY <1>1, <1>2, <1>3, <1>4

(* A register a master has written is offered to the device. *)
LEMMA SimWrites ==
    ASSUME NEW d, SimDevice(d), NEW a \in 0..3, NEW v \in Nat, ~Sim!Refuses(d, a, v)
    PROVE  SimDevice(Sim!writeHoldingRegister(d, a, v))
  <1>1. d \in SimDevices /\ SimTimers(d) /\ d.hr \in [0..3 -> 0..2]
    BY DEF SimDevice, SimDevices
  <1>2. CASE a = 0
    <2>1. v \in 0..2 /\ d.hr[3] # 1
      BY <1>2 DEF Sim!Refuses
    <2> DEFINE e == Sim!applyCylinderAction(d, v)
    <2>2. e \in SimDevices /\ SimTimers(e) /\ e.hr = [d.hr EXCEPT ![0] = v]
      BY <1>1, <2>1, SimCylinder
    <2>3. e.hr[3] # 1
      BY <1>1, <2>1, <2>2
    <2>4. Sim!writeHoldingRegister(d, a, v) = e
      BY <1>2 DEF Sim!writeHoldingRegister
    <2> QED  BY <2>2, <2>3, <2>4 DEF SimDevice, SimGoal
  <1>3. CASE a = 1
    <2>1. v \in 0..2 /\ d.hr[3] # 1
      BY <1>3 DEF Sim!Refuses
    <2> DEFINE e == Sim!applyValveAction(d, v)
    <2>2. e \in SimDevices /\ SimTimers(e) /\ e.hr = [d.hr EXCEPT ![1] = v]
      BY <1>1, <2>1, SimValve
    <2>3. e.hr[3] # 1
      BY <1>1, <2>1, <2>2
    <2>4. Sim!writeHoldingRegister(d, a, v) = e
      BY <1>3 DEF Sim!writeHoldingRegister
    <2> QED  BY <2>2, <2>3, <2>4 DEF SimDevice, SimGoal
  <1>4. CASE a = 2
    <2>1. v \in 0..2
      BY <1>4 DEF Sim!Refuses
    <2> DEFINE e == [d EXCEPT !.hr[2] = v]
    <2>2. e \in SimDevices
      BY <1>1, <2>1 DEF SimDevices, SimPart
    <2>3. e.hr[3] = d.hr[3] /\ e.cylinder = d.cylinder /\ e.valve = d.valve
          /\ e.cylinderTimer = d.cylinderTimer /\ e.valveTimer = d.valveTimer
      BY <1>1 DEF SimDevices
    <2>4. Sim!writeHoldingRegister(d, a, v) = e
      BY <1>4 DEF Sim!writeHoldingRegister
    <2> QED  BY <2>2, <2>3, <2>4 DEF SimDevice, SimGoal, SimTimers
  <1>5. CASE a = 3
    <2>1. v \in 0..2
      BY <1>5 DEF Sim!Refuses
    <2> DEFINE x == [d EXCEPT !.hr[3] = v]
    <2>2. x \in SimDevices /\ SimTimers(x)
      BY <1>1, <2>1 DEF SimDevices, SimPart, SimTimers
    <2>3. Sim!writeHoldingRegister(d, a, v) = Sim!stepAutoSequence(x)
      BY <1>5 DEF Sim!writeHoldingRegister, Sim!applyModeAction
    <2> QED  BY <2>2, <2>3, SimAuto
  <1> QED  BY <1>2, <1>3, <1>4, <1>5

\* A device and whether something was refused.
SimOffer(x) == \E d, r : x = [d |-> d, rejected |-> r] /\ SimDevice(d)

\* Register after register, up to the m-th.
SimOffers(f, addr, values, m) ==
    f = [k \in 0..m |-> IF k = 0 THEN [d |-> dev, rejected |-> FALSE]
                        ELSE Sim!Offer(f[k - 1], addr, values, k)]

(* The recursion of onDataWritten has a solution. *)
LEMMA SimOffersAre ==
    ASSUME NEW addr, NEW values, Len(values) \in Nat
    PROVE  \E f : SimOffers(f, addr, values, Len(values))
                  /\ Sim!onDataWritten(addr, values) = f[Len(values)]
  <1> DEFINE n == Len(values)
             base == [d |-> dev, rejected |-> FALSE]
             T == {m \in Nat : \E f : SimOffers(f, addr, values, m)}
  <1>2. 0 \in T
    <2> DEFINE f == [k \in 0..0 |-> base]
    <2>1. SimOffers(f, addr, values, 0)
      BY DEF SimOffers
    <2> QED  BY <2>1
  <1>4. ASSUME NEW m \in Nat, m \in T
        PROVE  m + 1 \in T
    <2>1. PICK f : SimOffers(f, addr, values, m)
      BY <1>4
    <2>9. f = [k \in 0..m |-> IF k = 0 THEN base ELSE Sim!Offer(f[k - 1], addr, values, k)]
      BY <2>1 DEF SimOffers
    <2> DEFINE g == [k \in 0..(m + 1) |-> IF k <= m THEN f[k] ELSE Sim!Offer(f[m], addr, values, m + 1)]
    <2> HIDE DEF g, base
    <2>2. \A k \in 0..(m + 1) : g[k] = IF k = 0 THEN base ELSE Sim!Offer(g[k - 1], addr, values, k)
      <3> TAKE k \in 0..(m + 1)
      <3>1. CASE k = 0
        BY <3>1, <2>9 DEF g
      <3>2. CASE k \in 1..m
        <4>1. g[k] = f[k] /\ g[k - 1] = f[k - 1]
          BY <3>2 DEF g
        <4>2. f[k] = Sim!Offer(f[k - 1], addr, values, k)
          BY <2>9, <3>2
        <4> QED  BY <4>1, <4>2, <3>2
      <3>3. CASE k = m + 1
        <4>1. g[k] = Sim!Offer(f[m], addr, values, m + 1) /\ g[m] = f[m] /\ k - 1 = m /\ k # 0
          BY <3>3 DEF g
        <4> QED  BY <4>1, <3>3
      <3> QED  BY <3>1, <3>2, <3>3
    <2>3. g = [k \in 0..(m + 1) |-> g[k]]
      BY DEF g
    <2>4. SimOffers(g, addr, values, m + 1)
      BY <2>2, <2>3 DEF SimOffers, base
    <2> QED  BY <2>4
  <1>5. n \in T
    BY <1>2, <1>4, Inductive
  <1>6. \E f : SimOffers(f, addr, values, n)
    BY <1>5
  <1> DEFINE c == CHOOSE f : SimOffers(f, addr, values, n)
  <1>7. SimOffers(c, addr, values, n)
    BY <1>6
  <1>8. Sim!onDataWritten(addr, values) = c[n]
    BY DEF Sim!onDataWritten, SimOffers
  <1> QED  BY <1>7, <1>8

(* Whatever the device takes of a register, it stays a device. *)
LEMMA SimOfferKeeps ==
    ASSUME NEW x, SimOffer(x), NEW addr \in Nat, NEW values \in Seq(Nat), NEW i \in 1..Len(values)
    PROVE  SimOffer(Sim!Offer(x, addr, values, i))
  <1> DEFINE a == addr + i - 1
  <1>0. PICK d, r : x = [d |-> d, rejected |-> r] /\ SimDevice(d)
    BY DEF SimOffer
  <1>1. a \in Nat /\ values[i] \in Nat /\ Len(values) \in Nat
    OBVIOUS
  <1>2. CASE a >= (addr + Len(values)) % AddrEnd
    BY <1>2 DEF Sim!Offer
  <1>3. CASE ~(a >= (addr + Len(values)) % AddrEnd) /\ (a > 3 \/ Sim!Refuses(x.d, a, values[i]))
    <2>0. PICK t \in BOOLEAN : t = TRUE
      OBVIOUS
    <2>1. [x EXCEPT !.rejected = t] = [d |-> d, rejected |-> t]
      BY <1>0
    <2>2. Sim!Offer(x, addr, values, i) = [d |-> d, rejected |-> t]
      BY <1>3, <2>0, <2>1 DEF Sim!Offer
    <2> QED  BY <2>2, <1>0 DEF SimOffer
  <1>4. CASE ~(a >= (addr + Len(values)) % AddrEnd) /\ ~(a > 3 \/ Sim!Refuses(x.d, a, values[i]))
    <2> DEFINE e == Sim!writeHoldingRegister(x.d, a, values[i])
    <2>1. Sim!Offer(x, addr, values, i) = [x EXCEPT !.d = e]
      BY <1>4 DEF Sim!Offer
    <2>2. a \in 0..3 /\ x.d = d
      BY <1>0, <1>1, <1>4
    <2>3. SimDevice(e)
      BY <2>2, <1>0, <1>1, <1>4, SimWrites
    <2> HIDE DEF e
    <2>4. [x EXCEPT !.d = e] = [d |-> e, rejected |-> r]
      BY <1>0
    <2> QED  BY <2>1, <2>3, <2>4 DEF SimOffer
  <1> QED  BY <1>2, <1>3, <1>4

(* onDataWritten offers all registers of the write. *)
LEMMA SimOffered ==
    ASSUME SimDevice(dev), NEW addr \in Nat, NEW values \in Seq(Nat)
    PROVE  SimDevice(Sim!onDataWritten(addr, values).d)
  <1> DEFINE n == Len(values)
  <1>1. n \in Nat
    OBVIOUS
  <1>2. PICK f : SimOffers(f, addr, values, n) /\ Sim!onDataWritten(addr, values) = f[n]
    BY <1>1, SimOffersAre
  <1> DEFINE T == {m \in Nat : m <= n => SimOffer(f[m])}
  <1>3. f = [k \in 0..n |-> IF k = 0 THEN [d |-> dev, rejected |-> FALSE]
                            ELSE Sim!Offer(f[k - 1], addr, values, k)]
    BY <1>2 DEF SimOffers
  <1>4. 0 \in T
    <2>1. f[0] = [d |-> dev, rejected |-> FALSE]
      BY <1>1, <1>3
    <2>2. SimOffer(f[0])
      BY <2>1 DEF SimOffer
    <2> QED  BY <2>2
  <1>5. ASSUME NEW m \in Nat, m \in T
        PROVE  m + 1 \in T
    <2> SUFFICES ASSUME m + 1 <= n
                 PROVE  SimOffer(f[m + 1])
      OBVIOUS
    <2>1. SimOffer(f[m])
      BY <1>5, <1>1
    <2>2. m + 1 \in 1..n /\ m + 1 \in 0..n /\ (m + 1) - 1 = m /\ m + 1 # 0
      BY <1>1
    <2>3. f[m + 1] = Sim!Offer(f[m], addr, values, m + 1)
      BY <1>3, <2>2
    <2> QED  BY <2>1, <2>2, <2>3, SimOfferKeeps
  <1>6. n \in T
    <2> HIDE DEF T
    <2> QED  BY <1>1, <1>4, <1>5, Inductive
  <1>7. SimOffer(f[n])
    BY <1>1, <1>6
  <1> QED  BY <1>2, <1>7 DEF SimOffer

\* The data area after a copy, and after a write of a master.
SimArea(w) == DOMAIN w = {"hr", "up", "down", "open", "closed"} /\ 0..3 \subseteq DOMAIN w.hr

LEMMA SimSynced ==
    ASSUME NEW w, SimArea(w), NEW d, SimDevice(d)
    PROVE  /\ SimArea(Sim!Synced(w, d))
           /\ \A a \in 0..3 : Sim!Synced(w, d).hr[a] = d.hr[a]
           /\ ~(~Sim!Synced(w, d).up /\ Sim!Synced(w, d).down)
           /\ ~(Sim!Synced(w, d).open /\ Sim!Synced(w, d).closed)
  BY DEF SimArea, Sim!Synced

(* What the device and the area are after a step. *)
LEMMA SimCopies ==
    ASSUME NEW w, SimArea(w), wire' = Sim!Synced(w, dev'), SimDevice(dev'),
           DOMAIN ctl' = {"running", "writes", "commands"}
    PROVE  SimInv'
  BY SimSynced DEF SimInv, SimShown, SimArea

LEMMA SimTicks ==
    ASSUME SimInv, SimDevice(dev'), UNCHANGED <<ctl, wire>>,
           \A a \in 0..3 : \/ dev'.hr[a] = dev.hr[a]
                           \/ a \in {0, 1} /\ dev'.hr[3] = 1 /\ (a = 1 => dev'.hr[1] = dev.hr[1])
    PROVE  SimInv'
  <1>1. dev'.hr[3] = dev.hr[3]
    OBVIOUS
  <1> QED  BY <1>1 DEF SimInv, SimShown

(* Every step of the simulated crane keeps it so. *)
LEMMA SimStep == ASSUME SimInv, Sim!Next PROVE SimInv'
  <1>1. SimDevice(dev) /\ SimArea(wire) /\ DOMAIN ctl = {"running", "writes", "commands"}
    BY DEF SimInv, SimArea
  <1>2. CASE Sim!handleRun
    <2>1. CASE UNCHANGED <<wire, dev>> /\ ctl'.running = ctl.running
               /\ DOMAIN ctl' = {"running", "writes", "commands"}
      BY <2>1 DEF SimInv, SimShown
    <2>2. CASE wire' = Sim!Synced(wire, dev) /\ dev' = dev /\ DOMAIN ctl' = {"running", "writes", "commands"}
      BY <2>2, <1>1, SimCopies
    <2> QED  BY <1>1, <1>2, <2>1, <2>2 DEF Sim!handleRun
  <1>3. CASE Sim!UnknownCommand
    BY <1>3 DEF Sim!UnknownCommand, SimInv, SimShown
  <1>4. CASE Sim!RefreshTimeout
    BY <1>1, <1>4, SimCopies DEF Sim!RefreshTimeout
  <1>5. CASE Sim!CylinderTimeout
    <2> DEFINE to == CASE dev.cylinder = "moving_up" -> "at_top"
                       [] dev.cylinder = "moving_down" -> "at_bottom" [] OTHER -> dev.cylinder
               e == [dev EXCEPT !.cylinderTimer = FALSE, !.cylinder = to]
    <2>1. dev \in SimDevices /\ SimTimers(dev) /\ SimGoal(dev)
      BY <1>1 DEF SimDevice
    <2>2. dev' = e /\ dev.cylinder \in Sim!Moving
      BY <1>5, <2>1 DEF Sim!CylinderTimeout, SimTimers, SimDevices
    <2>3. to \in {"at_top", "at_bottom"} /\ (dev.cylinder = "moving_down" => to = "at_bottom")
      BY <2>1, <2>2 DEF SimDevices, SimPart, Sim!Moving
    <2>4. to \in SimPart("cylinder") /\ to \notin Sim!Moving
      BY <2>3 DEF SimPart, Sim!Moving
    <2> HIDE DEF to
    <2>5. e \in SimDevices /\ e.cylinder = to /\ e.valve = dev.valve /\ e.hr = dev.hr
          /\ e.cylinderTimer = FALSE /\ e.valveTimer = dev.valveTimer
      BY <2>1, <2>4 DEF SimDevices
    <2>6. SimTimers(e)
      BY <2>1, <2>4, <2>5 DEF SimTimers
    <2>7. SimGoal(e)
      BY <2>1, <2>2, <2>3, <2>5 DEF SimGoal, Sim!Moving
    <2>8. UNCHANGED <<ctl, wire>>
      BY <1>5 DEF Sim!CylinderTimeout
    <2> QED  BY <2>2, <2>5, <2>6, <2>7, <2>8, SimTicks DEF SimDevice
  <1>6. CASE Sim!ValveTimeout
    <2>1. dev \in SimDevices /\ SimTimers(dev) /\ SimGoal(dev) /\ dev.hr \in [0..3 -> 0..2]
      BY <1>1 DEF SimDevice, SimDevices
    <2>2. dev.valve \in Sim!Moving /\ UNCHANGED <<ctl, wire>>
      BY <1>6, <2>1 DEF Sim!ValveTimeout, SimTimers
    <2>3. ASSUME NEW to \in {"open", "closed", "idle"}
          PROVE  LET e == [dev EXCEPT !.valveTimer = FALSE, !.valve = to] IN
                 /\ e \in SimDevices /\ SimTimers(e) /\ e.hr = dev.hr /\ e.valve = to
                 /\ e.cylinder = dev.cylinder
      <3>1. to \in SimPart("valve") /\ to \notin Sim!Moving
        BY DEF SimPart, Sim!Moving
      <3> QED  BY <3>1, <2>1 DEF SimDevices, SimTimers
    <2>4. CASE dev.valve = "moving_open"
      <3> DEFINE x == [dev EXCEPT !.valveTimer = FALSE, !.valve = "open"]
      <3>1. x \in SimDevices /\ SimTimers(x) /\ x.hr = dev.hr /\ x.valve = "open"
        BY <2>3
      <3>2. dev' = Sim!stepAutoSequence(x)
        BY <1>6, <2>4 DEF Sim!ValveTimeout
      <3> HIDE DEF x
      <3>3. Sim!stepAutoSequence(x).hr[1] = x.hr[1]
        <4>1. x.hr[3] # 1 \/ x.valve \in {"open", "moving_open"}
          BY <3>1
        <4>2. Sim!applyCylinderAction(x, 2).hr[1] = x.hr[1]
          <5>1. PICK k \in 0..2 : k = 2
            OBVIOUS
          <5>2. Sim!applyCylinderAction(x, k).hr = [x.hr EXCEPT ![0] = k]
            BY <3>1, SimCylinder
          <5> QED  BY <5>1, <5>2, <3>1, <2>1
        <4> QED  BY <4>1, <4>2 DEF Sim!stepAutoSequence
      <3> QED  BY <3>1, <3>2, <3>3, <2>2, SimAuto, SimTicks
    <2>5. CASE dev.valve # "moving_open"
      <3>1. dev.valve = "moving_close"
        BY <2>1, <2>2, <2>5 DEF SimDevices, SimPart, Sim!Moving
      <3> DEFINE e == [dev EXCEPT !.valveTimer = FALSE, !.valve = "closed"]
      <3>2. e \in SimDevices /\ SimTimers(e) /\ e.hr = dev.hr /\ e.valve = "closed"
        BY <2>3
      <3>3. dev' = e
        BY <1>6, <2>1, <2>5, <3>1 DEF Sim!ValveTimeout, SimDevices
      <3>4. SimGoal(e)
        BY <2>1, <3>1, <3>2 DEF SimGoal
      <3> QED  BY <3>2, <3>3, <3>4, <2>2, SimTicks DEF SimDevice
    <2> QED  BY <2>4, <2>5
  <1>7. ASSUME NEW addr \in Nat, NEW values \in Seq(Nat), Sim!MasterWrites(addr, values)
        PROVE  SimInv'
    <2> DEFINE area == [wire EXCEPT !.hr = [a \in DOMAIN @ |-> IF a \in addr..(addr + Len(values) - 1)
                                        THEN values[a - addr + 1] ELSE @[a]]]
    <2>1. SimDevice(Sim!onDataWritten(addr, values).d)
      BY <1>1, SimOffered
    <2>2. dev' = Sim!onDataWritten(addr, values).d /\ wire' = Sim!Synced(area, dev')
          /\ DOMAIN ctl' = {"running", "writes", "commands"}
      BY <1>1, <1>7 DEF Sim!MasterWrites
    <2>3. SimArea(area)
      BY <1>1 DEF SimArea
    <2> QED  BY <2>1, <2>2, <2>3, SimCopies
  <1>8. ASSUME NEW a \in 0..(AddrEnd - 1), NEW v \in 0..3, Sim!MasterWrites(a, <<v>>)
        PROVE  SimInv'
    <2>1. a \in Nat /\ <<v>> \in Seq(Nat)
      BY DevicesAssumption
    <2> QED  BY <2>1, <1>8, <1>7
  <1>9. ASSUME NEW v \in 0..2, NEW w \in 0..2, Sim!MasterWrites(0, <<v, w>>)
        PROVE  SimInv'
    <2>1. 0 \in Nat /\ <<v, w>> \in Seq(Nat)
      OBVIOUS
    <2> QED  BY <2>1, <1>9, <1>7
  <1> QED  BY <1>2, <1>3, <1>4, <1>5, <1>6, <1>8, <1>9 DEF Sim!Next

-----------------------------------------------------------------------------
(* Numbers *)

LEMMA Beyond ==
    ASSUME NEW p \in Nat, NEW k \in Nat, k <= p, NEW i \in 1..(p - k)
    PROVE  k + i \in 1..p
  <1>1. i \in Int /\ 1 <= i /\ i <= p - k
    OBVIOUS
  <1>2. k + i \in Int /\ 1 <= k + i /\ k + i <= p
    BY <1>1
  <1> QED  BY <1>2

LEMMA Regrouped ==
    ASSUME NEW t \in Nat, NEW b \in Nat, NEW k \in Nat, NEW i \in Int
    PROVE  t + b + (k + i) = t + (b + k) + i /\ t + (k + i) = (t + k) + i
  OBVIOUS

LEMMA NotNegative == ASSUME NEW x, NEW t \in Nat, x = t PROVE x >= 0
  OBVIOUS

(* Sequences of whatever elements *)

Elements(s) == {s[i] : i \in DOMAIN s}
IsSeq(s) == s \in Seq(Elements(s))

LEMMA SeqIsSeq == ASSUME NEW S, NEW s \in Seq(S) PROVE IsSeq(s)
  <1>1. \A i \in 1..Len(s) : s[i] \in Elements(s)
    BY DEF Elements
  <1>2. Len(s) \in Nat /\ s = [i \in 1..Len(s) |-> s[i]]
    OBVIOUS
  <1> QED  BY <1>1, <1>2, IsASeq DEF IsSeq

LEMMA ConcatAny ==
    ASSUME NEW s, IsSeq(s), NEW t, IsSeq(t)
    PROVE  /\ IsSeq(s \o t) /\ Len(s) \in Nat /\ Len(t) \in Nat
           /\ Len(s \o t) = Len(s) + Len(t)
           /\ \A i \in 1..Len(s) : (s \o t)[i] = s[i]
           /\ \A i \in 1..Len(t) : (s \o t)[Len(s) + i] = t[i]
  <1> DEFINE S == Elements(s) \cup Elements(t)
  <1>1. s \in Seq(Elements(s)) /\ t \in Seq(Elements(t))
    BY DEF IsSeq
  <1> HIDE DEF IsSeq
  <1>2. s \in Seq(S) /\ t \in Seq(S)
    BY <1>1, SeqMonotonic
  <1> HIDE DEF S
  <1>3. s \o t \in Seq(S) /\ Len(s \o t) = Len(s) + Len(t) /\ Len(s) \in Nat /\ Len(t) \in Nat
    BY <1>2
  <1>4. \A i \in 1..Len(s) : (s \o t)[i] = s[i]
    BY <1>2, <1>3
  <1>5. \A i \in 1..Len(t) : (s \o t)[Len(s) + i] = t[i]
    BY <1>2, <1>3
  <1> QED  BY <1>3, <1>4, <1>5, SeqIsSeq

LEMMA SubAny ==
    ASSUME NEW s, IsSeq(s), NEW m \in 1..(Len(s) + 1), NEW n \in (m - 1)..Len(s)
    PROVE  /\ IsSeq(SubSeq(s, m, n))
           /\ Len(SubSeq(s, m, n)) = n - m + 1
           /\ \A i \in 1..(n - m + 1) : SubSeq(s, m, n)[i] = s[m + i - 1]
  <1> DEFINE S == Elements(s)
  <1>1. s \in Seq(S) /\ Len(s) \in Nat
    BY DEF IsSeq
  <1> HIDE DEF S
  <1>2. \A i \in m..n : s[i] \in S
    BY <1>1
  <1>3. SubSeq(s, m, n) \in Seq(S) /\ Len(SubSeq(s, m, n)) = n - m + 1
    BY <1>1, <1>2
  <1>4. \A i \in 1..(n - m + 1) : SubSeq(s, m, n)[i] = s[m + i - 1]
    BY <1>1, <1>3
  <1> QED  BY <1>3, <1>4, SeqIsSeq

LEMMA AppendAny ==
    ASSUME NEW s, IsSeq(s), NEW x
    PROVE  /\ IsSeq(Append(s, x)) /\ Len(s) \in Nat
           /\ Len(Append(s, x)) = Len(s) + 1
           /\ \A i \in 1..Len(s) : Append(s, x)[i] = s[i]
           /\ Append(s, x)[Len(s) + 1] = x
  <1> DEFINE S == Elements(s) \cup {x}
  <1>1. s \in Seq(Elements(s))
    BY DEF IsSeq
  <1>2. s \in Seq(S) /\ x \in S
    BY <1>1, SeqMonotonic
  <1> HIDE DEF S
  <1>3. Append(s, x) \in Seq(S)
    BY <1>2
  <1>4. IsSeq(Append(s, x))
    BY <1>3, SeqIsSeq
  <1>5. Len(Append(s, x)) = Len(s) + 1 /\ Len(s) \in Nat
    BY <1>2
  <1>6. \A i \in 1..Len(s) : Append(s, x)[i] = s[i]
    BY <1>2
  <1>7. Append(s, x)[Len(s) + 1] = x
    BY <1>2
  <1> QED  BY <1>4, <1>5, <1>6, <1>7

LEMMA SmallSeqs ==
    /\ IsSeq(<<>>) /\ Len(<<>>) = 0
    /\ \A x : IsSeq(<<x>>) /\ Len(<<x>>) = 1 /\ <<x>>[1] = x
    /\ \A x, y : IsSeq(<<x, y>>) /\ Len(<<x, y>>) = 2 /\ <<x, y>>[1] = x /\ <<x, y>>[2] = y
  <1>1. <<>> \in Seq({})
    OBVIOUS
  <1>2. ASSUME NEW x PROVE <<x>> \in Seq({x})
    OBVIOUS
  <1>3. ASSUME NEW x, NEW y PROVE <<x, y>> \in Seq({x, y})
    OBVIOUS
  <1> QED  BY <1>1, <1>2, <1>3, SeqIsSeq

-----------------------------------------------------------------------------
(* The Modbus servers *)

(***************************************************************************)
(* The requests of a master make a stream of pieces: 2k - 1 and 2k are     *)
(* those of the k-th.  What is in the buffer and under way is the end of   *)
(* this stream, and what has been taken from it is everything before.      *)
(***************************************************************************)
PieceOf(sent, j, x) ==
    \E k \in 1..Len(sent) : /\ x.q = sent[k]
                            /\ \/ j = 2 * k - 1 /\ x.part = 1
                               \/ j = 2 * k /\ x.part = 2

Numbered(sent) == \A k \in 1..Len(sent) : sent[k].tag = k

Taken(w) == 2 * Len(w.sent) - Len(w.buf) - Len(w.pipe)

SlaveLine(w) ==
    /\ DOMAIN w = {"open", "pipe", "buf", "timer", "sent", "out", "sync"}
    /\ IsSeq(w.sent) /\ IsSeq(w.pipe) /\ IsSeq(w.buf)
    /\ Numbered(w.sent)
    /\ Taken(w) >= 0
    /\ \A i \in 1..Len(w.buf) : PieceOf(w.sent, Taken(w) + i, w.buf[i])
    /\ \A i \in 1..Len(w.pipe) : PieceOf(w.sent, Taken(w) + Len(w.buf) + i, w.pipe[i])

(* Replies to requests all of which has been taken, in their order. *)
Replies(sent, out, taken) ==
    /\ IsSeq(out)
    /\ \A i \in 1..Len(out) : /\ out[i].tag \in 1..Len(sent)
                              /\ 2 * out[i].tag <= taken
                              /\ out[i].unit = sent[out[i].tag].unit
    /\ \A i, j \in 1..Len(out) : i < j => out[i].tag < out[j].tag

(* Over TCP there is one to each of them. *)
AllReplied(out, taken) == 2 * Len(out) = taken /\ \A i \in 1..Len(out) : out[i].tag = i

SlaveConn(w, kind) ==
    /\ SlaveLine(w)
    /\ Replies(w.sent, w.out, Taken(w))
    /\ kind = "tcp" /\ w.sync => AllReplied(w.out, Taken(w))

SlaveInv ==
    /\ DOMAIN ctl = {"kind", "running", "mode"} /\ ctl.kind \in {"tcp", "rtu", "serial"}
    /\ DOMAIN wire = Masters
    /\ DOMAIN said = {"n", "cmd", "status", "code", "val", "untold"}
    /\ \A m \in Masters : SlaveConn(wire[m], ctl.kind)
    /\ ctl.mode \in {"write", "all"} => said.untold = {}

LEMMA SlaveInvHolds == ASSUME SlaveInv PROVE Slave!AnswersAreTrue
  <1>1. ASSUME NEW m \in Masters
        PROVE  LET w == wire[m]
                   arrived == Len(w.sent) - ((Len(w.buf) + Len(w.pipe) + 1) \div 2)
               IN  /\ \A i, j \in DOMAIN w.out : i < j => w.out[i].tag < w.out[j].tag
                   /\ \A i \in DOMAIN w.out : w.out[i].unit = w.sent[w.out[i].tag].unit
                   /\ ctl.kind = "tcp" /\ w.sync => Slave!Tags(w.out) = [i \in 1..arrived |-> i]
    <2> DEFINE w == wire[m]
               arrived == Len(w.sent) - ((Len(w.buf) + Len(w.pipe) + 1) \div 2)
    <2>1. SlaveLine(w) /\ Replies(w.sent, w.out, Taken(w))
          /\ (ctl.kind = "tcp" /\ w.sync => AllReplied(w.out, Taken(w)))
      BY DEF SlaveInv, SlaveConn
    <2> HIDE DEF w
    <2>2. Len(w.out) \in Nat /\ Len(w.sent) \in Nat /\ Len(w.buf) \in Nat /\ Len(w.pipe) \in Nat
          /\ DOMAIN w.out = 1..Len(w.out)
      BY <2>1 DEF SlaveLine, Replies, IsSeq
    <2>3. /\ \A i, j \in DOMAIN w.out : i < j => w.out[i].tag < w.out[j].tag
          /\ \A i \in DOMAIN w.out : w.out[i].unit = w.sent[w.out[i].tag].unit
      BY <2>1, <2>2 DEF Replies
    <2>4. ASSUME ctl.kind = "tcp" /\ w.sync
          PROVE  Slave!Tags(w.out) = [i \in 1..arrived |-> i]
      <3>1. AllReplied(w.out, Taken(w))
        BY <2>1, <2>4
      <3>2. 2 * Len(w.out) = 2 * Len(w.sent) - Len(w.buf) - Len(w.pipe)
        BY <3>1 DEF AllReplied, Taken
      <3>3. ASSUME NEW a \in Nat, NEW b \in Nat, NEW c \in Nat, NEW d \in Nat, 2 * a = 2 * b - c - d
            PROVE  b - ((c + d + 1) \div 2) = a
        <4>1. c + d + 1 = 2 * (b - a) + 1 /\ b - a \in Nat
          BY <3>3
        <4>2. \A x \in Nat : (2 * x + 1) \div 2 = x
          OBVIOUS
        <4> QED  BY <4>1, <4>2
      <3>4. PICK a \in Nat, b \in Nat, c \in Nat, d \in Nat :
               a = Len(w.out) /\ b = Len(w.sent) /\ c = Len(w.buf) /\ d = Len(w.pipe)
        BY <2>2
      <3>5. arrived = Len(w.out)
        <4>0. 2 * a = 2 * b - c - d
          BY <3>2, <3>4
        <4>1. b - ((c + d + 1) \div 2) = a
          BY <4>0, <3>3
        <4> QED  BY <3>4, <4>1
      <3> QED  BY <3>1, <3>5, <2>2 DEF AllReplied, Slave!Tags
    <2> QED  BY <2>3, <2>4 DEF w
  <1> QED  BY <1>1 DEF Slave!AnswersAreTrue, SlaveInv

-----------------------------------------------------------------------------
(* A line on which nothing has happened. *)
LEMMA FreshLine ==
    ASSUME NEW kind
    PROVE  SlaveConn(Slave!Closed, kind) /\ SlaveConn(Slave!Open, kind)
  <1>1. ASSUME NEW w, DOMAIN w = {"open", "pipe", "buf", "timer", "sent", "out", "sync"},
               w.pipe = <<>>, w.buf = <<>>, w.sent = <<>>, w.out = <<>>
        PROVE  SlaveConn(w, kind)
    <2>0. IsSeq(<<>>) /\ Len(<<>>) = 0 /\ Len(w.out) = 0 /\ Len(w.sent) = 0
          /\ Len(w.buf) = 0 /\ Len(w.pipe) = 0
      BY <1>1, SmallSeqs
    <2>1. Taken(w) = 0
      BY <2>0 DEF Taken
    <2>2. SlaveLine(w)
      BY <1>1, <2>0, <2>1 DEF SlaveLine, Numbered
    <2>3. Replies(w.sent, w.out, Taken(w))
      BY <1>1, <2>0 DEF Replies
    <2>4. AllReplied(w.out, Taken(w))
      BY <1>1, <2>0, <2>1 DEF AllReplied
    <2> QED  BY <2>2, <2>3, <2>4 DEF SlaveConn
  <1>2. SlaveConn(Slave!Closed, kind)
    BY <1>1 DEF Slave!Closed
  <1>3. SlaveConn(Slave!Open, kind)
    BY <1>1 DEF Slave!Open, Slave!Closed
  <1> QED  BY <1>2, <1>3

LEMMA SlaveStarts == ASSUME Slave!Init PROVE SlaveInv
  BY FreshLine DEF Slave!Init, SlaveInv

-----------------------------------------------------------------------------
(* The stream of pieces *)

\* A request more makes the stream longer and changes nothing of it.
LEMMA LongerStream ==
    ASSUME NEW sent, IsSeq(sent), NEW q, NEW j, NEW x, PieceOf(sent, j, x)
    PROVE  PieceOf(Append(sent, q), j, x)
  <1>1. PICK k \in 1..Len(sent) : /\ x.q = sent[k]
                                  /\ \/ j = 2 * k - 1 /\ x.part = 1
                                     \/ j = 2 * k /\ x.part = 2
    BY DEF PieceOf
  <1>2. Append(sent, q)[k] = sent[k] /\ k \in 1..Len(Append(sent, q))
    BY AppendAny
  <1> QED  BY <1>1, <1>2 DEF PieceOf

LEMMA Lengths ==
    ASSUME NEW w, SlaveLine(w)
    PROVE  \E n, p, b, t \in Nat : /\ n = Len(w.sent) /\ p = Len(w.pipe) /\ b = Len(w.buf)
                                  /\ t = Taken(w) /\ t = 2 * n - b - p
  <1>1. IsSeq(w.sent) /\ IsSeq(w.pipe) /\ IsSeq(w.buf) /\ Taken(w) >= 0
    BY DEF SlaveLine
  <1>2. Len(w.sent) \in Nat /\ Len(w.pipe) \in Nat /\ Len(w.buf) \in Nat
    BY <1>1 DEF IsSeq
  <1>3. PICK n \in Nat, p \in Nat, b \in Nat : n = Len(w.sent) /\ p = Len(w.pipe) /\ b = Len(w.buf)
    BY <1>2
  <1>4. Taken(w) = 2 * n - b - p
    BY <1>3 DEF Taken
  <1>5. 2 * n - b - p \in Nat
    BY <1>1, <1>4
  <1> QED  BY <1>3, <1>4, <1>5

LEMMA SendsKeep ==
    ASSUME NEW w, NEW v, NEW kind, SlaveConn(w, kind), NEW q, q.tag = Len(w.sent) + 1,
           DOMAIN v = DOMAIN w, v.sent = Append(w.sent, q), v.pipe = w.pipe \o Slave!Pieces(q),
           v.buf = w.buf, v.out = w.out, v.sync = w.sync
    PROVE  SlaveConn(v, kind)
  <1>1. IsSeq(w.sent) /\ IsSeq(w.pipe) /\ IsSeq(w.buf) /\ IsSeq(w.out) /\ SlaveLine(w)
    BY DEF SlaveConn, SlaveLine, Replies
  <1>2. PICK n \in Nat, p \in Nat, b \in Nat, t \in Nat :
           /\ n = Len(w.sent) /\ p = Len(w.pipe) /\ b = Len(w.buf)
           /\ t = Taken(w) /\ t = 2 * n - b - p
    BY ONLY <1>1, Lengths
  <1>15. n \in Nat /\ p \in Nat /\ b \in Nat /\ t \in Nat
    OBVIOUS
  <1>3. /\ IsSeq(v.sent) /\ Len(v.sent) = n + 1 /\ v.sent[n + 1] = q
        /\ \A k \in 1..n : v.sent[k] = w.sent[k]
    BY <1>1, <1>2, AppendAny
  <1>4. /\ IsSeq(Slave!Pieces(q)) /\ Len(Slave!Pieces(q)) = 2
        /\ Slave!Pieces(q)[1] = [q |-> q, part |-> 1] /\ Slave!Pieces(q)[2] = [q |-> q, part |-> 2]
    BY SmallSeqs DEF Slave!Pieces
  <1>5. /\ IsSeq(v.pipe) /\ Len(v.pipe) = p + 2
        /\ \A i \in 1..p : v.pipe[i] = w.pipe[i]
        /\ v.pipe[p + 1] = [q |-> q, part |-> 1] /\ v.pipe[p + 2] = [q |-> q, part |-> 2]
    <2>1. PICK c : c = Slave!Pieces(q)
      OBVIOUS
    <2>2. v.pipe = w.pipe \o c /\ IsSeq(c) /\ Len(c) = 2 /\ 1 \in 1..2 /\ 2 \in 1..2
      BY <1>4, <2>1
    <2>3. c[1] = [q |-> q, part |-> 1] /\ c[2] = [q |-> q, part |-> 2]
      BY <1>4, <2>1
    <2>4. /\ IsSeq(v.pipe) /\ Len(v.pipe) = Len(w.pipe) + Len(c)
          /\ \A i \in 1..Len(w.pipe) : v.pipe[i] = w.pipe[i]
          /\ \A i \in 1..Len(c) : v.pipe[Len(w.pipe) + i] = c[i]
      <3>1. PICK x, y : x = w.pipe /\ y = v.pipe
        OBVIOUS
      <3>2. IsSeq(x) /\ IsSeq(c) /\ y = x \o c
        BY <1>1, <2>2, <3>1
      <3>3. /\ IsSeq(y) /\ Len(y) = Len(x) + Len(c)
            /\ \A i \in 1..Len(x) : y[i] = x[i]
            /\ \A i \in 1..Len(c) : y[Len(x) + i] = c[i]
        BY ONLY <3>2, ConcatAny
      <3> QED  BY <3>1, <3>3
    <2> QED  BY ONLY <1>2, <1>15, <2>2, <2>3, <2>4
  <1>6. Taken(v) = t /\ Len(v.buf) = b
    BY <1>2, <1>3, <1>5 DEF Taken
  <1>7. Numbered(v.sent)
    <2> SUFFICES ASSUME NEW k \in 1..(n + 1)
                 PROVE  v.sent[k].tag = k
      BY <1>3 DEF Numbered
    <2>1. CASE k \in 1..n
      BY <2>1, <1>1, <1>2, <1>3 DEF SlaveLine, Numbered
    <2>2. CASE k = n + 1
      BY <2>2, <1>2, <1>3
    <2> QED  BY <2>1, <2>2, <1>2
  <1>8. ASSUME NEW i \in 1..b
        PROVE  PieceOf(v.sent, t + i, v.buf[i])
    <2>1. PieceOf(w.sent, t + i, w.buf[i])
      BY <1>1, <1>2 DEF SlaveLine
    <2> QED  BY <1>1, <2>1, LongerStream
  <1>9. ASSUME NEW i \in 1..(p + 2)
        PROVE  PieceOf(v.sent, t + b + i, v.pipe[i])
    <2>1. CASE i \in 1..p
      <3>1. PieceOf(w.sent, t + b + i, w.pipe[i])
        BY <2>1, <1>1, <1>2 DEF SlaveLine
      <3>2. v.pipe[i] = w.pipe[i]
        BY <1>5, <2>1
      <3> QED  BY <1>1, <3>1, <3>2, LongerStream
    <2> DEFINE m == n + 1
    <2>2. m \in 1..Len(v.sent) /\ v.sent[m] = q
      BY <1>2, <1>3
    <2>3. CASE i = p + 1
      <3>1. PICK x : x = v.pipe[p + 1] /\ x = [q |-> q, part |-> 1]
        BY <1>5
      <3>2. x.q = q /\ x.part = 1
        BY <3>1
      <3>3. t + b + i = 2 * (n + 1) - 1
        <4>1. t + b + (p + 1) = 2 * (n + 1) - 1
          <5>1. t = 2 * n - b - p
            BY <1>2
          <5> QED  BY ONLY <5>1, <1>15
        <4> QED  BY ONLY <4>1, <2>3
      <3>5. t + b + i = 2 * m - 1
        BY <3>3
      <3> HIDE DEF m
      <3>4. PieceOf(v.sent, t + b + i, x)
        BY <2>2, <3>2, <3>5 DEF PieceOf
      <3> QED  BY <3>1, <3>4, <2>3
    <2>4. CASE i = p + 2
      <3>1. PICK x : x = v.pipe[p + 2] /\ x = [q |-> q, part |-> 2]
        BY <1>5
      <3>2. x.q = q /\ x.part = 2
        BY <3>1
      <3>3. t + b + i = 2 * (n + 1)
        <4>1. t + b + (p + 2) = 2 * (n + 1)
          <5>1. t = 2 * n - b - p
            BY <1>2
          <5> QED  BY ONLY <5>1, <1>15
        <4> QED  BY ONLY <4>1, <2>4
      <3>5. t + b + i = 2 * m
        BY <3>3
      <3> HIDE DEF m
      <3>4. PieceOf(v.sent, t + b + i, x)
        BY <2>2, <3>2, <3>5 DEF PieceOf
      <3> QED  BY <3>1, <3>4, <2>4
    <2>5. i \in 1..p \/ i = p + 1 \/ i = p + 2
      BY ONLY <1>2, <1>15, i \in 1..(p + 2)
    <2> QED  BY <2>1, <2>3, <2>4, <2>5
  <1>10. SlaveLine(v)
    <2>1. DOMAIN v = {"open", "pipe", "buf", "timer", "sent", "out", "sync"}
      BY <1>1 DEF SlaveLine
    <2>2. Taken(v) >= 0
      BY ONLY <1>15, <1>6, NotNegative
    <2>3. IsSeq(v.buf)
      BY <1>1
    <2> QED  BY <1>3, <1>5, <1>6, <1>7, <1>8, <1>9, <2>1, <2>2, <2>3 DEF SlaveLine
  <1>11. Replies(v.sent, v.out, Taken(v))
    <2>1. Replies(w.sent, w.out, t)
      BY <1>2 DEF SlaveConn
    <2>2. \A x \in 1..n : x \in 1..(n + 1)
      BY ONLY <1>2, <1>15
    <2> QED  BY ONLY <1>1, <1>2, <1>15, <1>3, <1>6, <2>1, <2>2, v.out = w.out DEF Replies
  <1>12. kind = "tcp" /\ v.sync => AllReplied(v.out, Taken(v))
    BY <1>2, <1>6 DEF SlaveConn
  <1> QED  BY <1>10, <1>11, <1>12 DEF SlaveConn

\* Pieces that arrive go from the line to the buffer.
LEMMA ReadsKeep ==
    ASSUME NEW w, SlaveLine(w), NEW k \in Nat, 1 <= k, k <= Len(w.pipe), NEW v,
           DOMAIN v = DOMAIN w, v.sent = w.sent, v.pipe = SubSeq(w.pipe, k + 1, Len(w.pipe)),
           v.buf = w.buf \o SubSeq(w.pipe, 1, k)
    PROVE  SlaveLine(v) /\ Taken(v) = Taken(w) /\ Len(v.buf) = Len(w.buf) + k
  <1>1. IsSeq(w.sent) /\ IsSeq(w.pipe) /\ IsSeq(w.buf)
    BY DEF SlaveLine
  <1>2. PICK n \in Nat, p \in Nat, b \in Nat, t \in Nat :
           /\ n = Len(w.sent) /\ p = Len(w.pipe) /\ b = Len(w.buf)
           /\ t = Taken(w) /\ t = 2 * n - b - p
    BY ONLY SlaveLine(w), Lengths
  <1>15. n \in Nat /\ p \in Nat /\ b \in Nat /\ t \in Nat
    OBVIOUS
  <1>0. k \in 1..p /\ p - k \in Nat
    BY <1>2
  <1> DEFINE s == SubSeq(w.pipe, 1, k)
  <1>3. IsSeq(s) /\ Len(s) = k /\ \A i \in 1..k : s[i] = w.pipe[i]
    <2>1. 1 \in 1..(Len(w.pipe) + 1) /\ k \in (1 - 1)..Len(w.pipe)
      BY <1>0, <1>2
    <2>2. /\ IsSeq(s) /\ Len(s) = k - 1 + 1
          /\ \A i \in 1..(k - 1 + 1) : s[i] = w.pipe[1 + i - 1]
      BY ONLY <1>1, <2>1, SubAny
    <2>3. k - 1 + 1 = k /\ \A i \in 1..k : 1 + i - 1 = i
      OBVIOUS
    <2> HIDE DEF s
    <2> QED  BY ONLY <2>2, <2>3
  <1>4. IsSeq(v.pipe) /\ Len(v.pipe) = p - k /\ \A i \in 1..(p - k) : v.pipe[i] = w.pipe[k + i]
    <2> DEFINE r == SubSeq(w.pipe, k + 1, p)
    <2>1. k + 1 \in 1..(Len(w.pipe) + 1) /\ p \in ((k + 1) - 1)..Len(w.pipe)
      BY <1>0, <1>2
    <2>2. /\ IsSeq(r) /\ Len(r) = p - (k + 1) + 1
          /\ \A i \in 1..(p - (k + 1) + 1) : r[i] = w.pipe[(k + 1) + i - 1]
      BY ONLY <1>1, <2>1, SubAny
    <2>3. p - (k + 1) + 1 = p - k /\ \A i \in 1..(p - k) : (k + 1) + i - 1 = k + i
      BY ONLY <1>0, k \in Nat, p \in Nat
    <2>4. v.pipe = r
      BY <1>2
    <2> HIDE DEF r
    <2> QED  BY ONLY <2>2, <2>3, <2>4
  <1>5. /\ IsSeq(v.buf) /\ Len(v.buf) = b + k
        /\ \A i \in 1..b : v.buf[i] = w.buf[i]
        /\ \A i \in 1..k : v.buf[b + i] = w.pipe[i]
    <2>1. v.buf = w.buf \o s
      OBVIOUS
    <2> HIDE DEF s
    <2>2. /\ IsSeq(v.buf) /\ Len(v.buf) = Len(w.buf) + Len(s)
          /\ \A i \in 1..Len(w.buf) : v.buf[i] = w.buf[i]
          /\ \A i \in 1..Len(s) : v.buf[Len(w.buf) + i] = s[i]
      <3>1. PICK x, y : x = w.buf /\ y = v.buf
        OBVIOUS
      <3>2. IsSeq(x) /\ IsSeq(s) /\ y = x \o s
        BY <1>1, <1>3, <2>1, <3>1
      <3>3. /\ IsSeq(y) /\ Len(y) = Len(x) + Len(s)
            /\ \A i \in 1..Len(x) : y[i] = x[i]
            /\ \A i \in 1..Len(s) : y[Len(x) + i] = s[i]
        BY ONLY <3>2, ConcatAny
      <3> QED  BY <3>1, <3>3
    <2> QED  BY ONLY <1>2, <1>15, <1>3, <2>1, <2>2
  <1>6. Taken(v) = t
    <2>1. Taken(v) = 2 * n - (b + k) - (p - k)
      BY <1>2, <1>4, <1>5 DEF Taken
    <2> QED  BY ONLY <1>2, <1>15, <2>1, k \in Nat
  <1>7. ASSUME NEW i \in 1..(b + k)
        PROVE  PieceOf(v.sent, t + i, v.buf[i])
    <2>1. CASE i \in 1..b
      BY <1>2, <1>5, <2>1 DEF SlaveLine
    <2>2. CASE i \notin 1..b
      <3>1. i - b \in 1..k /\ i - b \in 1..p /\ i = b + (i - b) /\ t + b + (i - b) = t + i
        BY ONLY <1>0, <1>2, <1>15, <2>2, i \in 1..(b + k), k \in Nat
      <3>2. v.buf[i] = w.pipe[i - b]
        BY <1>5, <3>1
      <3>3. PieceOf(w.sent, t + b + (i - b), w.pipe[i - b])
        BY <1>2, <3>1 DEF SlaveLine
      <3> QED  BY <3>1, <3>2, <3>3
    <2> QED  BY <2>1, <2>2
  <1>8. ASSUME NEW i \in 1..(p - k)
        PROVE  PieceOf(v.sent, t + (b + k) + i, v.pipe[i])
    <2>1. k + i \in 1..p /\ t + b + (k + i) = t + (b + k) + i
      BY <1>0, <1>15, Beyond, Regrouped
    <2>2. PieceOf(w.sent, t + b + (k + i), w.pipe[k + i])
      BY <1>2, <2>1 DEF SlaveLine
    <2> QED  BY <1>4, <2>1, <2>2
  <1>9. DOMAIN v = {"open", "pipe", "buf", "timer", "sent", "out", "sync"} /\ Numbered(v.sent)
    BY DEF SlaveLine
  <1>10. Taken(v) >= 0 /\ IsSeq(v.sent)
    BY <1>1, <1>15, <1>6, NotNegative
  <1>11. SlaveLine(v)
    BY ONLY <1>4, <1>5, <1>6, <1>7, <1>8, <1>9, <1>10 DEF SlaveLine
  <1> QED  BY ONLY <1>2, <1>15, <1>5, <1>6, <1>11

\* Pieces that are served or dropped leave the buffer at its front.
LEMMA DropsKeep ==
    ASSUME NEW w, SlaveLine(w), NEW k \in Nat, k <= Len(w.buf), NEW v,
           DOMAIN v = DOMAIN w, v.sent = w.sent, v.pipe = w.pipe,
           IsSeq(v.buf), Len(v.buf) = Len(w.buf) - k,
           \A i \in 1..(Len(w.buf) - k) : v.buf[i] = w.buf[k + i]
    PROVE  SlaveLine(v) /\ Taken(v) = Taken(w) + k
  <1>1. IsSeq(w.sent) /\ IsSeq(w.pipe) /\ IsSeq(w.buf)
    BY DEF SlaveLine
  <1>2. PICK n \in Nat, p \in Nat, b \in Nat, t \in Nat :
           /\ n = Len(w.sent) /\ p = Len(w.pipe) /\ b = Len(w.buf)
           /\ t = Taken(w) /\ t = 2 * n - b - p
    BY ONLY SlaveLine(w), Lengths
  <1>15. n \in Nat /\ p \in Nat /\ b \in Nat /\ t \in Nat
    OBVIOUS
  <1>3. Len(v.buf) = b - k /\ b - k \in Nat /\ \A i \in 1..(b - k) : v.buf[i] = w.buf[k + i]
    BY <1>2
  <1>4. Taken(v) = t + k
    <2>1. Taken(v) = 2 * n - (b - k) - p
      BY <1>2 DEF Taken
    <2> QED  BY ONLY <1>2, <1>15, <2>1, k \in Nat
  <1>5. ASSUME NEW i \in 1..(b - k)
        PROVE  PieceOf(v.sent, (t + k) + i, v.buf[i])
    <2>1. k + i \in 1..b /\ t + (k + i) = (t + k) + i
      <3>1. k <= b
        BY <1>2
      <3>2. k + i \in 1..b
        BY ONLY <3>1, <1>15, k \in Nat, i \in 1..(b - k), Beyond
      <3>3. i \in Int
        OBVIOUS
      <3>4. t + (k + i) = (t + k) + i
        BY ONLY <1>15, k \in Nat, <3>3, Regrouped
      <3> QED  BY ONLY <3>2, <3>4
    <2>2. PieceOf(w.sent, t + (k + i), w.buf[k + i])
      BY <1>2, <2>1 DEF SlaveLine
    <2> QED  BY <1>3, <2>1, <2>2
  <1>6. ASSUME NEW i \in 1..p
        PROVE  PieceOf(v.sent, (t + k) + (b - k) + i, v.pipe[i])
    <2>1. t + b + i = (t + k) + (b - k) + i
      BY ONLY <1>2, <1>15, i \in 1..p, k \in Nat
    <2>2. PieceOf(w.sent, t + b + i, w.pipe[i])
      BY <1>2 DEF SlaveLine
    <2> QED  BY <2>1, <2>2
  <1>7. DOMAIN v = {"open", "pipe", "buf", "timer", "sent", "out", "sync"} /\ Numbered(v.sent)
    BY DEF SlaveLine
  <1>8. Taken(v) >= 0 /\ IsSeq(v.sent) /\ IsSeq(v.pipe) /\ Len(v.pipe) = p
    <2>1. t + k \in Nat
      BY <1>15
    <2>2. Taken(v) >= 0
      BY <2>1, <1>4, NotNegative
    <2> QED  BY <1>1, <1>2, <2>2
  <1>9. SlaveLine(v)
    BY ONLY <1>3, <1>4, <1>5, <1>6, <1>7, <1>8, IsSeq(v.buf) DEF SlaveLine
  <1> QED  BY ONLY <1>2, <1>15, <1>4, <1>9

\* What has been done of the requests: no cell untold of in the modes that tell.
Told(cells) == ctl.mode \in {"write", "all"} => cells = {}

LEMMA UntoldNone == ASSUME NEW q PROVE Told(Slave!Untold(q))
  BY DEF Told, Slave!Untold, Slave!TellsWrites

LEMMA FrameOf ==
    ASSUME NEW q, NEW pdu
    PROVE  LET f == Slave!Frame(q, pdu)
           IN  /\ f.tag = q.tag /\ f.unit = q.unit
               /\ Slave!Wrapped(f).tag = q.tag /\ Slave!Wrapped(f).unit = q.unit
  <1> DEFINE f == Slave!Frame(q, pdu)
  <1>1. PICK a, b, c, d : f = [tag |-> a, unit |-> b, fc |-> c, p |-> d] /\ a = q.tag /\ b = q.unit
    BY DEF Slave!Frame
  <1> HIDE DEF f
  <1>2. PICK z \in {0} : z = 0
    OBVIOUS
  <1>3. PICK x : x = <<f.tag, f.unit, f.fc>> \o f.p
    OBVIOUS
  <1>4. Slave!Wrapped(f) = [f EXCEPT !.fc = z, !.p = x]
    BY <1>2, <1>3 DEF Slave!Wrapped
  <1>5. DOMAIN f = {"tag", "unit", "fc", "p"}
    BY <1>1
  <1>6. Slave!Wrapped(f).tag = f.tag /\ Slave!Wrapped(f).unit = f.unit
    BY ONLY <1>4, <1>5
  <1> QED  BY <1>1, <1>6 DEF f

\* What one request does: at most one reply, with its number and its unit.
OneEffect(x, q, kind) ==
    \E u, r, c : /\ x = [units |-> u, reply |-> r, untold |-> c]
                 /\ Told(c)
                 /\ \/ r = <<>> /\ kind = "serial"
                    \/ \E f : r = <<f>> /\ f.tag = q.tag /\ f.unit = q.unit

LEMMA OneRequest ==
    ASSUME NEW units, NEW q, ctl.kind \in {"tcp", "rtu", "serial"}
    PROVE  OneEffect(Slave!Processed(units, q), q, ctl.kind)
  <1>0. Told({})
    BY DEF Told
  <1>1. ASSUME NEW u, NEW pdu, NEW kind, NEW c, Told(c)
        PROVE  OneEffect(Slave!Effect(u, <<Slave!Frame(q, pdu)>>, c), q, kind)
    <2>1. PICK f : f = Slave!Frame(q, pdu) /\ f.tag = q.tag /\ f.unit = q.unit
      BY FrameOf
    <2>2. PICK r : r = <<f>>
      OBVIOUS
    <2>3. Slave!Effect(u, <<Slave!Frame(q, pdu)>>, c) = [units |-> u, reply |-> r, untold |-> c]
      BY <2>1, <2>2 DEF Slave!Effect
    <2> QED  BY <2>1, <2>2, <2>3, <1>1 DEF OneEffect
  <1>2. ASSUME NEW u, NEW pdu, NEW kind, NEW c, Told(c)
        PROVE  OneEffect(Slave!Effect(u, <<Slave!Wrapped(Slave!Frame(q, pdu))>>, c), q, kind)
    <2>1. PICK f : f = Slave!Wrapped(Slave!Frame(q, pdu)) /\ f.tag = q.tag /\ f.unit = q.unit
      BY FrameOf
    <2>2. PICK r : r = <<f>>
      OBVIOUS
    <2>3. Slave!Effect(u, <<Slave!Wrapped(Slave!Frame(q, pdu))>>, c) = [units |-> u, reply |-> r, untold |-> c]
      BY <2>1, <2>2 DEF Slave!Effect
    <2> QED  BY <2>1, <2>2, <2>3, <1>2 DEF OneEffect
  <1>3. ASSUME NEW u
        PROVE  OneEffect(Slave!Effect(u, <<>>, {}), q, "serial")
    BY <1>0 DEF OneEffect, Slave!Effect
  <1>4. OneEffect(Slave!processRequest(units, q), q, "tcp")
    <2>1. CASE q.unit \notin DOMAIN units
      BY <2>1, <1>0, <1>1 DEF Slave!processRequest
    <2>2. CASE q.unit \in DOMAIN units
      <3> DEFINE f == Slave!Frame(q, Slave!Pdu(units, q))
      <3>1. \/ Slave!processRequest(units, q) = Slave!Effect(Slave!Stored(units, q), <<f>>, Slave!Untold(q))
            \/ Slave!processRequest(units, q) = Slave!Effect(Slave!Stored(units, q), <<Slave!Wrapped(f)>>, Slave!Untold(q))
        BY <2>2 DEF Slave!processRequest
      <3> QED  BY <3>1, <1>1, <1>2, UntoldNone
    <2> QED  BY <2>1, <2>2
  <1>5. OneEffect(Slave!processRtuRequest(units, q), q, "rtu")
    <2>1. CASE q.unit \notin DOMAIN units
      BY <2>1, <1>0, <1>1 DEF Slave!processRtuRequest
    <2>2. CASE q.unit \in DOMAIN units
      <3>1. Slave!processRtuRequest(units, q)
              = Slave!Effect(Slave!Stored(units, q), <<Slave!Frame(q, Slave!Pdu(units, q))>>, Slave!Untold(q))
        BY <2>2 DEF Slave!processRtuRequest
      <3> QED  BY <3>1, <1>1, UntoldNone
    <2> QED  BY <2>1, <2>2
  <1>6. OneEffect(Slave!processSerialRequest(units, q), q, "serial")
    <2>1. \/ \E u : Slave!processSerialRequest(units, q) = Slave!Effect(u, <<>>, {})
          \/ Slave!processSerialRequest(units, q)
              = Slave!Effect(Slave!Stored(units, q), <<Slave!Frame(q, Slave!Pdu(units, q))>>, Slave!Untold(q))
      BY DEF Slave!processSerialRequest
    <2> QED  BY <2>1, <1>1, <1>3, UntoldNone
  <1>7. CASE ctl.kind = "tcp"
    BY <1>7, <1>4 DEF Slave!Processed
  <1>8. CASE ctl.kind = "rtu"
    BY <1>8, <1>5 DEF Slave!Processed
  <1>9. CASE ctl.kind = "serial"
    BY <1>9, <1>6 DEF Slave!Processed
  <1> QED  BY <1>7, <1>8, <1>9

-----------------------------------------------------------------------------
(* The requests of a buffer, one after the other, up to the m-th piece. *)
Servings(f, buf, starts, m) ==
    f = [k \in 0..m |-> IF k = 0 THEN Slave!Effect(dev, <<>>, {})
                        ELSE Slave!ServeAt(f[k - 1], buf, starts, k)]

(* The recursion of Served has a solution. *)
LEMMA ServedIs ==
    ASSUME NEW buf, Len(buf) \in Nat, NEW starts
    PROVE  \E f : Servings(f, buf, starts, Len(buf)) /\ Slave!Served(buf, starts) = f[Len(buf)]
  <1> DEFINE n == Len(buf)
             base == Slave!Effect(dev, <<>>, {})
             T == {m \in Nat : \E f : Servings(f, buf, starts, m)}
  <1>2. 0 \in T
    <2> DEFINE f == [k \in 0..0 |-> base]
    <2>1. Servings(f, buf, starts, 0)
      BY DEF Servings
    <2> QED  BY <2>1
  <1>4. ASSUME NEW m \in Nat, m \in T
        PROVE  m + 1 \in T
    <2>1. PICK f : Servings(f, buf, starts, m)
      BY <1>4
    <2>9. f = [k \in 0..m |-> IF k = 0 THEN base ELSE Slave!ServeAt(f[k - 1], buf, starts, k)]
      BY <2>1 DEF Servings
    <2> DEFINE g == [k \in 0..(m + 1) |-> IF k <= m THEN f[k] ELSE Slave!ServeAt(f[m], buf, starts, m + 1)]
    <2> HIDE DEF g, base
    <2>2. \A k \in 0..(m + 1) : g[k] = IF k = 0 THEN base ELSE Slave!ServeAt(g[k - 1], buf, starts, k)
      <3> TAKE k \in 0..(m + 1)
      <3>1. CASE k = 0
        BY <3>1, <2>9 DEF g
      <3>2. CASE k \in 1..m
        <4>1. g[k] = f[k] /\ g[k - 1] = f[k - 1]
          BY <3>2 DEF g
        <4>2. f[k] = Slave!ServeAt(f[k - 1], buf, starts, k)
          BY <2>9, <3>2
        <4> QED  BY <4>1, <4>2, <3>2
      <3>3. CASE k = m + 1
        <4>1. g[k] = Slave!ServeAt(f[m], buf, starts, m + 1) /\ g[m] = f[m] /\ k - 1 = m /\ k # 0
          BY <3>3 DEF g
        <4> QED  BY <4>1, <3>3
      <3> QED  BY <3>1, <3>2, <3>3
    <2>3. g = [k \in 0..(m + 1) |-> g[k]]
      BY DEF g
    <2>4. Servings(g, buf, starts, m + 1)
      BY <2>2, <2>3 DEF Servings, base
    <2> QED  BY <2>4
  <1>5. n \in T
    BY <1>2, <1>4, Inductive
  <1>6. \E f : Servings(f, buf, starts, n)
    BY <1>5
  <1> DEFINE c == CHOOSE f : Servings(f, buf, starts, n)
  <1>7. Servings(c, buf, starts, n)
    BY <1>6
  <1>8. Slave!Served(buf, starts) = c[n]
    BY DEF Slave!Served, Servings
  <1> QED  BY <1>7, <1>8

-----------------------------------------------------------------------------
(* What the requests up to piece k have come to: replies with the numbers of
   requests that start at most there, in their order, and nothing untold. *)
Numbers(sent, taken, starts, k, f) == \E i \in starts \cap (1..k) : /\ f.tag \in 1..Len(sent) /\ 2 * f.tag = taken + i + 1
                                             /\ f.unit = sent[f.tag].unit

SoFar(e, sent, taken, starts, k) ==
    \E u, r, c : /\ e = [units |-> u, reply |-> r, untold |-> c]
                 /\ Told(c) /\ IsSeq(r)
                 /\ \A j \in 1..Len(r) : Numbers(sent, taken, starts, k, r[j])
                 /\ \A i, j \in 1..Len(r) : i < j => r[i].tag < r[j].tag

\* The pieces of a buffer where a request starts.
StartsOf(sent, taken, buf, starts) ==
    \A i \in starts \cap (1..Len(buf)) :
       \E t \in 1..Len(sent) : 2 * t = taken + i + 1 /\ buf[i].q = sent[t]

LEMMA OneServed ==
    ASSUME NEW sent, IsSeq(sent), Numbered(sent), NEW taken \in Nat, NEW buf, Len(buf) \in Nat, NEW starts,
           StartsOf(sent, taken, buf, starts), ctl.kind \in {"tcp", "rtu", "serial"},
           NEW k \in Nat, k + 1 <= Len(buf), NEW e, SoFar(e, sent, taken, starts, k)
    PROVE  /\ SoFar(Slave!ServeAt(e, buf, starts, k + 1), sent, taken, starts, k + 1)
           /\ k + 1 \notin starts => Slave!ServeAt(e, buf, starts, k + 1) = e
           /\ k + 1 \in starts /\ ctl.kind # "serial" =>
                 \E f, t : /\ Slave!ServeAt(e, buf, starts, k + 1).reply = Append(e.reply, f)
                          /\ f.tag = t /\ t \in 1..Len(sent) /\ 2 * t = taken + (k + 1) + 1
  <1>0. PICK u, r, c : /\ e = [units |-> u, reply |-> r, untold |-> c]
                       /\ Told(c) /\ IsSeq(r)
                       /\ \A j \in 1..Len(r) : Numbers(sent, taken, starts, k, r[j])
                       /\ \A i, j \in 1..Len(r) : i < j => r[i].tag < r[j].tag
    BY DEF SoFar
  <1>1. e.units = u /\ e.reply = r /\ e.untold = c
    BY <1>0
  <1>2. Len(r) \in Nat /\ Len(sent) \in Nat
    BY <1>0 DEF IsSeq
  <1>3. \A j \in 1..Len(r) : Numbers(sent, taken, starts, k + 1, r[j])
    <2> SUFFICES ASSUME NEW j \in 1..Len(r) PROVE Numbers(sent, taken, starts, k + 1, r[j])
      OBVIOUS
    <2>1. PICK i \in starts \cap (1..k) : /\ r[j].tag \in 1..Len(sent) /\ 2 * r[j].tag = taken + i + 1
                            /\ r[j].unit = sent[r[j].tag].unit
      BY <1>0 DEF Numbers
    <2>2. i \in starts \cap (1..(k + 1))
      OBVIOUS
    <2> QED  BY <2>1, <2>2 DEF Numbers
  <1>4. CASE k + 1 \notin starts
    <2>1. Slave!ServeAt(e, buf, starts, k + 1) = e
      BY <1>4 DEF Slave!ServeAt
    <2>2. SoFar(e, sent, taken, starts, k + 1)
      BY <1>0, <1>3 DEF SoFar
    <2> QED  BY <1>4, <2>1, <2>2
  <1>5. CASE k + 1 \in starts
    <2>1. PICK t \in 1..Len(sent) : 2 * t = taken + (k + 1) + 1 /\ buf[k + 1].q = sent[t]
      <3>1. k + 1 \in 1..Len(buf)
        OBVIOUS
      <3> QED  BY <1>5, <3>1 DEF StartsOf
    <2>2. PICK q : q = buf[k + 1].q
      OBVIOUS
    <2>3. q.tag = t /\ q.unit = sent[t].unit
      BY <2>1, <2>2 DEF Numbered
    <2>4. PICK x : x = Slave!Processed(u, q)
      OBVIOUS
    <2>5. OneEffect(x, q, ctl.kind)
      BY <2>4, OneRequest
    <2>6. PICK xu, xr, xc : /\ x = [units |-> xu, reply |-> xr, untold |-> xc]
                            /\ Told(xc)
                            /\ \/ xr = <<>> /\ ctl.kind = "serial"
                               \/ \E f : xr = <<f>> /\ f.tag = q.tag /\ f.unit = q.unit
      BY <2>5 DEF OneEffect
    <2>7. x.units = xu /\ x.reply = xr /\ x.untold = xc
      BY <2>6
    <2>8. Slave!ServeAt(e, buf, starts, k + 1) = [units |-> xu, reply |-> r \o xr, untold |-> c \cup xc]
      BY <1>1, <1>5, <2>2, <2>4, <2>7 DEF Slave!ServeAt, Slave!Effect
    <2>9. Told(c \cup xc)
      BY <1>0, <2>6 DEF Told
    <2>10. CASE xr = <<>> /\ ctl.kind = "serial"
      <3>1. r \o xr = r
        <4>1. r \in Seq(Elements(r))
          BY <1>0 DEF IsSeq
        <4> QED  BY ONLY <4>1, <2>10
      <3>2. SoFar([units |-> xu, reply |-> r, untold |-> c \cup xc], sent, taken, starts, k + 1)
        BY <1>0, <1>3, <2>9 DEF SoFar
      <3> QED  BY <1>5, <2>8, <2>10, <3>1, <3>2
    <2>11. CASE \E f : xr = <<f>> /\ f.tag = q.tag /\ f.unit = q.unit
      <3>1. PICK f : xr = <<f>> /\ f.tag = q.tag /\ f.unit = q.unit
        BY <2>11
      <3>2. r \o xr = Append(r, f)
        <4>1. PICK S : S = Elements(r) \cup {f}
          OBVIOUS
        <4>2. r \in Seq(S) /\ f \in S
          BY <1>0, <4>1, SeqMonotonic DEF IsSeq
        <4> QED  BY ONLY <4>2, <3>1
      <3>3. PICK z : z = Append(r, f)
        OBVIOUS
      <3>4. /\ IsSeq(z) /\ Len(z) = Len(r) + 1
            /\ \A i \in 1..Len(r) : z[i] = r[i]
            /\ z[Len(r) + 1] = f
        BY <1>0, <3>3, AppendAny
      <3>5. Numbers(sent, taken, starts, k + 1, f)
        <4>1. k + 1 \in starts \cap (1..(k + 1))
          BY <1>5
        <4> QED  BY <4>1, <2>1, <2>3, <3>1 DEF Numbers
      <3>6. \A j \in 1..Len(z) : Numbers(sent, taken, starts, k + 1, z[j])
        BY <1>2, <1>3, <3>4, <3>5
      <3>7. ASSUME NEW i \in 1..Len(r) PROVE r[i].tag < f.tag
        <4>1. PICK a \in 1..k : r[i].tag \in 1..Len(sent) /\ 2 * r[i].tag = taken + a + 1
          BY <1>0 DEF Numbers
        <4>2. PICK b \in 1..Len(sent) : b = r[i].tag
          BY <4>1
        <4>3. b < t
          BY <1>2, <2>1, <4>1, <4>2
        <4> QED  BY <4>2, <4>3, <2>3, <3>1
      <3>8. \A i, j \in 1..Len(z) : i < j => z[i].tag < z[j].tag
        <4> SUFFICES ASSUME NEW i \in 1..Len(z), NEW j \in 1..Len(z), i < j
                     PROVE  z[i].tag < z[j].tag
          OBVIOUS
        <4>1. CASE j \in 1..Len(r)
          <5>1. i \in 1..Len(r)
            BY <1>2, <3>4, <4>1
          <5> QED  BY <1>0, <3>4, <4>1, <5>1
        <4>2. CASE j = Len(r) + 1
          <5>1. i \in 1..Len(r)
            BY <1>2, <3>4, <4>2
          <5> QED  BY <3>4, <3>7, <4>2, <5>1
        <4> QED  BY <1>2, <3>4, <4>1, <4>2
      <3>9. SoFar([units |-> xu, reply |-> z, untold |-> c \cup xc], sent, taken, starts, k + 1)
        BY <2>9, <3>4, <3>6, <3>8 DEF SoFar
      <3>10. Slave!ServeAt(e, buf, starts, k + 1).reply = Append(e.reply, f)
        BY <1>1, <2>8, <3>2
      <3>11. SoFar(Slave!ServeAt(e, buf, starts, k + 1), sent, taken, starts, k + 1)
        BY <2>8, <3>2, <3>3, <3>9
      <3> QED  BY ONLY <1>5, <2>1, <2>3, <3>1, <3>10, <3>11
    <2> QED  BY <2>6, <2>10, <2>11
  <1> QED  BY <1>4, <1>5

\* With a request at every other piece of the first 2n: one reply to each so far.
Count(e, r, n, k) ==
    \E x \in 0..n : /\ Len(e.reply) = x
                    /\ 2 * x = k \/ 2 * x = k + 1 \/ (x = n /\ k > 2 * n)
                    /\ \A j \in 1..x : e.reply[j].tag = r + j

LEMMA OneCounted ==
    ASSUME NEW r \in Nat, NEW n \in Nat, NEW k \in Nat, NEW e, NEW d, Count(e, r, n, k), IsSeq(e.reply),
           NEW starts, starts = {2 * i - 1 : i \in 1..n},
           k + 1 \notin starts => d = e,
           k + 1 \in starts => \E f, t : /\ d.reply = Append(e.reply, f) /\ f.tag = t
                                         /\ t \in Nat /\ 2 * t = 2 * r + (k + 1) + 1
    PROVE  Count(d, r, n, k + 1)
  <1>1. PICK x \in 0..n : /\ Len(e.reply) = x
                          /\ 2 * x = k \/ 2 * x = k + 1 \/ (x = n /\ k > 2 * n)
                          /\ \A j \in 1..x : e.reply[j].tag = r + j
    BY DEF Count
  <1>2. CASE k + 1 \in starts
    <2>1. PICK i \in 1..n : k + 1 = 2 * i - 1
      BY <1>2
    <2>2. 2 * x = k /\ i = x + 1
      <3>1. x \in Int /\ i \in Int /\ i <= n /\ k = 2 * i - 2
        BY <2>1
      <3>2. ~(x = n /\ k > 2 * n)
        BY <3>1
      <3>3. 2 * x # k + 1
        BY ONLY <3>1
      <3>4. 2 * x = k
        BY <1>1, <3>2, <3>3
      <3> QED  BY ONLY <3>1, <3>4
    <2>3. PICK f, t : d.reply = Append(e.reply, f) /\ f.tag = t /\ t \in Nat /\ 2 * t = 2 * r + (k + 1) + 1
      BY <1>2
    <2>4. t = r + (x + 1) /\ x + 1 \in 0..n
      BY ONLY <2>1, <2>2, <2>3, r \in Nat, x \in 0..n, n \in Nat, k \in Nat
    <2>5. PICK y, z : y = e.reply /\ z = d.reply
      OBVIOUS
    <2>6. /\ Len(z) = x + 1
          /\ \A j \in 1..x : z[j] = y[j]
          /\ z[x + 1] = f
      <3>1. IsSeq(y) /\ z = Append(y, f) /\ Len(y) = x
        BY <1>1, <2>3, <2>5
      <3> QED  BY ONLY <3>1, AppendAny
    <2>7. \A j \in 1..(x + 1) : z[j].tag = r + j
      <3> SUFFICES ASSUME NEW j \in 1..(x + 1) PROVE z[j].tag = r + j
        OBVIOUS
      <3>1. CASE j \in 1..x
        BY <1>1, <2>5, <2>6, <3>1
      <3>2. CASE j = x + 1
        BY <2>3, <2>4, <2>6, <3>2
      <3> QED  BY <3>1, <3>2
    <2>8. 2 * (x + 1) = (k + 1) + 1
      BY <2>2
    <2> QED  BY <2>4, <2>5, <2>6, <2>7, <2>8 DEF Count
  <1>3. CASE k + 1 \notin starts
    <2>1. ~(2 * x = k /\ x < n)
      <3> SUFFICES ASSUME 2 * x = k, x < n PROVE FALSE
        OBVIOUS
      <3>1. x + 1 \in 1..n /\ k + 1 = 2 * (x + 1) - 1
        OBVIOUS
      <3> QED  BY <1>3, <3>1
    <2>2. 2 * x = k + 1 \/ (x = n /\ k + 1 > 2 * n)
      BY ONLY <1>1, <2>1, x \in 0..n, n \in Nat, k \in Nat
    <2>3. 2 * x = k + 1 \/ 2 * x = (k + 1) + 1 \/ (x = n /\ k + 1 > 2 * n)
      BY <2>2
    <2> QED  BY <1>1, <1>3, <2>3 DEF Count
  <1> QED  BY <1>2, <1>3

(***************************************************************************)
(* Served: the replies are to the requests that start in the buffer, in    *)
(* their order; over TCP, with a request at every other piece, each has    *)
(* one.                                                                    *)
(***************************************************************************)
LEMMA ServedReplies ==
    ASSUME NEW sent, IsSeq(sent), Numbered(sent), NEW taken \in Nat, NEW buf, Len(buf) \in Nat, NEW starts,
           StartsOf(sent, taken, buf, starts), ctl.kind \in {"tcp", "rtu", "serial"}
    PROVE  /\ SoFar(Slave!Served(buf, starts), sent, taken, starts, Len(buf))
           /\ \A r, n \in Nat : ctl.kind = "tcp" /\ taken = 2 * r /\ starts = {2 * i - 1 : i \in 1..n}
                                   => Count(Slave!Served(buf, starts), r, n, Len(buf))
  <1> DEFINE m == Len(buf)
  <1>1. m \in Nat
    OBVIOUS
  <1>2. PICK f : Servings(f, buf, starts, m) /\ Slave!Served(buf, starts) = f[m]
    BY <1>1, ServedIs
  <1>3. f = [k \in 0..m |-> IF k = 0 THEN Slave!Effect(dev, <<>>, {})
                            ELSE Slave!ServeAt(f[k - 1], buf, starts, k)]
    BY <1>2 DEF Servings
  <1> DEFINE Counted(e, k) == \A r, n \in Nat : ctl.kind = "tcp" /\ taken = 2 * r /\ starts = {2 * i - 1 : i \in 1..n}
                                                 => Count(e, r, n, k)
             T == {k \in Nat : k <= m => SoFar(f[k], sent, taken, starts, k) /\ Counted(f[k], k)}
  <1>4. 0 \in T
    <2>1. f[0] = [units |-> dev, reply |-> <<>>, untold |-> {}]
      BY <1>1, <1>3 DEF Slave!Effect
    <2>2. PICK z : z = <<>>
      OBVIOUS
    <2>3. IsSeq(z) /\ Len(z) = 0 /\ f[0] = [units |-> dev, reply |-> z, untold |-> {}] /\ Told({})
      BY <2>1, <2>2, SmallSeqs DEF Told
    <2>4. SoFar(f[0], sent, taken, starts, 0)
      <3>1. \A j \in 1..Len(z) : FALSE
        BY <2>3
      <3> QED  BY <2>3, <3>1 DEF SoFar
    <2>5. Counted(f[0], 0)
      <3> SUFFICES ASSUME NEW r \in Nat, NEW n \in Nat PROVE Count(f[0], r, n, 0)
        OBVIOUS
      <3>1. f[0].reply = z
        BY <2>3
      <3>2. 0 \in 0..n /\ 2 * 0 = 0
        OBVIOUS
      <3> QED  BY <2>3, <3>1, <3>2 DEF Count
    <2> QED  BY <2>4, <2>5
  <1>5. ASSUME NEW k \in Nat, k \in T
        PROVE  k + 1 \in T
    <2> HIDE DEF Counted
    <2> SUFFICES ASSUME k + 1 <= m
                 PROVE  SoFar(f[k + 1], sent, taken, starts, k + 1) /\ Counted(f[k + 1], k + 1)
      OBVIOUS
    <2>1. SoFar(f[k], sent, taken, starts, k) /\ Counted(f[k], k)
      BY <1>5, <1>1
    <2> HIDE DEF T
    <2>2. k + 1 \in 0..m /\ (k + 1) - 1 = k /\ k + 1 # 0
      BY <1>1
    <2>3. f[k + 1] = Slave!ServeAt(f[k], buf, starts, k + 1)
      BY <1>3, <2>2
    <2>4. PICK d, e : e = f[k] /\ d = f[k + 1]
      OBVIOUS
    <2>5. /\ SoFar(d, sent, taken, starts, k + 1)
          /\ k + 1 \notin starts => d = e
          /\ k + 1 \in starts /\ ctl.kind # "serial" =>
                 \E x, t : /\ d.reply = Append(e.reply, x)
                          /\ x.tag = t /\ t \in 1..Len(sent) /\ 2 * t = taken + (k + 1) + 1
      <3>1. SoFar(e, sent, taken, starts, k)
        BY <2>1, <2>4
      <3>2. k + 1 <= Len(buf)
        OBVIOUS
      <3>3. d = Slave!ServeAt(e, buf, starts, k + 1)
        BY <2>3, <2>4
      <3> HIDE DEF m
      <3>4. /\ SoFar(Slave!ServeAt(e, buf, starts, k + 1), sent, taken, starts, k + 1)
            /\ k + 1 \notin starts => Slave!ServeAt(e, buf, starts, k + 1) = e
            /\ k + 1 \in starts /\ ctl.kind # "serial" =>
                 \E x, t : /\ Slave!ServeAt(e, buf, starts, k + 1).reply = Append(e.reply, x)
                          /\ x.tag = t /\ t \in 1..Len(sent) /\ 2 * t = taken + (k + 1) + 1
        BY <3>1, <3>2, OneServed
      <3> QED  BY <3>3, <3>4
    <2>6. Counted(d, k + 1)
      <3> SUFFICES ASSUME NEW r \in Nat, NEW n \in Nat, ctl.kind = "tcp", taken = 2 * r,
                          starts = {2 * i - 1 : i \in 1..n}
                   PROVE  Count(d, r, n, k + 1)
        BY DEF Counted
      <3>1. Count(e, r, n, k)
        BY <2>1, <2>4 DEF Counted
      <3>2. IsSeq(e.reply)
        BY <2>1, <2>4 DEF SoFar
      <3>3. Len(sent) \in Nat
        BY DEF IsSeq
      <3>4. k + 1 \in starts => \E x, t : /\ d.reply = Append(e.reply, x) /\ x.tag = t
                                         /\ t \in Nat /\ 2 * t = 2 * r + (k + 1) + 1
        BY <2>5, <3>3
      <3> QED  BY <2>5, <3>1, <3>2, <3>4, OneCounted
    <2> QED  BY <2>4, <2>5, <2>6
  <1>6. m \in T
    <2> HIDE DEF T
    <2> QED  BY <1>1, <1>4, <1>5, Inductive
  <1> QED  BY <1>2, <1>6

\* A piece that begins a request is that of the request with its number.
LEMMA StartsAre ==
    ASSUME NEW x, SlaveLine(x), NEW t \in Nat, t = Taken(x), NEW buf, IsSeq(buf), Len(buf) <= Len(x.buf),
           \A i \in 1..Len(buf) : buf[i] = x.buf[i],
           NEW starts, \A i \in starts \cap (1..Len(buf)) : buf[i].part = 1
    PROVE  StartsOf(x.sent, t, buf, starts)
  <1>1. Len(buf) \in Nat /\ Len(x.buf) \in Nat /\ Len(x.sent) \in Nat
    BY DEF IsSeq, SlaveLine
  <1> SUFFICES ASSUME NEW i \in starts \cap (1..Len(buf))
               PROVE  \E j \in 1..Len(x.sent) : 2 * j = t + i + 1 /\ buf[i].q = x.sent[j]
    BY DEF StartsOf
  <1>2. i \in 1..Len(x.buf) /\ buf[i] = x.buf[i] /\ buf[i].part = 1
    BY <1>1
  <1>3. PieceOf(x.sent, t + i, x.buf[i])
    BY <1>2 DEF SlaveLine
  <1>4. PICK j \in 1..Len(x.sent) : /\ x.buf[i].q = x.sent[j]
                                    /\ \/ t + i = 2 * j - 1 /\ x.buf[i].part = 1
                                       \/ t + i = 2 * j /\ x.buf[i].part = 2
    BY <1>3 DEF PieceOf
  <1>5. t + i = 2 * j - 1
    BY <1>2, <1>4
  <1>6. 2 * j = t + i + 1
    BY <1>1, <1>5
  <1> QED  BY <1>2, <1>4, <1>6

(***************************************************************************)
(* What is served of the line x is answered on v: the replies go after     *)
(* those that are there, and k pieces leave the buffer.                    *)
(***************************************************************************)
LEMMA ServedConn ==
    ASSUME NEW w, SlaveConn(w, ctl.kind), ctl.kind \in {"tcp", "rtu", "serial"},
           NEW x, SlaveLine(x), x.sent = w.sent, Taken(x) = Taken(w),
           NEW buf, IsSeq(buf), Len(buf) <= Len(x.buf), \A i \in 1..Len(buf) : buf[i] = x.buf[i],
           NEW starts, \A i \in starts \cap (1..Len(buf)) : buf[i].part = 1,
           NEW k \in Nat, k <= Len(x.buf), \A i \in starts \cap (1..Len(buf)) : i + 1 <= k,
           NEW v, DOMAIN v = DOMAIN x, v.sent = x.sent, v.pipe = x.pipe,
           IsSeq(v.buf), Len(v.buf) = Len(x.buf) - k,
           \A i \in 1..(Len(x.buf) - k) : v.buf[i] = x.buf[k + i],
           v.out = w.out \o Slave!Served(buf, starts).reply,
           ctl.kind = "tcp" /\ v.sync
              => /\ w.sync
                 /\ \E n \in Nat : k = 2 * n /\ 2 * n <= Len(buf) /\ starts = {2 * i - 1 : i \in 1..n}
    PROVE  SlaveConn(v, ctl.kind) /\ Told(Slave!Served(buf, starts).untold)
  <1>1. PICK e : e = Slave!Served(buf, starts)
    OBVIOUS
  <1>2. PICK sent, out, z : sent = w.sent /\ out = w.out /\ z = v.out
    OBVIOUS
  <1>3. IsSeq(sent) /\ Numbered(sent) /\ IsSeq(out)
    BY <1>2 DEF SlaveConn, SlaveLine, Replies
  <1>4. PICK t \in Nat : t = Taken(w)
    <2>1. SlaveLine(w)
      BY DEF SlaveConn
    <2> QED  BY <2>1, Lengths
  <1>5. Len(buf) \in Nat /\ Len(sent) \in Nat /\ Len(out) \in Nat
    BY <1>3 DEF IsSeq
  <1>6. StartsOf(sent, t, buf, starts)
    BY <1>2, <1>4, StartsAre
  <1>7. /\ SoFar(e, sent, t, starts, Len(buf))
        /\ \A r, n \in Nat : ctl.kind = "tcp" /\ t = 2 * r /\ starts = {2 * i - 1 : i \in 1..n}
                                => Count(e, r, n, Len(buf))
    BY <1>1, <1>3, <1>5, <1>6, ServedReplies
  <1>8. PICK u, r, c : /\ e = [units |-> u, reply |-> r, untold |-> c]
                       /\ Told(c) /\ IsSeq(r)
                       /\ \A j \in 1..Len(r) : Numbers(sent, t, starts, Len(buf), r[j])
                       /\ \A i, j \in 1..Len(r) : i < j => r[i].tag < r[j].tag
    BY <1>7 DEF SoFar
  <1>9. e.reply = r /\ e.untold = c
    BY <1>8
  <1>10. Told(Slave!Served(buf, starts).untold)
    BY <1>1, <1>8, <1>9
  <1>11. SlaveLine(v) /\ Taken(v) = t + k
    <2>1. SlaveLine(v) /\ Taken(v) = Taken(x) + k
      BY DropsKeep
    <2> QED  BY ONLY <2>1, <1>4, Taken(x) = Taken(w)
  <1>12. /\ IsSeq(z) /\ Len(r) \in Nat /\ Len(z) = Len(out) + Len(r)
         /\ \A i \in 1..Len(out) : z[i] = out[i]
         /\ \A i \in 1..Len(r) : z[Len(out) + i] = r[i]
    <2>1. z = out \o r
      BY <1>1, <1>2, <1>9
    <2> QED  BY ONLY <2>1, <1>3, <1>8, ConcatAny
  <1>20. ASSUME NEW j \in 1..Len(r), NEW i, i = Len(out) + j PROVE z[i] = r[j]
    <2>1. z[Len(out) + j] = r[j]
      BY <1>12
    <2> QED  BY ONLY <1>20, <2>1
  <1> DEFINE Numbered2(f) == f.tag \in 1..Len(sent) /\ 2 * f.tag <= t + k /\ f.unit = sent[f.tag].unit
  <1>13. Replies(sent, out, t)
    BY <1>2, <1>4 DEF SlaveConn
  <1>14. ASSUME NEW i \in 1..Len(out)
         PROVE  out[i].tag \in 1..Len(sent) /\ 2 * out[i].tag <= t /\ out[i].unit = sent[out[i].tag].unit
    BY <1>13 DEF Replies
  <1>15. ASSUME NEW j \in 1..Len(r)
         PROVE  Numbered2(r[j]) /\ 2 * r[j].tag > t
    <2>1. PICK i \in 1..Len(buf) : /\ r[j].tag \in 1..Len(sent) /\ 2 * r[j].tag = t + i + 1
                                   /\ r[j].unit = sent[r[j].tag].unit
                                   /\ i + 1 <= k
      <3>1. PICK i \in starts \cap (1..Len(buf)) : /\ r[j].tag \in 1..Len(sent) /\ 2 * r[j].tag = t + i + 1
                                     /\ r[j].unit = sent[r[j].tag].unit
        BY <1>8 DEF Numbers
      <3> QED  BY <3>1
    <2>2. PICK a \in 1..Len(sent) : a = r[j].tag
      BY <2>1
    <2>3. 2 * a <= t + k /\ 2 * a > t
      BY ONLY <2>1, <2>2, t \in Nat, k \in Nat, i \in 1..Len(buf), <1>5
    <2> QED  BY <2>1, <2>2, <2>3
  <1>16. Replies(sent, z, t + k)
    <2>1. ASSUME NEW i \in 1..Len(z)
          PROVE  Numbered2(z[i])
      <3>1. CASE i \in 1..Len(out)
        <4>1. PICK a \in 1..Len(sent) : a = out[i].tag
          BY <1>14, <3>1
        <4>2. 2 * a <= t + k
          BY <1>14, <3>1, <4>1, <1>5
        <4> QED  BY <1>12, <1>14, <3>1, <4>1, <4>2
      <3>2. CASE i \notin 1..Len(out)
        <4>1. PICK j \in 1..Len(r) : i = Len(out) + j
          <5>1. i - Len(out) \in 1..Len(r) /\ i = Len(out) + (i - Len(out))
            BY <1>5, <1>12, <3>2
          <5> QED  BY <5>1
        <4>2. z[i] = r[j]
          BY ONLY <4>1, <1>20
        <4> QED  BY <1>15, <4>2
      <3> QED  BY <3>1, <3>2
    <2>2. ASSUME NEW i \in 1..Len(z), NEW j \in 1..Len(z), i < j
          PROVE  z[i].tag < z[j].tag
      <3>1. CASE j \in 1..Len(out)
        <4>1. i \in 1..Len(out)
          BY <2>2, <3>1, <1>5, <1>12
        <4> QED  BY <1>12, <1>13, <2>2, <3>1, <4>1 DEF Replies
      <3>2. CASE j \notin 1..Len(out)
        <4>1. PICK b \in 1..Len(r) : j = Len(out) + b
          <5>1. j - Len(out) \in 1..Len(r) /\ j = Len(out) + (j - Len(out))
            BY <1>5, <1>12, <3>2
          <5> QED  BY <5>1
        <4>2. z[j] = r[b]
          BY ONLY <4>1, <1>20
        <4>3. CASE i \in 1..Len(out)
          <5>1. PICK x1 \in Nat, x2 \in Nat : x1 = out[i].tag /\ x2 = r[b].tag /\ 2 * x1 <= t /\ 2 * x2 > t
            <6>1. PICK x1 \in 1..Len(sent) : x1 = out[i].tag /\ 2 * x1 <= t
              BY <1>14, <4>3
            <6>2. PICK x2 \in 1..Len(sent) : x2 = r[b].tag /\ 2 * x2 > t
              BY <1>15
            <6>3. x1 \in Nat /\ x2 \in Nat
              BY ONLY <1>5, x1 \in 1..Len(sent), x2 \in 1..Len(sent)
            <6> QED  BY ONLY <6>1, <6>2, <6>3
          <5>2. x1 < x2
            BY <5>1
          <5> QED  BY <1>12, <4>2, <4>3, <5>1, <5>2
        <4>4. CASE i \notin 1..Len(out)
          <5>1. PICK a \in 1..Len(r) : i = Len(out) + a
            <6>1. i - Len(out) \in 1..Len(r) /\ i = Len(out) + (i - Len(out))
              BY <1>5, <1>12, <4>4
            <6> QED  BY <6>1
          <5>2. z[i] = r[a] /\ a < b
            <6>1. z[i] = r[a]
              BY ONLY <5>1, <1>20
            <6>2. a \in Int /\ b \in Int /\ Len(out) + a < Len(out) + b
              BY ONLY <1>5, <1>12, <2>2, <4>1, <5>1, a \in 1..Len(r), b \in 1..Len(r)
            <6>3. a < b
              BY ONLY <1>5, <6>2
            <6> QED  BY ONLY <5>1, <6>1, <6>3
          <5> QED  BY <1>8, <4>2, <5>2
        <4> QED  BY <4>3, <4>4
      <3> QED  BY <3>1, <3>2
    <2> QED  BY <2>1, <2>2, <1>12 DEF Replies
  <1>17. ASSUME ctl.kind = "tcp" /\ v.sync
         PROVE  AllReplied(z, t + k)
    <2>1. PICK n \in Nat : k = 2 * n /\ 2 * n <= Len(buf) /\ starts = {2 * i - 1 : i \in 1..n}
      BY <1>17
    <2>2. t = 2 * Len(out) /\ \A i \in 1..Len(out) : out[i].tag = i
      <3>1. w.sync
        BY <1>17
      <3>2. AllReplied(out, t)
        BY <3>1, <1>17, <1>2, <1>4 DEF SlaveConn
      <3> QED  BY <3>2 DEF AllReplied
    <2>3. Count(e, Len(out), n, Len(buf))
      BY <1>5, <1>7, <1>17, <2>1, <2>2
    <2>4. PICK y \in 0..n : /\ Len(r) = y
                            /\ 2 * y = Len(buf) \/ 2 * y = Len(buf) + 1 \/ (y = n /\ Len(buf) > 2 * n)
                            /\ \A j \in 1..y : r[j].tag = Len(out) + j
      BY <2>3, <1>9 DEF Count
    <2>5. y = n
      BY <1>5, <2>1, <2>4
    <2>6. 2 * Len(z) = t + k
      BY <1>5, <1>12, <2>1, <2>2, <2>4, <2>5
    <2>7. ASSUME NEW i \in 1..Len(z) PROVE z[i].tag = i
      <3>1. CASE i \in 1..Len(out)
        BY <1>12, <2>2, <3>1
      <3>2. CASE i \notin 1..Len(out)
        <4>1. PICK j \in 1..Len(r) : i = Len(out) + j
          <5>1. i - Len(out) \in 1..Len(r) /\ i = Len(out) + (i - Len(out))
            BY <1>5, <1>12, <3>2
          <5> QED  BY <5>1
        <4>2. z[i] = r[j]
          BY ONLY <4>1, <1>20
        <4>3. r[j].tag = Len(out) + j
          BY ONLY <2>4, j \in 1..Len(r)
        <4> QED  BY ONLY <4>1, <4>2, <4>3
      <3> QED  BY <3>1, <3>2
    <2> QED  BY <2>6, <2>7 DEF AllReplied
  <1>18. v.sent = sent /\ v.out = z
    BY <1>2
  <1>19. SlaveConn(v, ctl.kind)
    BY <1>11, <1>16, <1>17, <1>18 DEF SlaveConn
  <1> QED  BY <1>10, <1>19

LEMMA OneLine ==
    ASSUME SlaveInv, NEW m \in Masters, ctl' = ctl, DOMAIN said' = DOMAIN said, Told(said'.untold),
           DOMAIN wire' = Masters, \A x \in Masters \ {m} : wire'[x] = wire[x],
           SlaveConn(wire'[m], ctl.kind)
    PROVE  SlaveInv'
  <1>1. \A x \in Masters : SlaveConn(wire'[x], ctl.kind)
    BY DEF SlaveInv
  <1> QED  BY <1>1 DEF SlaveInv, Told

LEMMA SlaveSends == ASSUME SlaveInv, NEW m \in Masters, Slave!MasterSends(m) PROVE SlaveInv'
  <1> DEFINE w == wire[m]
             v == wire'[m]
  <1>1. PICK q : /\ q.tag = Len(w.sent) + 1
                 /\ wire' = [wire EXCEPT ![m].sent = Append(@, q), ![m].pipe = @ \o Slave!Pieces(q)]
    <2>1. PICK r \in Slave!Requests \cup {x \in {[Slave!Request(1, 3, 0, <<>>, 1) EXCEPT !.fc = Slave!Oversized]} : ctl.kind = "tcp"} :
             LET q == [r EXCEPT !.tag = Len(wire[m].sent) + 1]
             IN  wire' = [wire EXCEPT ![m].sent = Append(@, q), ![m].pipe = @ \o Slave!Pieces(q)]
      BY DEF Slave!MasterSends
    <2>2. "tag" \in DOMAIN r
      <3>1. \A a, b, c, d, e : "tag" \in DOMAIN Slave!Request(a, b, c, d, e)
        BY DEF Slave!Request
      <3>2. CASE r \in Slave!Requests
        BY <3>1, <3>2 DEF Slave!Requests
      <3>3. CASE r = [Slave!Request(1, 3, 0, <<>>, 1) EXCEPT !.fc = Slave!Oversized]
        BY <3>1, <3>3
      <3> QED  BY <3>2, <3>3
    <2>3. PICK t : t = Len(wire[m].sent) + 1
      OBVIOUS
    <2>4. [r EXCEPT !.tag = t].tag = t
      BY <2>2
    <2> QED  BY <2>1, <2>3, <2>4
  <1>2. SlaveConn(w, ctl.kind) /\ DOMAIN wire = Masters
    BY DEF SlaveInv
  <1>3. DOMAIN w = {"open", "pipe", "buf", "timer", "sent", "out", "sync"}
    BY <1>2 DEF SlaveConn, SlaveLine
  <1>4. DOMAIN wire' = Masters /\ \A x \in Masters \ {m} : wire'[x] = wire[x]
    BY ONLY <1>1, <1>2
  <1>5. v = [w EXCEPT !.sent = Append(@, q), !.pipe = @ \o Slave!Pieces(q)]
    BY <1>1, <1>2
  <1>6. /\ DOMAIN v = DOMAIN w /\ v.sent = Append(w.sent, q) /\ v.pipe = w.pipe \o Slave!Pieces(q)
        /\ v.buf = w.buf /\ v.out = w.out /\ v.sync = w.sync
    BY ONLY <1>3, <1>5
  <1>7. SlaveConn(v, ctl.kind)
    <2> HIDE DEF v, w
    <2> QED  BY <1>1, <1>2, <1>6, SendsKeep
  <1>8. ctl' = ctl /\ said' = said
    BY DEF Slave!MasterSends
  <1>9. Told(said.untold)
    BY DEF SlaveInv, Told
  <1> QED  BY <1>4, <1>7, <1>8, <1>9, OneLine

LEMMA SlaveConnects ==
    ASSUME SlaveInv, NEW m \in Masters, Slave!incomingConnection(m) \/ Slave!onDisconnected(m)
    PROVE  SlaveInv'
  <1>1. PICK v \in {Slave!Open, Slave!Closed} : wire' = [wire EXCEPT ![m] = v]
    BY DEF Slave!incomingConnection, Slave!onDisconnected
  <1>2. SlaveConn(v, ctl.kind) /\ DOMAIN wire = Masters
    BY FreshLine DEF SlaveInv
  <1>3. DOMAIN wire' = Masters /\ wire'[m] = v /\ \A x \in Masters \ {m} : wire'[x] = wire[x]
    BY ONLY <1>1, <1>2, m \in Masters
  <1>4. ctl' = ctl /\ said' = said
    BY DEF Slave!incomingConnection, Slave!onDisconnected
  <1>5. Told(said.untold)
    BY DEF SlaveInv, Told
  <1> QED  BY <1>2, <1>3, <1>4, <1>5, OneLine

\* The RTU servers only read; a buffer that is full is emptied.
LEMMA SlaveReads ==
    ASSUME SlaveInv, NEW m \in Masters, Slave!rtuReadyRead(m) \/ Slave!serialReadyRead(m)
    PROVE  SlaveInv'
  <1> DEFINE w == wire[m]
             v == wire'[m]
  <1>0. SlaveConn(w, ctl.kind) /\ DOMAIN wire = Masters
    BY DEF SlaveInv
  <1>1. PICK k, T : k \in 1..Len(w.pipe) /\ Slave!Receives(m, k, T)
    BY DEF Slave!rtuReadyRead, Slave!serialReadyRead
  <1>2. ctl.kind # "tcp" /\ ctl' = ctl /\ said' = said
    BY DEF Slave!rtuReadyRead, Slave!serialReadyRead
  <1>3. SlaveLine(w) /\ Replies(w.sent, w.out, Taken(w))
    BY <1>0 DEF SlaveConn
  <1>4. DOMAIN w = {"open", "pipe", "buf", "timer", "sent", "out", "sync"}
        /\ Len(w.pipe) \in Nat /\ k \in Nat /\ 1 <= k /\ k <= Len(w.pipe)
    BY <1>1, <1>3 DEF SlaveLine, IsSeq
  <1> DEFINE pipe == SubSeq(w.pipe, k + 1, Len(w.pipe))
             buf == w.buf \o SubSeq(w.pipe, 1, k)
  <1>5. PICK x : x = [w EXCEPT !.pipe = pipe, !.buf = buf]
    OBVIOUS
  <1>6. DOMAIN x = DOMAIN w /\ x.sent = w.sent /\ x.pipe = pipe /\ x.buf = buf /\ x.out = w.out
    BY ONLY <1>4, <1>5
  <1>7. SlaveLine(x) /\ Taken(x) = Taken(w)
    <2> HIDE DEF w
    <2> QED  BY <1>3, <1>4, <1>6, ReadsKeep
  <1>8. PICK b, t : /\ wire' = [wire EXCEPT ![m].pipe = pipe, ![m].buf = b, ![m].timer = t]
                    /\ b = buf \/ b = <<>>
    BY <1>1 DEF Slave!Receives
  <1>9. DOMAIN wire' = Masters /\ \A y \in Masters \ {m} : wire'[y] = wire[y]
    BY ONLY <1>0, <1>8
  <1>10. v = [w EXCEPT !.pipe = pipe, !.buf = b, !.timer = t]
    BY <1>0, <1>8
  <1>11. DOMAIN v = DOMAIN w /\ v.sent = w.sent /\ v.pipe = pipe /\ v.buf = b /\ v.out = w.out
    BY ONLY <1>4, <1>10
  <1>12. IsSeq(x.buf) /\ Len(x.buf) \in Nat /\ IsSeq(<<>>) /\ Len(<<>>) = 0
    BY <1>7, SmallSeqs DEF SlaveLine, IsSeq
  <1>13. PICK d \in Nat : /\ d <= Len(x.buf) /\ IsSeq(v.buf) /\ Len(v.buf) = Len(x.buf) - d
                          /\ \A i \in 1..(Len(x.buf) - d) : v.buf[i] = x.buf[d + i]
    <2>1. CASE b = buf
      <3>1. v.buf = x.buf
        BY <1>6, <1>11, <2>1
      <3>2. Len(v.buf) = Len(x.buf) - 0 /\ \A i \in 1..(Len(x.buf) - 0) : v.buf[i] = x.buf[0 + i]
        BY ONLY <1>12, <3>1
      <3> QED  BY <1>12, <3>1, <3>2
    <2>2. CASE b = <<>>
      <3>1. v.buf = <<>>
        BY <1>11, <2>2
      <3>2. PICK d \in Nat : d = Len(x.buf)
        BY <1>12
      <3>3. d <= Len(x.buf) /\ IsSeq(v.buf) /\ Len(v.buf) = Len(x.buf) - d
        BY ONLY <1>12, <3>1, <3>2, d \in Nat
      <3>4. \A i \in 1..(Len(x.buf) - d) : FALSE
        BY ONLY <3>2, d \in Nat
      <3> QED  BY <3>3, <3>4
    <2> QED  BY <1>8, <2>1, <2>2
  <1>14. SlaveLine(v) /\ Taken(v) = Taken(w) + d
    <2>1. DOMAIN v = DOMAIN x /\ v.sent = x.sent /\ v.pipe = x.pipe
      BY <1>6, <1>11
    <2> HIDE DEF v, w
    <2> QED  BY <1>7, <1>13, <2>1, DropsKeep
  <1>15. Replies(v.sent, v.out, Taken(v))
    <2>1. PICK t0 \in Nat : t0 = Taken(w)
      BY <1>3, Lengths
    <2>2. Replies(w.sent, w.out, t0) /\ v.sent = w.sent /\ v.out = w.out /\ Taken(v) = t0 + d
      BY <1>3, <1>11, <1>14, <2>1
    <2>3. \A i \in 1..Len(w.out) : 2 * w.out[i].tag <= t0 + d
      <3> SUFFICES ASSUME NEW i \in 1..Len(w.out) PROVE 2 * w.out[i].tag <= t0 + d
        OBVIOUS
      <3>1. w.out[i].tag \in 1..Len(w.sent) /\ 2 * w.out[i].tag <= t0 /\ Len(w.sent) \in Nat
        BY <1>3, <2>2 DEF Replies, SlaveLine, IsSeq
      <3>2. PICK a \in 1..Len(w.sent) : a = w.out[i].tag
        BY <3>1
      <3>3. 2 * a <= t0 + d
        BY ONLY <3>1, <3>2, t0 \in Nat, d \in Nat, a \in 1..Len(w.sent)
      <3> QED  BY ONLY <3>2, <3>3
    <2> HIDE DEF v, w
    <2> QED  BY ONLY <2>2, <2>3 DEF Replies
  <1>16. SlaveConn(v, ctl.kind)
    BY <1>2, <1>14, <1>15 DEF SlaveConn
  <1>17. Told(said.untold)
    BY DEF SlaveInv, Told
  <1> QED  BY <1>2, <1>9, <1>16, <1>17, OneLine

\* What Serve changes but the connection it answers on.
LEMMA ServeSteps ==
    ASSUME SlaveInv, NEW m \in Masters, NEW buf, NEW starts, NEW w, Slave!Serve(m, buf, starts, w),
           DOMAIN w = {"open", "pipe", "buf", "timer", "sent", "out", "sync"},
           \A v : /\ DOMAIN v = DOMAIN w /\ v.sent = w.sent /\ v.pipe = w.pipe /\ v.buf = w.buf /\ v.sync = w.sync
                  /\ v.out = w.out \o Slave!Served(buf, starts).reply
                  => SlaveConn(v, ctl.kind) /\ Told(Slave!Served(buf, starts).untold)
    PROVE  SlaveInv'
  <1> DEFINE end == Slave!Served(buf, starts)
  <1>1. PICK out : out = w.out \o end.reply
    OBVIOUS
  <1>2. /\ wire' = [wire EXCEPT ![m] = [w EXCEPT !.out = out]]
        /\ said' = [said EXCEPT !.untold = @ \cup end.untold] /\ ctl' = ctl
    BY <1>1 DEF Slave!Serve
  <1>3. DOMAIN wire = Masters /\ DOMAIN said = {"n", "cmd", "status", "code", "val", "untold"} /\ Told(said.untold)
    BY DEF SlaveInv, Told
  <1>4. PICK v : v = [w EXCEPT !.out = out]
    OBVIOUS
  <1>5. /\ DOMAIN v = DOMAIN w /\ v.sent = w.sent /\ v.pipe = w.pipe /\ v.buf = w.buf /\ v.sync = w.sync
        /\ v.out = out
    BY ONLY <1>4, DOMAIN w = {"open", "pipe", "buf", "timer", "sent", "out", "sync"}
  <1>6. SlaveConn(v, ctl.kind) /\ Told(end.untold)
    BY <1>1, <1>5
  <1>7. DOMAIN wire' = Masters /\ wire'[m] = v /\ \A x \in Masters \ {m} : wire'[x] = wire[x]
    BY ONLY <1>2, <1>3, <1>4, m \in Masters
  <1>8. DOMAIN said' = DOMAIN said /\ said'.untold = said.untold \cup end.untold
    BY ONLY <1>2, <1>3
  <1>9. Told(said'.untold)
    BY <1>3, <1>6, <1>8 DEF Told
  <1> QED  BY <1>2, <1>6, <1>7, <1>8, <1>9, OneLine

(* The frame timers of the RTU servers: the buffer is served and emptied. *)
LEMMA SlaveFrames ==
    ASSUME SlaveInv, NEW m \in Masters, Slave!rtuFrameTimeout(m) \/ Slave!serialFrameTimeout(m)
    PROVE  SlaveInv'
  <1> DEFINE w == wire[m]
  <1>0. SlaveConn(w, ctl.kind) /\ DOMAIN wire = Masters /\ ctl.kind \in {"tcp", "rtu", "serial"}
    BY DEF SlaveInv
  <1>1. SlaveLine(w)
    BY <1>0 DEF SlaveConn
  <1>2. /\ DOMAIN w = {"open", "pipe", "buf", "timer", "sent", "out", "sync"}
        /\ IsSeq(w.buf) /\ Len(w.buf) \in Nat /\ DOMAIN w.buf = 1..Len(w.buf)
    BY <1>1 DEF SlaveLine, IsSeq
  <1>3. PICK y : y = [w EXCEPT !.buf = <<>>, !.timer = FALSE]
    OBVIOUS
  <1>4. PICK starts : /\ Slave!Serve(m, w.buf, starts, y)
                      /\ starts = {i \in DOMAIN w.buf : Slave!FrameAt(w.buf, i)}
                         \/ starts = (IF Len(w.buf) = 2 /\ Slave!FrameAt(w.buf, 1) THEN {1} ELSE {})
    BY <1>3 DEF Slave!rtuFrameTimeout, Slave!serialFrameTimeout
  <1>5. ctl.kind # "tcp"
    BY DEF Slave!rtuFrameTimeout, Slave!serialFrameTimeout
  <1>6. /\ DOMAIN y = DOMAIN w /\ y.sent = w.sent /\ y.pipe = w.pipe /\ y.buf = <<>> /\ y.sync = w.sync
        /\ y.out = w.out
    <2>1. PICK e, f : e = <<>> /\ f = FALSE
      OBVIOUS
    <2>2. y = [w EXCEPT !.buf = e, !.timer = f]
      BY <1>3, <2>1
    <2>3. /\ DOMAIN y = DOMAIN w /\ y.sent = w.sent /\ y.pipe = w.pipe /\ y.buf = e /\ y.sync = w.sync
          /\ y.out = w.out
      BY ONLY <2>2, <1>2
    <2> QED  BY ONLY <2>1, <2>3
  <1>7. \A i \in starts \cap (1..Len(w.buf)) : w.buf[i].part = 1 /\ i + 1 <= Len(w.buf)
    <2> SUFFICES ASSUME NEW i \in starts \cap (1..Len(w.buf))
                 PROVE  w.buf[i].part = 1 /\ i + 1 <= Len(w.buf)
      OBVIOUS
    <2>1. Slave!FrameAt(w.buf, i)
      BY <1>4
    <2>2. i + 1 \in DOMAIN w.buf /\ w.buf[i].part = 1
      BY <2>1 DEF Slave!FrameAt
    <2> QED  BY <1>2, <2>2
  <1>8. ASSUME NEW v, DOMAIN v = DOMAIN y, v.sent = y.sent, v.pipe = y.pipe, v.buf = y.buf, v.sync = y.sync,
               v.out = y.out \o Slave!Served(w.buf, starts).reply
        PROVE  SlaveConn(v, ctl.kind) /\ Told(Slave!Served(w.buf, starts).untold)
    <2>1. PICK k \in Nat : k = Len(w.buf)
      BY <1>2
    <2>2. IsSeq(v.buf) /\ Len(v.buf) = 0
      BY <1>6, <1>8, SmallSeqs
    <2>3. k <= Len(w.buf) /\ Len(v.buf) = Len(w.buf) - k
      BY ONLY <2>1, <2>2, k \in Nat
    <2>4. \A i \in 1..(Len(w.buf) - k) : v.buf[i] = w.buf[k + i]
      <3>1. \A i \in 1..(Len(w.buf) - k) : FALSE
        BY ONLY <2>1, k \in Nat
      <3> QED  BY <3>1
    <2>5. /\ DOMAIN v = DOMAIN w /\ v.sent = w.sent /\ v.pipe = w.pipe
          /\ v.out = w.out \o Slave!Served(w.buf, starts).reply
      BY <1>6, <1>8
    <2>6. /\ \A i \in starts \cap (1..Len(w.buf)) : w.buf[i].part = 1
          /\ \A i \in starts \cap (1..Len(w.buf)) : i + 1 <= k
      BY <1>7, <2>1
    <2>7. Len(w.buf) <= Len(w.buf)
      BY <1>2
    <2> HIDE DEF w
    <2> QED  BY <1>0, <1>1, <1>2, <1>5, <2>2, <2>3, <2>4, <2>5, <2>6, <2>7, ServedConn
  <1>9. DOMAIN y = {"open", "pipe", "buf", "timer", "sent", "out", "sync"}
    BY <1>2, <1>6
  <1> HIDE DEF w
  <1> QED  BY <1>4, <1>8, <1>9, ServeSteps

LEMMA Least ==
    ASSUME NEW S, S \subseteq Nat, S # {}
    PROVE  \E i \in S : \A j \in S : i <= j
  <1> DEFINE R == {p \in Nat \X Nat : p[1] < p[2]}
  <1>1. IsWellFoundedOn(R, Nat)
    BY NatLessThanWellFounded DEF OpToRel
  <1>2. PICK i \in S : \A j \in S : ~(<<j, i>> \in R)
    BY <1>1, WFMin
  <1>3. ASSUME NEW j \in S PROVE i <= j
    <2>1. ~(j < i)
      BY <1>2
    <2> QED  BY <2>1
  <1> QED  BY <1>3

LEMMA Halves ==
    ASSUME NEW x \in Nat
    PROVE  x \div 2 \in Nat /\ 2 * (x \div 2) <= x
  OBVIOUS

(* The TCP server serves the frames that are whole. *)
LEMMA SlaveBuffers ==
    ASSUME SlaveInv, NEW m \in Masters, Slave!processBuffer(m)
    PROVE  SlaveInv'
  <1> DEFINE w == wire[m]
  <1>0. SlaveConn(w, ctl.kind) /\ ctl.kind = "tcp" /\ w.sync /\ ctl.kind \in {"tcp", "rtu", "serial"}
    BY DEF SlaveInv, Slave!processBuffer
  <1>1. SlaveLine(w)
    BY <1>0 DEF SlaveConn
  <1>2. /\ DOMAIN w = {"open", "pipe", "buf", "timer", "sent", "out", "sync"}
        /\ Len(w.pipe) \in Nat
    BY <1>1 DEF SlaveLine, IsSeq
  <1> DEFINE Cut(buf) == {i \in DOMAIN buf : buf[i].part = 1 /\ buf[i].q.fc = Slave!Oversized}
             Good(buf) == IF Cut(buf) = {} THEN buf
                          ELSE SubSeq(buf, 1, (CHOOSE i \in Cut(buf) : \A j \in Cut(buf) : i <= j) - 1)
             After(k, buf, n) == [w EXCEPT !.pipe = SubSeq(@, k + 1, Len(@)), !.sync = Cut(buf) = {},
                                           !.buf = IF Cut(buf) = {} THEN SubSeq(buf, 2 * n + 1, Len(buf)) ELSE <<>>]
  <1>3. PICK k \in 1..Len(w.pipe) :
           LET buf == w.buf \o SubSeq(w.pipe, 1, k)
               n == Slave!WholeFrames(Good(buf))
           IN  Slave!Serve(m, Good(buf), {2 * i - 1 : i \in 1..n}, After(k, buf, n))
    BY DEF Slave!processBuffer
  <1>4. PICK buf, pipe : buf = w.buf \o SubSeq(w.pipe, 1, k) /\ pipe = SubSeq(w.pipe, k + 1, Len(w.pipe))
    OBVIOUS
  <1>5. PICK n : n = Slave!WholeFrames(Good(buf))
    <2> HIDE DEF Good
    <2> QED  OBVIOUS
  <1>6. PICK good, starts, y : good = Good(buf) /\ starts = {2 * i - 1 : i \in 1..n} /\ y = After(k, buf, n)
    <2> HIDE DEF Good, After
    <2> QED  OBVIOUS
  <1>7. Slave!Serve(m, good, starts, y)
    BY ONLY <1>3, <1>4, <1>5, <1>6
  <1>8. PICK x : x = [w EXCEPT !.pipe = pipe, !.buf = buf]
    OBVIOUS
  <1>9. DOMAIN x = DOMAIN w /\ x.sent = w.sent /\ x.pipe = pipe /\ x.buf = buf /\ x.out = w.out
    BY ONLY <1>2, <1>8
  <1>10. SlaveLine(x) /\ Taken(x) = Taken(w)
    <2>1. k \in Nat /\ 1 <= k /\ k <= Len(w.pipe)
      BY <1>2
    <2> HIDE DEF w
    <2> QED  BY <1>1, <1>4, <1>9, <2>1, ReadsKeep
  <1>11. IsSeq(buf) /\ Len(buf) \in Nat /\ DOMAIN buf = 1..Len(buf)
    BY <1>9, <1>10 DEF SlaveLine, IsSeq
  <1>12. IsSeq(good) /\ Len(good) \in Nat /\ Len(good) <= Len(buf) /\ \A i \in 1..Len(good) : good[i] = buf[i]
    <2>1. CASE Cut(buf) = {}
      <3>1. good = buf
        BY <1>6, <2>1
      <3> QED  BY ONLY <1>11, <3>1
    <2>2. CASE Cut(buf) # {}
      <3>1. PICK p : p = CHOOSE i \in Cut(buf) : \A j \in Cut(buf) : i <= j
        OBVIOUS
      <3>2. Cut(buf) \subseteq 1..Len(buf)
        BY <1>11
      <3>3. good = SubSeq(buf, 1, p - 1)
        BY <1>6, <2>2, <3>1
      <3> HIDE DEF Cut
      <3>4. Cut(buf) \subseteq Nat
        BY <3>2
      <3>5. p \in Cut(buf)
        BY <2>2, <3>1, <3>4, Least
      <3>6. 1 \in 1..(Len(buf) + 1) /\ p - 1 \in (1 - 1)..Len(buf) /\ p \in 1..Len(buf)
        BY <1>11, <3>2, <3>5
      <3>7. /\ IsSeq(good) /\ Len(good) = (p - 1) - 1 + 1
            /\ \A i \in 1..((p - 1) - 1 + 1) : good[i] = buf[1 + i - 1]
        BY ONLY <1>11, <3>3, <3>6, SubAny
      <3>8. (p - 1) - 1 + 1 = p - 1 /\ \A i \in 1..(p - 1) : 1 + i - 1 = i
        BY <3>6
      <3> QED  BY ONLY <1>11, <3>6, <3>7, <3>8
    <2> QED  BY <2>1, <2>2
  <1>13. n \in Nat /\ 2 * n <= Len(good)
    BY <1>5, <1>6, <1>12, Halves DEF Slave!WholeFrames
  <1>14. PICK r \in Nat, t \in Nat : t = Taken(w) /\ t = 2 * r
    <2>1. AllReplied(w.out, Taken(w)) /\ Replies(w.sent, w.out, Taken(w))
      BY <1>0 DEF SlaveConn
    <2>2. PICK t \in Nat : t = Taken(w)
      BY <1>1, Lengths
    <2>3. Len(w.out) \in Nat /\ t = 2 * Len(w.out)
      BY <2>1, <2>2 DEF AllReplied, Replies, IsSeq
    <2> QED  BY <2>2, <2>3
  <1>15. \A i \in starts \cap (1..Len(good)) : good[i].part = 1
    <2> SUFFICES ASSUME NEW i \in starts \cap (1..Len(good)) PROVE good[i].part = 1
      OBVIOUS
    <2>1. PICK j \in 1..n : i = 2 * j - 1
      BY <1>6
    <2>2. i \in 1..Len(x.buf) /\ good[i] = x.buf[i]
      BY <1>9, <1>11, <1>12
    <2>3. PieceOf(x.sent, t + i, x.buf[i])
      BY <1>10, <1>14, <2>2 DEF SlaveLine
    <2>4. PICK a \in 1..Len(x.sent) : \/ t + i = 2 * a - 1 /\ x.buf[i].part = 1
                                      \/ t + i = 2 * a /\ x.buf[i].part = 2
      BY <2>3 DEF PieceOf
    <2>5. a \in Int
      BY <2>4
    <2>6. t + i # 2 * a
      BY ONLY <1>13, <1>14, <2>1, <2>5, r \in Nat, j \in 1..n
    <2> QED  BY <2>2, <2>4, <2>6
  <1>16. PICK kk \in Nat : /\ kk <= Len(buf) /\ 2 * n <= kk
                           /\ IF Cut(buf) = {} THEN kk = 2 * n ELSE kk = Len(buf)
    <2>1. 2 * n \in Nat /\ 2 * n <= Len(buf)
      BY ONLY <1>11, <1>12, <1>13
    <2>2. CASE Cut(buf) = {}
      <3>1. PICK a \in Nat : a = 2 * n
        BY <2>1
      <3>2. a <= Len(buf) /\ 2 * n <= a
        BY ONLY <2>1, <3>1
      <3> QED  BY <2>2, <3>1, <3>2
    <2>3. CASE Cut(buf) # {}
      <3>1. PICK a \in Nat : a = Len(buf)
        BY <1>11
      <3>2. a <= Len(buf) /\ 2 * n <= a
        BY ONLY <2>1, <3>1, a \in Nat
      <3> QED  BY <2>3, <3>1, <3>2
    <2> QED  BY <2>2, <2>3
  <1>17. \A i \in starts \cap (1..Len(good)) : i + 1 <= kk
    <2> SUFFICES ASSUME NEW i \in starts PROVE i + 1 <= kk
      OBVIOUS
    <2>1. PICK j \in 1..n : i = 2 * j - 1
      BY <1>6
    <2> QED  BY ONLY <1>13, <1>16, <2>1, j \in 1..n, kk \in Nat
  <1>18. PICK b, s : b = (IF Cut(buf) = {} THEN SubSeq(buf, 2 * n + 1, Len(buf)) ELSE <<>>) /\ s = (Cut(buf) = {})
    OBVIOUS
  <1>19. IsSeq(b) /\ Len(b) = Len(buf) - kk /\ \A i \in 1..(Len(buf) - kk) : b[i] = buf[kk + i]
    <2>1. CASE Cut(buf) = {}
      <3>1. b = SubSeq(buf, kk + 1, Len(buf))
        BY <1>16, <1>18, <2>1
      <3>2. PICK l \in Nat : l = Len(buf)
        BY <1>11
      <3>3. kk + 1 \in 1..(l + 1) /\ l \in ((kk + 1) - 1)..l
        BY <1>16, <3>2
      <3>4. /\ IsSeq(b) /\ Len(b) = l - (kk + 1) + 1
            /\ \A i \in 1..(l - (kk + 1) + 1) : b[i] = buf[(kk + 1) + i - 1]
        BY ONLY <1>11, <3>1, <3>2, <3>3, SubAny
      <3>5. l - (kk + 1) + 1 = l - kk /\ \A i \in 1..(l - kk) : (kk + 1) + i - 1 = kk + i
        BY ONLY l \in Nat, kk \in Nat
      <3> QED  BY ONLY <3>2, <3>4, <3>5
    <2>2. CASE Cut(buf) # {}
      <3>1. b = <<>> /\ kk = Len(buf)
        BY <1>16, <1>18, <2>2
      <3>2. IsSeq(b) /\ Len(b) = 0
        BY <3>1, SmallSeqs
      <3>3. Len(b) = Len(buf) - kk
        BY ONLY <1>11, <3>1, <3>2
      <3>4. \A i \in 1..(Len(buf) - kk) : FALSE
        BY ONLY <1>11, <3>1
      <3> QED  BY <3>2, <3>3, <3>4
    <2> QED  BY <2>1, <2>2
  <1>20. DOMAIN y = DOMAIN w /\ y.sent = w.sent /\ y.pipe = pipe /\ y.buf = b /\ y.sync = s /\ y.out = w.out
    <2>1. y = [w EXCEPT !.pipe = pipe, !.sync = s, !.buf = b]
      BY <1>4, <1>6, <1>18
    <2> QED  BY ONLY <2>1, <1>2
  <1>21. ASSUME NEW v, DOMAIN v = DOMAIN y, v.sent = y.sent, v.pipe = y.pipe, v.buf = y.buf, v.sync = y.sync,
                v.out = y.out \o Slave!Served(good, starts).reply
         PROVE  SlaveConn(v, ctl.kind) /\ Told(Slave!Served(good, starts).untold)
    <2>1. /\ DOMAIN v = DOMAIN x /\ v.sent = x.sent /\ v.pipe = x.pipe
          /\ v.out = w.out \o Slave!Served(good, starts).reply
      BY <1>9, <1>20, <1>21
    <2>2. IsSeq(v.buf) /\ Len(v.buf) = Len(x.buf) - kk /\ \A i \in 1..(Len(x.buf) - kk) : v.buf[i] = x.buf[kk + i]
      BY <1>9, <1>19, <1>20, <1>21
    <2>3. v.sync => \E c \in Nat : kk = 2 * c /\ 2 * c <= Len(good) /\ starts = {2 * i - 1 : i \in 1..c}
      <3> SUFFICES ASSUME v.sync PROVE kk = 2 * n
        BY <1>6, <1>13
      <3>1. Cut(buf) = {}
        BY <1>18, <1>20, <1>21
      <3> QED  BY <1>16, <3>1
    <2>4. Len(good) <= Len(x.buf) /\ \A i \in 1..Len(good) : good[i] = x.buf[i]
      BY <1>9, <1>12
    <2>5. kk <= Len(x.buf) /\ x.sent = w.sent
      BY <1>9, <1>16
    <2> HIDE DEF w
    <2> QED  BY ONLY <1>0, <1>10, <1>12, <1>15, <1>17, <2>1, <2>2, <2>3, <2>4, <2>5, kk \in Nat, ServedConn
  <1>22. DOMAIN y = {"open", "pipe", "buf", "timer", "sent", "out", "sync"}
    BY <1>2, <1>20
  <1> HIDE DEF w, Cut, Good, After
  <1> QED  BY <1>7, <1>21, <1>22, ServeSteps

SaidFields == {"n", "cmd", "status", "code", "val", "untold"}

LEMMA AnswerKeeps ==
    ASSUME DOMAIN said = SaidFields, NEW cmd, NEW status, NEW code, NEW val,
           Slave!Answer(cmd, status, code, val)
    PROVE  DOMAIN said' = SaidFields /\ said'.untold = said.untold
  BY DEF Slave!Answer, SaidFields

LEMMA NewModeAnswer ==
    ASSUME NEW cmd, NEW status, NEW code, NEW val, Slave!AnswerNewMode(cmd, status, code, val)
    PROVE  DOMAIN said' = SaidFields /\ said'.untold = {}
  BY DEF Slave!AnswerNewMode, SaidFields

(* A command leaves the connections or begins them anew; with a new event
   mode nothing is untold. *)
HostStep ==
    /\ DOMAIN ctl' = DOMAIN ctl /\ ctl'.kind = ctl.kind
    /\ DOMAIN said' = SaidFields
    /\ said'.untold = {} \/ (said'.untold = said.untold /\ ctl'.mode = ctl.mode)
    /\ wire' = wire \/ (DOMAIN wire' = Masters /\ \A m \in Masters : wire'[m] \in {Slave!Open, Slave!Closed})

LEMMA HostKeeps == ASSUME SlaveInv, HostStep PROVE SlaveInv'
  <1>1. ASSUME NEW m \in Masters
        PROVE  SlaveConn(wire'[m], ctl.kind)
    <2>1. CASE wire' = wire
      BY <2>1 DEF SlaveInv
    <2>2. CASE wire'[m] \in {Slave!Open, Slave!Closed}
      BY <2>2, FreshLine
    <2> QED  BY <2>1, <2>2 DEF HostStep
  <1>2. DOMAIN wire' = Masters
    BY DEF HostStep, SlaveInv
  <1> QED  BY <1>1, <1>2 DEF HostStep, SlaveInv, SaidFields

LEMMA FailedKeeps ==
    ASSUME SlaveInv, NEW cmd, NEW code, Slave!Failed(cmd, code)
    PROVE  HostStep
  <1>1. DOMAIN said = SaidFields /\ Slave!Answer(cmd, "error", code, <<>>) /\ ctl' = ctl /\ wire' = wire
    BY DEF Slave!Failed, SlaveInv, SaidFields
  <1>2. DOMAIN said' = SaidFields /\ said'.untold = said.untold
    BY <1>1, AnswerKeeps
  <1> QED  BY <1>1, <1>2 DEF HostStep

\* An answer to a command that changes neither the mode nor the connections.
LEMMA AnsweredKeeps ==
    ASSUME SlaveInv, NEW cmd, NEW status, NEW code, NEW val, Slave!Answer(cmd, status, code, val),
           ctl' = ctl, wire' = wire
    PROVE  HostStep
  <1>1. DOMAIN said = SaidFields
    BY DEF SlaveInv, SaidFields
  <1>2. DOMAIN said' = SaidFields /\ said'.untold = said.untold
    BY <1>1, AnswerKeeps
  <1> QED  BY <1>1, <1>2 DEF HostStep

LEMMA DoneKeeps ==
    ASSUME SlaveInv, NEW cmd, NEW val, Slave!Done(cmd, val), ctl' = ctl, wire' = wire
    PROVE  HostStep
  BY AnsweredKeeps DEF Slave!Done

LEMMA ListeningIs ==
    ASSUME wire' = Slave!Listening
    PROVE  DOMAIN wire' = Masters /\ \A m \in Masters : wire'[m] \in {Slave!Open, Slave!Closed}
  BY DEF Slave!Listening

LEMMA SlaveStarted ==
    ASSUME SlaveInv, NEW mode, Slave!startServer(mode),
           NEW cmd, NEW status, NEW code, NEW val, Slave!AnswerNewMode(cmd, status, code, val)
    PROVE  HostStep
  <1>1. DOMAIN ctl = {"kind", "running", "mode"}
    BY DEF SlaveInv
  <1>2. DOMAIN ctl' = DOMAIN ctl /\ ctl'.kind = ctl.kind
    BY <1>1 DEF Slave!startServer
  <1>3. wire' = Slave!Listening
    BY DEF Slave!startServer
  <1> QED  BY <1>2, <1>3, ListeningIs, NewModeAnswer DEF HostStep

LEMMA SlaveRuns == ASSUME SlaveInv, NEW mode, NEW units, Slave!Run(mode, units) PROVE HostStep
  <1>1. CASE \E code : Slave!Failed("run", code)
    BY <1>1, FailedKeeps
  <1>2. CASE \E val : Slave!startServer(mode) /\ Slave!AnswerNewMode("run", "event", 0, val)
    BY <1>2, SlaveStarted
  <1>3. CASE ctl' = [ctl EXCEPT !.mode = mode] /\ wire' = wire /\ Slave!AnswerNewMode("run", "error", 3, <<>>)
    <2>1. DOMAIN ctl' = DOMAIN ctl /\ ctl'.kind = ctl.kind
      BY <1>3 DEF SlaveInv
    <2> QED  BY <1>3, <2>1, NewModeAnswer DEF HostStep
  <1> QED  BY <1>1, <1>2, <1>3 DEF Slave!Run

LEMMA SlaveCommands == ASSUME SlaveInv, NEW c, Slave!Command(c) PROVE HostStep
  <1>1. CASE \E val : Slave!Done(c, val) /\ UNCHANGED <<ctl, wire, dev>>
    BY <1>1, DoneKeeps
  <1>2. CASE \E mode, units : Slave!Run(mode, units)
    BY <1>2, SlaveRuns
  <1>3. CASE Slave!StartServer("all")
    <2>1. CASE \E code : Slave!Failed("start_server", code)
      BY <2>1, FailedKeeps
    <2>2. CASE Slave!startServer("all") /\ Slave!AnswerNewMode("start_server", "done", 0, <<>>)
      BY <2>2, SlaveStarted
    <2> QED  BY <1>3, <2>1, <2>2 DEF Slave!StartServer
  <1>4. CASE Slave!StopServer
    <2>1. CASE Slave!Failed("stop_server", 3)
      BY <2>1, FailedKeeps
    <2>2. CASE /\ ctl' = [ctl EXCEPT !.running = FALSE] /\ wire' = [m \in Masters |-> Slave!Closed]
               /\ Slave!Done("stop_server", <<>>)
      <3>1. DOMAIN ctl' = DOMAIN ctl /\ ctl'.kind = ctl.kind /\ ctl'.mode = ctl.mode
        BY <2>2 DEF SlaveInv
      <3>2. DOMAIN said' = SaidFields /\ said'.untold = said.untold
        BY <2>2, AnswerKeeps DEF Slave!Done, SlaveInv, SaidFields
      <3>3. DOMAIN wire' = Masters /\ \A m \in Masters : wire'[m] \in {Slave!Open, Slave!Closed}
        BY <2>2
      <3> QED  BY <3>1, <3>2, <3>3 DEF HostStep
    <2> QED  BY <1>4, <2>1, <2>2 DEF Slave!StopServer
  <1>5. CASE Slave!addUnit(1)
    BY <1>5, FailedKeeps, DoneKeeps DEF Slave!addUnit
  <1>6. CASE Slave!removeUnit(1)
    BY <1>6, FailedKeeps, DoneKeeps DEF Slave!removeUnit
  <1>7. CASE Slave!Set(1, "coil", 0, 1)
    BY <1>7, FailedKeeps, DoneKeeps DEF Slave!Set
  <1>8. CASE Slave!Get(1, "coil", 0)
    BY <1>8, FailedKeeps, DoneKeeps DEF Slave!Get
  <1>9. CASE \E addr : Slave!SetBatch(1, addr, <<2, 3>>)
    <2>1. PICK addr : Slave!SetBatch(1, addr, <<2, 3>>)
      BY <1>9
    <2>2. CASE Slave!Failed("set_registers_batch", 3)
      BY <2>2, FailedKeeps
    <2>3. CASE /\ ctl' = ctl /\ wire' = wire
               /\ Slave!Done("set_registers_batch", <<2, 3>>) \/ Slave!Answer("set_registers_batch", "error", 3, <<>>)
      BY <2>3, DoneKeeps, AnsweredKeeps
    <2> QED  BY <2>1, <2>2, <2>3 DEF Slave!SetBatch
  <1>10. CASE \E addr : Slave!GetBatch(1, addr, 2)
    <2>1. PICK addr : Slave!GetBatch(1, addr, 2)
      BY <1>10
    <2>2. CASE Slave!Failed("get_registers_batch", 3)
      BY <2>2, FailedKeeps
    <2>3. CASE \E val : Slave!Done("get_registers_batch", val) /\ ctl' = ctl /\ wire' = wire
      BY <2>3, DoneKeeps
    <2> QED  BY <2>1, <2>2, <2>3 DEF Slave!GetBatch
  <1>11. CASE \E code : Slave!Failed(c, code)
    BY <1>11, FailedKeeps
  <1> QED  BY <1>1, <1>2, <1>3, <1>4, <1>5, <1>6, <1>7, <1>8, <1>9, <1>10, <1>11 DEF Slave!Command

LEMMA SlaveStep == ASSUME SlaveInv, Slave!Next PROVE SlaveInv'
  <1>1. CASE Slave!Handle
    BY <1>1, SlaveCommands, HostKeeps DEF Slave!Handle
  <1>2. CASE \E m \in Masters :
                \/ Slave!MasterSends(m) \/ Slave!incomingConnection(m) \/ Slave!onDisconnected(m)
                \/ Slave!processBuffer(m) \/ Slave!rtuReadyRead(m) \/ Slave!serialReadyRead(m)
                \/ Slave!rtuFrameTimeout(m) \/ Slave!serialFrameTimeout(m)
    BY <1>2, SlaveSends, SlaveConnects, SlaveBuffers, SlaveReads, SlaveFrames
  <1> QED  BY <1>1, <1>2 DEF Slave!Next

-----------------------------------------------------------------------------
(***************************************************************************)
(* A Modbus server answers a master's requests in their order and each at  *)
(* most once (over TCP each that has arrived exactly once), whatever the   *)
(* pieces they come in and whoever else writes, and tells the host of the  *)
(* writes its event mode covers; the simulated crane's registers say what  *)
(* the device has taken, and in auto mode it is at its goal or on its way  *)
(* (modbus_tcp_server.cpp, modbus_rtu_server.cpp,                          *)
(* modbus_rtu_serial_server.cpp, sim_device.cpp, handler.cpp).             *)
(***************************************************************************)
THEOREM ServersAnswerInOrder == Spec => []ServerAnswers
  <1> DEFINE I == /\ driver = "modbus_server" => SlaveInv
                  /\ driver = "plc_crane_sim" => SimInv
  <1>1. Init => I
    BY SlaveStarts, SimStarts DEF Init
  <1>2. I /\ [Next]_vars => I'
    <2> SUFFICES ASSUME I, [Next]_vars PROVE I'
      OBVIOUS
    <2>1. CASE UNCHANGED vars
      BY <2>1 DEF vars, SlaveInv, SimInv, SimShown
    <2>2. CASE Next
      <3>1. driver' = driver
        BY <2>2 DEF Next
      <3>2. driver = "modbus_server" => SlaveInv'
        BY <2>2, SlaveStep DEF Next, DriverStep
      <3>3. driver = "plc_crane_sim" => SimInv'
        BY <2>2, SimStep DEF Next, DriverStep
      <3> QED  BY <3>1, <3>2, <3>3
    <2> QED  BY <2>1, <2>2
  <1>3. I => ServerAnswers
    BY SlaveInvHolds, SimInvHolds DEF ServerAnswers
  <1> QED  BY <1>1, <1>2, <1>3, PTL DEF Spec
=============================================================================
