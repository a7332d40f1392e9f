----------------------- MODULE InstanceManager_proofs -----------------------
(***************************************************************************)
(* Proofs about InstanceManager, for any projects, slots and services.     *)
(***************************************************************************)
EXTENDS InstanceManager, TLAPS

(***************************************************************************)
(* What an entry of the table and the signals emitted for it have to do    *)
(* with each other, by the status of the entry.  The flag                  *)
(* startFailedEmitted counts the failures reported so far, and an entry    *)
(* whose start was reported failed has been killed.  A slot without an     *)
(* entry has never been used, or its instance has been reported finished   *)
(* after the outcome of its start.                                         *)
(***************************************************************************)
Reported(r, g) ==
    /\ g.finished = 0
    /\ g.startFailed = IF r.startFailedEmitted THEN 1 ELSE 0
    /\ r.startFailedEmitted => r.killed

EntryInv(r, g) ==
    /\ r.status = "starting" => Reported(r, g) /\ g.started = 0
    /\ r.status = "running" => Reported(r, g) /\ g.started = 1
    /\ r.status = "none" =>
          \/ g = NoSignals
          \/ /\ g.finished = 1
             /\ g.started <= 1
             /\ g.started + g.startFailed > 0
             /\ ~LateExecFailure => g.startFailed <= 1

SignalInv == \A p \in Projects, s \in Slots : EntryInv(inst[p][s], sig[p][s])

IInv == TypeOK /\ SignalInv

-----------------------------------------------------------------------------
(* An absent entry, and one made by startInstance for any origin, is an entry. *)
LEMMA NewEntryTypes ==
    /\ NoInstance \in Instance
    /\ \A rt \in BOOLEAN, v \in Services \cup {NoService}, o \in Origins :
          NewInstance(rt, v, o) \in Instance
BY DEF NoInstance, Instance, NewInstance, Origins

(* The updates that the handlers make to an entry give an entry again. *)
LEMMA EntryTypes ==
    ASSUME NEW r \in Instance
    PROVE  /\ Kill(r) \in Instance
           /\ Started(r) \in Instance
           /\ StartTimedOut(r) \in Instance
           /\ WatchdogExpired(r) \in Instance
<1>1. Kill(r) \in Instance
    BY DEF Kill, Instance
<1>2. Started(r) \in Instance
    BY DEF Started, Instance
<1>3. StartTimedOut(r) \in Instance
    BY DEF StartTimedOut, Instance
<1>4. WatchdogExpired(r) \in Instance
    BY DEF WatchdogExpired, Instance
<1> QED
    BY <1>1, <1>2, <1>3, <1>4

(* The entry that startInstance makes is an entry. *)
LEMMA ApiEntryTypes ==
    \A rt \in BOOLEAN, v \in Services : NewInstance(rt, v, "api") \in Instance
BY NewEntryTypes DEF Origins

(* The initial state has no instance and no signal. *)
LEMMA InitIInv == Init => IInv
<1> SUFFICES ASSUME Init PROVE IInv
    OBVIOUS
<1>1. TypeOK
    BY NewEntryTypes DEF Init, TypeOK, EmptyTable, Tables, Signals, NoSignals
<1>2. SignalInv
    BY DEF Init, SignalInv, EntryInv, EmptyTable, NoInstance
<1> QED
    BY <1>1, <1>2 DEF IInv

(***************************************************************************)
(* A handler that replaces one entry and its signals by a pair that        *)
(* belongs together keeps the invariant: the other entries do not change.  *)
(***************************************************************************)
LEMMA OneEntryStep ==
    ASSUME IInv,
           NEW p \in Projects, NEW s \in Slots,
           NEW r \in Instance, NEW g \in Signals,
           EntryInv(r, g),
           inst' = [inst EXCEPT ![p][s] = r],
           sig' = [sig EXCEPT ![p][s] = g]
    PROVE  IInv'
<1>1. TypeOK'
    BY DEF IInv, TypeOK, Tables
<1>2. ASSUME NEW q \in Projects, NEW x \in Slots
      PROVE  EntryInv(inst[q][x], sig[q][x])'
  <2>1. CASE q = p /\ x = s
    <3>1. inst'[q][x] = r /\ sig'[q][x] = g
        BY <2>1 DEF IInv, TypeOK, Tables
    <3> QED
        BY <3>1 DEF EntryInv, Reported
  <2>2. CASE ~(q = p /\ x = s)
    <3>1. inst'[q][x] = inst[q][x] /\ sig'[q][x] = sig[q][x]
        BY <2>2 DEF IInv, TypeOK, Tables
    <3> QED
        BY <3>1 DEF IInv, SignalInv, EntryInv, Reported
  <2> QED
    BY <2>1, <2>2
<1> QED
    BY <1>1, <1>2 DEF IInv, SignalInv

(* kill() and the watchdog change nothing that the signals depend on. *)
LEMMA KillKeepsEntryInv ==
    ASSUME NEW r \in Instance, NEW g \in Signals, EntryInv(r, g)
    PROVE  /\ EntryInv(Kill(r), g)
           /\ r.watchdog = "armed" => EntryInv(WatchdogExpired(r), g)
<1>1. EntryInv(Kill(r), g)
    BY DEF EntryInv, Reported, Kill, Instance
<1>2. EntryInv(WatchdogExpired(r), g)
    BY DEF EntryInv, Reported, WatchdogExpired, Instance
<1> QED
    BY <1>1, <1>2

(* What emitting a signal makes of the counts, field by field. *)
LEMMA EmitStartFailedFields ==
    ASSUME NEW g \in Signals
    PROVE  EmitStartFailed(g) = [started |-> g.started, startFailed |-> g.startFailed + 1,
                                 finished |-> g.finished]
BY DEF EmitStartFailed, Signals

(* The same for instanceFinished. *)
LEMMA EmitFinishedFields ==
    ASSUME NEW g \in Signals
    PROVE  EmitFinished(g) = [started |-> g.started, startFailed |-> g.startFailed,
                              finished |-> g.finished + 1]
BY DEF EmitFinished, Signals

(* The types of the signal counts after a signal. *)
LEMMA EmissionTypes ==
    ASSUME NEW g \in Signals
    PROVE  EmitStarted(g) \in Signals /\ EmitStartFailed(g) \in Signals
           /\ EmitFinished(g) \in Signals
BY DEF Signals, EmitStarted, EmitStartFailed, EmitFinished

(* Every action takes a state of the invariant to one. *)
LEMMA NextIInv == IInv /\ [Next]_vars => IInv'
<1> SUFFICES ASSUME IInv, [Next]_vars PROVE IInv'
    OBVIOUS
<1>0. ASSUME NEW p \in Projects, NEW s \in Slots
      PROVE  inst[p][s] \in Instance /\ sig[p][s] \in Signals
             /\ EntryInv(inst[p][s], sig[p][s])
             /\ sig = [sig EXCEPT ![p][s] = sig[p][s]]
    BY DEF IInv, TypeOK, Tables, SignalInv
<1>1. ASSUME NEW p \in Projects, NEW s \in Slots, NEW rt \in BOOLEAN, NEW v \in Services,
             StartInstance(p, s, rt, v)
      PROVE  IInv'
  <2>1. NewInstance(rt, v, "api") \in Instance /\ NoSignals \in Signals
    BY ApiEntryTypes DEF Signals, NoSignals
  <2>2. EntryInv(NewInstance(rt, v, "api"), NoSignals)
    BY DEF EntryInv, Reported, NewInstance, NoSignals
  <2> QED
    BY <1>1, <2>1, <2>2, OneEntryStep DEF StartInstance, Emplace
<1>2. ASSUME NEW p \in Projects, NEW s \in Slots, TerminateInstance(p, s)
      PROVE  IInv'
    BY <1>0, <1>2, EntryTypes, KillKeepsEntryInv, OneEntryStep DEF TerminateInstance
<1>3. ASSUME NEW p \in Projects, NEW s \in Slots, OnStarted(p, s)
      PROVE  IInv'
  <2>1. EntryInv(Started(inst[p][s]), EmitStarted(sig[p][s]))
    BY <1>0, <1>3 DEF OnStarted, EntryInv, Reported, Started, EmitStarted, Instance, Signals
  <2> QED
    BY <1>0, <1>3, <2>1, EntryTypes, EmissionTypes, OneEntryStep DEF OnStarted
<1>4. ASSUME NEW p \in Projects, NEW s \in Slots, OnFailedToStart(p, s)
      PROVE  IInv'
  <2> DEFINE h == EmitFinished(EmitStartFailed(sig[p][s]))
  <2>1. h \in Signals
    BY <1>0, EmissionTypes
  <2>2. /\ h.finished = 1 /\ h.started = 0
        /\ h.startFailed = IF inst[p][s].startFailedEmitted THEN 2 ELSE 1
    BY <1>0, <1>4 DEF OnFailedToStart, EntryInv, Reported, Instance, Signals,
                      EmitFinished, EmitStartFailed
  <2>3. EntryInv(NoInstance, h)
    BY <1>4, <2>1, <2>2 DEF OnFailedToStart, EntryInv, NoInstance
  <2> HIDE DEF h
  <2>4. inst' = [inst EXCEPT ![p][s] = NoInstance] /\ sig' = [sig EXCEPT ![p][s] = h]
    BY <1>4 DEF OnFailedToStart, Erase, h
  <2> QED
    BY <2>1, <2>3, <2>4, NewEntryTypes, OneEntryStep
<1>5. ASSUME NEW p \in Projects, NEW s \in Slots, OnProcessFinished(p, s)
      PROVE  IInv'
  <2> DEFINE owed == inst[p][s].status = "starting" /\ ~inst[p][s].startFailedEmitted
             h == EmitFinished(IF owed THEN EmitStartFailed(sig[p][s]) ELSE sig[p][s])
  <2>1. h \in Signals
    BY <1>0, EmissionTypes
  <2>2. /\ h.finished = 1 /\ h.started <= 1
        /\ h.started + h.startFailed > 0 /\ h.startFailed <= 1
    BY <1>0, <1>5 DEF OnProcessFinished, IsLive, EntryInv, Reported, Instance, Signals,
                      EmitFinished, EmitStartFailed
  <2>3. EntryInv(NoInstance, h)
    BY <2>1, <2>2 DEF EntryInv, NoInstance
  <2>4. inst' = [inst EXCEPT ![p][s] = NoInstance] /\ sig' = [sig EXCEPT ![p][s] = h]
    BY <1>5 DEF OnProcessFinished, Erase
  <2> HIDE DEF h
  <2> QED
    BY <2>1, <2>3, <2>4, NewEntryTypes, OneEntryStep
<1>6. ASSUME NEW p \in Projects, NEW s \in Slots, OnStartTimeout(p, s)
      PROVE  IInv'
  <2>1. EntryInv(StartTimedOut(inst[p][s]), EmitStartFailed(sig[p][s]))
    BY <1>0, <1>6 DEF OnStartTimeout, StartTimerPending, EntryInv, Reported,
                      StartTimedOut, EmitStartFailed, Instance, Signals
  <2> QED
    BY <1>0, <1>6, <2>1, EntryTypes, EmissionTypes, OneEntryStep DEF OnStartTimeout
<1>7. ASSUME NEW p \in Projects, NEW s \in Slots, OnRunTimeout(p, s)
      PROVE  IInv'
  <2>1. /\ WatchdogExpired(inst[p][s]) \in Instance
        /\ EntryInv(WatchdogExpired(inst[p][s]), sig[p][s])
    BY <1>0, <1>7, EntryTypes, KillKeepsEntryInv DEF OnRunTimeout
  <2>2. /\ inst' = [inst EXCEPT ![p][s] = WatchdogExpired(inst[p][s])]
        /\ sig' = [sig EXCEPT ![p][s] = sig[p][s]]
    BY <1>0, <1>7 DEF OnRunTimeout
  <2> QED
    BY <1>0, <2>1, <2>2, OneEntryStep
<1>8. ASSUME NEW P \in SUBSET Projects, TerminateByProject(P)
      PROVE  IInv'
  <2>1. TypeOK'
    BY <1>8, EntryTypes DEF IInv, TypeOK, Tables, TerminateByProject, KillProjects
  <2>2. ASSUME NEW q \in Projects, NEW x \in Slots
        PROVE  EntryInv(inst[q][x], sig[q][x])'
    <3>1. sig' = sig /\ inst'[q][x] = IF q \in P THEN Kill(inst[q][x]) ELSE inst[q][x]
        BY <1>8 DEF TerminateByProject, KillProjects
    <3>2. EntryInv(inst'[q][x], sig'[q][x])
        BY <1>0, <3>1, KillKeepsEntryInv
    <3> QED
        BY <3>2 DEF EntryInv, Reported
  <2> QED
    BY <2>1, <2>2 DEF IInv, SignalInv
<1>9. CASE UNCHANGED vars
    BY <1>9 DEF vars, IInv, TypeOK, SignalInv, EntryInv, Reported
<1> QED
    BY <1>1, <1>2, <1>3, <1>4, <1>5, <1>6, <1>7, <1>8, <1>9
       DEF Next, ProcessEvent, TimerEvent

(* IInv is an invariant. *)
LEMMA Invariance == Spec => []IInv
BY InitIInv, NextIInv, PTL DEF Spec

-----------------------------------------------------------------------------
(* The table and the history of signals keep their types in every run. *)
THEOREM TypeCorrect == Spec => []TypeOK
<1>1. IInv => TypeOK
    BY DEF IInv
<1> QED
    BY <1>1, Invariance, PTL

(***************************************************************************)
(* instanceFinished is emitted exactly once per instance, in the step that *)
(* erases it, with or without late exec failures.                          *)
(***************************************************************************)
THEOREM FinishedOnce == Spec => []FinishedExactlyOnce
<1>1. ASSUME IInv PROVE FinishedExactlyOnce
  <2> SUFFICES ASSUME NEW p \in Projects, NEW s \in Slots
               PROVE  /\ IsLive(inst, p, s) => sig[p][s].finished = 0
                      /\ sig[p][s].finished <= 1
                      /\ ~IsLive(inst, p, s) /\ sig[p][s] # NoSignals
                            => sig[p][s].finished = 1
    BY DEF FinishedExactlyOnce
  <2>1. /\ inst[p][s].status \in {"none", "starting", "running"}
        /\ EntryInv(inst[p][s], sig[p][s])
    BY <1>1 DEF IInv, TypeOK, Tables, Instance, SignalInv
  <2> QED
    BY <2>1 DEF EntryInv, Reported, IsLive, NoSignals
<1> QED
    BY <1>1, Invariance, PTL

(***************************************************************************)
(* Every way out of the table (FailedToStart, finished before or after the *)
(* start timer, finished while running) has announced how the start went.  *)
(***************************************************************************)
THEOREM OutcomeAnnounced == Spec => []OutcomeBeforeFinished
<1>1. ASSUME IInv PROVE OutcomeBeforeFinished
  <2> SUFFICES ASSUME NEW p \in Projects, NEW s \in Slots, sig[p][s].finished > 0
               PROVE  sig[p][s].started + sig[p][s].startFailed > 0
    BY DEF OutcomeBeforeFinished
  <2>1. /\ inst[p][s].status \in {"none", "starting", "running"}
        /\ EntryInv(inst[p][s], sig[p][s])
    BY <1>1 DEF IInv, TypeOK, Tables, Instance, SignalInv
  <2> QED
    BY <2>1 DEF EntryInv, Reported, NoSignals
<1> QED
    BY <1>1, Invariance, PTL

(***************************************************************************)
(* What was reported of an instance agrees with its entry, also when the   *)
(* process comes up after its start timer.                                 *)
(***************************************************************************)
THEOREM ReportsAgree == Spec => []ReportsMatchTable
<1>1. ASSUME IInv PROVE ReportsMatchTable
  <2> SUFFICES ASSUME NEW p \in Projects, NEW s \in Slots, IsLive(inst, p, s)
               PROVE  /\ sig[p][s].started = 1 <=> inst[p][s].status = "running"
                      /\ sig[p][s].startFailed > 0 => inst[p][s].killed
    BY DEF ReportsMatchTable
  <2>1. /\ inst[p][s].status \in {"none", "starting", "running"}
        /\ EntryInv(inst[p][s], sig[p][s])
    BY <1>1 DEF IInv, TypeOK, Tables, Instance, SignalInv
  <2> QED
    BY <2>1 DEF EntryInv, Reported, IsLive
<1> QED
    BY <1>1, Invariance, PTL

(***************************************************************************)
(* startFailed is emitted at most once per instance as long as no exec     *)
(* failure is delivered after the start timer: the handler of              *)
(* errorOccurred does not look at startFailedEmitted.                      *)
(***************************************************************************)
THEOREM StartFailedOnce ==
    ASSUME ~LateExecFailure
    PROVE  Spec => []StartFailedAtMostOnce
<1>1. ASSUME IInv PROVE StartFailedAtMostOnce
  <2> SUFFICES ASSUME NEW p \in Projects, NEW s \in Slots
               PROVE  sig[p][s].startFailed <= 1
    BY DEF StartFailedAtMostOnce
  <2>1. /\ inst[p][s].status \in {"none", "starting", "running"}
        /\ EntryInv(inst[p][s], sig[p][s])
    BY <1>1 DEF IInv, TypeOK, Tables, Instance, SignalInv
  <2> QED
    BY <2>1 DEF EntryInv, Reported, NoSignals
<1> QED
    BY <1>1, Invariance, PTL

-----------------------------------------------------------------------------
(* The refinement mapping: an instance is alive while it is in the table. *)
Alive == [p \in Projects |-> [s \in Slots |-> IsLive(inst, p, s)]]

(* How the mapping changes when one entry is replaced. *)
LEMMA AliveStep ==
    ASSUME TypeOK,
           NEW p \in Projects, NEW s \in Slots, NEW r \in Instance,
           inst' = [inst EXCEPT ![p][s] = r]
    PROVE  Alive' = [Alive EXCEPT ![p][s] = (r.status # "none")]
BY DEF TypeOK, Tables, Alive, IsLive

(* The mapping does not change when no entry appears or disappears. *)
LEMMA AliveSame ==
    ASSUME \A p \in Projects, s \in Slots : IsLive(inst', p, s) <=> IsLive(inst, p, s)
    PROVE  Alive' = Alive
BY DEF Alive, IsLive

(* So an update of one entry that keeps it in the table is no step of alive. *)
LEMMA AliveKept ==
    ASSUME TypeOK,
           NEW p \in Projects, NEW s \in Slots, NEW r \in Instance,
           inst' = [inst EXCEPT ![p][s] = r],
           r.status # "none" <=> inst[p][s].status # "none"
    PROVE  Alive' = Alive
<1>1. ASSUME NEW q \in Projects, NEW x \in Slots
      PROVE  IsLive(inst', q, x) <=> IsLive(inst, q, x)
    BY DEF TypeOK, Tables, IsLive
<1> QED
    BY <1>1, AliveSame

(***************************************************************************)
(* Every step emits what the protocol allows.                              *)
(***************************************************************************)
LEMMA ProtocolStep ==
    ASSUME ~LateExecFailure, IInv, [Next]_vars
    PROVE  [Listener!Next]_<<Alive, sig>>
<1>0. ASSUME NEW p \in Projects, NEW s \in Slots
      PROVE  inst[p][s] \in Instance /\ sig[p][s] \in Signals
             /\ EntryInv(inst[p][s], sig[p][s])
             /\ Alive[p][s] = (inst[p][s].status # "none")
    BY DEF IInv, TypeOK, Tables, SignalInv, Alive, IsLive
<1>1. ASSUME NEW p \in Projects, NEW s \in Slots, NEW rt \in BOOLEAN, NEW v \in Services,
             StartInstance(p, s, rt, v)
      PROVE  Listener!Create(p, s)
  <2>1. Alive' = [Alive EXCEPT ![p][s] = TRUE]
    BY <1>1, AliveStep, ApiEntryTypes DEF IInv, StartInstance, Emplace, NewInstance
  <2>2. ~Alive[p][s]
    BY <1>0, <1>1 DEF StartInstance, IsLive
  <2> QED
    BY <1>1, <2>1, <2>2 DEF StartInstance, Alive, NoSignals, Listener!Create,
       Listener!NoSignals
<1>2. ASSUME NEW p \in Projects, NEW s \in Slots, OnStarted(p, s)
      PROVE  Listener!AnnounceStarted(p, s)
  <2>1. Alive[p][s] /\ Alive' = Alive
    <3>1. Started(inst[p][s]).status = "running"
        BY <1>0 DEF Started, Instance
    <3>2. Alive[p][s]
        BY <1>0, <1>2 DEF OnStarted
    <3>3. Alive' = Alive
        BY <1>0, <1>2, <3>1, AliveKept, EntryTypes DEF IInv, OnStarted
    <3> QED
        BY <3>2, <3>3
  <2>2. sig[p][s].started = 0
    BY <1>0, <1>2 DEF OnStarted, EntryInv
  <2>3. EmitStarted(sig[p][s]) = [sig[p][s] EXCEPT !.started = 1]
    BY <2>2 DEF EmitStarted
  <2>4. sig' = [sig EXCEPT ![p][s].started = 1]
    BY <1>2, <2>3 DEF OnStarted
  <2> QED
    BY <2>1, <2>2, <2>4 DEF Alive, Listener!AnnounceStarted
<1>3. ASSUME NEW p \in Projects, NEW s \in Slots, OnStartTimeout(p, s)
      PROVE  Listener!AnnounceStartFailed(p, s)
  <2>1. Alive[p][s] /\ Alive' = Alive
    <3>1. StartTimedOut(inst[p][s]).status = "starting"
        BY <1>0, <1>3 DEF OnStartTimeout, StartTimerPending, StartTimedOut, Instance
    <3>2. Alive[p][s]
        BY <1>0, <1>3 DEF OnStartTimeout, StartTimerPending
    <3>3. Alive' = Alive
        BY <1>0, <1>3, <3>1, AliveKept, EntryTypes
           DEF IInv, OnStartTimeout, StartTimerPending
    <3> QED
        BY <3>2, <3>3
  <2>2. sig[p][s].started = 0 /\ sig[p][s].startFailed = 0
    BY <1>0, <1>3 DEF OnStartTimeout, StartTimerPending, EntryInv, Reported
  <2>3. EmitStartFailed(sig[p][s]) = [sig[p][s] EXCEPT !.startFailed = 1]
    BY <2>2 DEF EmitStartFailed
  <2>4. sig' = [sig EXCEPT ![p][s].startFailed = 1]
    BY <1>3, <2>3 DEF OnStartTimeout
  <2> QED
    BY <2>1, <2>2, <2>4 DEF Alive, Listener!AnnounceStartFailed
<1>4. ASSUME NEW p \in Projects, NEW s \in Slots, OnFailedToStart(p, s)
      PROVE  Listener!Finish(p, s)
  <2> DEFINE h == EmitFinished(EmitStartFailed(sig[p][s]))
  <2>1. Alive[p][s]
    BY <1>0, <1>4 DEF OnFailedToStart
  <2>2. Alive' = [Alive EXCEPT ![p][s] = FALSE]
    BY <1>4, AliveStep, NewEntryTypes DEF IInv, OnFailedToStart, Erase, NoInstance
  <2>3. h = [started |-> sig[p][s].started,
             startFailed |-> IF sig[p][s].started = 0 THEN 1 ELSE sig[p][s].startFailed,
             finished |-> 1]
    <3>1. /\ sig[p][s].finished = 0
          /\ sig[p][s].started = 0 /\ sig[p][s].startFailed = 0
        BY <1>0, <1>4 DEF OnFailedToStart, EntryInv, Reported
    <3>2. EmitStartFailed(sig[p][s]) \in Signals
        BY <1>0, EmissionTypes
    <3> QED
        BY <1>0, <3>1, <3>2, EmitStartFailedFields, EmitFinishedFields
  <2>4. sig' = [sig EXCEPT ![p][s] = h]
    BY <1>4 DEF OnFailedToStart
  <2> QED
    BY <2>1, <2>2, <2>3, <2>4 DEF Alive, Listener!Finish
<1>5. ASSUME NEW p \in Projects, NEW s \in Slots, OnProcessFinished(p, s)
      PROVE  Listener!Finish(p, s)
  <2> DEFINE owed == inst[p][s].status = "starting" /\ ~inst[p][s].startFailedEmitted
             h == EmitFinished(IF owed THEN EmitStartFailed(sig[p][s]) ELSE sig[p][s])
  <2>1. Alive[p][s]
    BY <1>0, <1>5 DEF OnProcessFinished, IsLive
  <2>2. Alive' = [Alive EXCEPT ![p][s] = FALSE]
    BY <1>5, AliveStep, NewEntryTypes DEF IInv, OnProcessFinished, Erase, NoInstance
  <2>3. h = [started |-> sig[p][s].started,
             startFailed |-> IF sig[p][s].started = 0 THEN 1 ELSE sig[p][s].startFailed,
             finished |-> 1]
    <3>1. /\ sig[p][s].finished = 0
          /\ owed => sig[p][s].started = 0 /\ sig[p][s].startFailed = 0
          /\ ~owed => sig[p][s].started = 1 \/ sig[p][s].startFailed = 1
        BY <1>0, <1>5 DEF OnProcessFinished, IsLive, Instance, EntryInv, Reported
    <3>2. CASE owed
      <4>1. h = EmitFinished(EmitStartFailed(sig[p][s]))
          BY <3>2
      <4>2. EmitStartFailed(sig[p][s]) \in Signals
          BY <1>0, EmissionTypes
      <4> HIDE DEF h, owed
      <4> QED
          BY <1>0, <3>1, <3>2, <4>1, <4>2, EmitStartFailedFields, EmitFinishedFields
    <3>3. CASE ~owed
      <4>1. h = [started |-> sig[p][s].started, startFailed |-> sig[p][s].startFailed,
                 finished |-> sig[p][s].finished + 1]
          BY <1>0, <3>3, EmitFinishedFields
      <4>2. sig[p][s].started = 0 => sig[p][s].startFailed = 1
          BY <3>1, <3>3
      <4> QED
          BY <3>1, <4>1, <4>2
    <3> QED
        BY <3>2, <3>3
  <2>4. sig' = [sig EXCEPT ![p][s] = h]
    BY <1>5 DEF OnProcessFinished
  <2> QED
    BY <2>1, <2>2, <2>3, <2>4 DEF Alive, Listener!Finish
<1>6. ASSUME NEW p \in Projects, NEW s \in Slots,
             TerminateInstance(p, s) \/ OnRunTimeout(p, s)
      PROVE  UNCHANGED <<Alive, sig>>
  <2>1. /\ Kill(inst[p][s]).status = inst[p][s].status
        /\ WatchdogExpired(inst[p][s]).status = inst[p][s].status
    BY <1>0 DEF Kill, WatchdogExpired, Instance
  <2>2. Alive' = Alive
    BY <1>0, <1>6, <2>1, AliveKept, EntryTypes DEF IInv, TerminateInstance, OnRunTimeout
  <2> QED
    BY <1>6, <2>2 DEF TerminateInstance, OnRunTimeout
<1>7. ASSUME NEW P \in SUBSET Projects, TerminateByProject(P)
      PROVE  UNCHANGED <<Alive, sig>>
  <2>1. ASSUME NEW p \in Projects, NEW s \in Slots
        PROVE  IsLive(inst', p, s) <=> IsLive(inst, p, s)
    BY <1>0, <1>7 DEF TerminateByProject, KillProjects, Kill, IsLive, Instance
  <2> QED
    BY <1>7, <2>1, AliveSame DEF TerminateByProject
<1>8. CASE UNCHANGED vars
    BY <1>8 DEF vars, Alive, IsLive
<1> QED
    BY <1>1, <1>2, <1>3, <1>4, <1>5, <1>6, <1>7, <1>8
       DEF Next, ProcessEvent, TimerEvent, Listener!Next

(***************************************************************************)
(* InstanceManager implements InstanceSignals: those who listen to the     *)
(* signals see one outcome of each start and then one end, unless an exec  *)
(* failure is delivered after the start timer.                             *)
(***************************************************************************)
THEOREM SignalProtocol ==
    ASSUME ~LateExecFailure
    PROVE  Spec => FollowsSignalProtocol
<1>1. Init => Listener!Init
  <2> SUFFICES ASSUME Init PROVE Listener!Init
    OBVIOUS
  <2>1. \A p \in Projects, s \in Slots : IsLive(inst, p, s) = FALSE
    BY DEF Init, EmptyTable, NoInstance, IsLive
  <2>2. sig = [p \in Projects |-> [s \in Slots |-> Listener!NoSignals]]
    BY DEF Init, NoSignals, Listener!NoSignals
  <2> QED
    BY <2>1, <2>2 DEF Listener!Init
<1>2. IInv /\ [Next]_vars => [Listener!Next]_<<Alive, sig>>
    BY ProtocolStep
<1> QED
    BY <1>1, <1>2, Invariance, PTL
       DEF Spec, FollowsSignalProtocol, Listener!Spec, Alive
=============================================================================
