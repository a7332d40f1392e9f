----------------------- MODULE SaveTransaction_proofs -----------------------
(***************************************************************************)
(* Proofs about SaveTransaction, for any number of saves.                  *)
(***************************************************************************)
EXTENDS SaveTransaction, TLAPS

(***************************************************************************)
(* Where a file is in the course of a save: not yet reached, moved to its  *)
(* backup (or there was none to move), or replaced by the new version.     *)
(***************************************************************************)
Untouched(f) ==
    /\ final[f] = before[f]
    /\ backup[f] = Absent
    /\ ~moved[f]
    /\ ~installed[f]
BackedUp(f) ==
    /\ backup[f] = before[f]
    /\ moved[f] <=> before[f] # Absent
Away(f) == BackedUp(f) /\ final[f] = Absent /\ ~installed[f]
Replaced(f) == BackedUp(f) /\ final[f] = version /\ installed[f]

(* A file that the rollback has not reached yet. *)
Pending(f) == Untouched(f) \/ Away(f) \/ (f = "config" /\ Replaced(f))

(* The file whose backup is about to be moved back, removed or not before. *)
Unwound(f) == Pending(f) \/ (f = "config" /\ BackedUp(f) /\ final[f] = Absent)

(***************************************************************************)
(* A file that the rollback has dealt with: it is back, the failure is     *)
(* recorded, or it is a config.json that did not exist before.             *)
(***************************************************************************)
Recoverable(f) == before[f] \in {Absent, final[f], backup[f]}
Settled(f) ==
    /\ Recoverable(f)
    /\ final[f] = before[f] \/ broken \/ (f = "config" /\ before[f] = Absent)

(* Each loop of saveProject and of its rollback, by the entry it has come to. *)
LoopInv ==
    /\ pc = "backup" =>
          /\ Untouched("param")
          /\ IF at = "config" THEN Untouched("config") ELSE Away("config")
    /\ pc = "install" =>
          /\ Away("param")
          /\ IF at = "config" THEN Away("config") ELSE Replaced("config")
    /\ pc = "clean" => \A f \in Files : final[f] = version
    /\ pc = "undo" /\ at = "param" => Pending("param") /\ Pending("config")
    /\ pc = "restore" /\ at = "param" => Unwound("param") /\ Pending("config")
    /\ pc = "undo" /\ at = "config" => Settled("param") /\ Pending("config")
    /\ pc = "restore" /\ at = "config" => Settled("param") /\ Unwound("config")

(* The parts of TypeOK: contents, flags, control. *)
TypeContents ==
    /\ final \in [Files -> 0..MaxVersion]
    /\ backup \in [Files -> 0..MaxVersion]
    /\ before \in [Files -> 0..MaxVersion]
    /\ version \in 1..MaxVersion
TypeFlags ==
    /\ moved \in [Files -> BOOLEAN]
    /\ installed \in [Files -> BOOLEAN]
    /\ broken \in BOOLEAN
TypeControl ==
    /\ pc \in Loops \cup {"idle"}
    /\ at \in Files
    /\ result \in {"none", "saving", "saved", "failed", "rollback_failed", "crashed",
                   "crashed_undoing", "removed", "not_removed"}

IInv ==
    /\ TypeOK
    /\ LoopInv
    /\ pc \in Loops <=> result = "saving"
    /\ NothingLost
    /\ ReturnTellsStorage
    /\ NeverMixed

-----------------------------------------------------------------------------
(* The initial state: nothing has been saved. *)
LEMMA InitIInv == Init => IInv
<1> SUFFICES ASSUME Init PROVE IInv
    OBVIOUS
<1> USE DEF Init, Files, Absent, NoFile, None, Loops
<1>1. TypeContents
    BY MaxVersionAssumption DEF TypeContents
<1>2. TypeFlags
    BY DEF TypeFlags
<1>3. TypeControl
    BY DEF TypeControl
<1>4. LoopInv /\ (pc \in Loops <=> result = "saving")
    BY DEF LoopInv
<1>5. NothingLost /\ ReturnTellsStorage /\ NeverMixed
    BY DEF NothingLost, ReturnTellsStorage, NeverMixed, Mixed
<1> QED
    BY <1>1, <1>2, <1>3, <1>4, <1>5
       DEF IInv, TypeOK, TypeContents, TypeFlags, TypeControl

(* The invariant is kept when the temporary files are written, or that fails. *)
LEMMA BeginSaveIInv ==
    ASSUME IInv, NEW ok \in BOOLEAN, BeginSave(ok)
    PROVE  IInv'
<1> USE DEF IInv, TypeOK, BeginSave, Files, Absent, NoFile, None, Loops
<1>1. TypeContents'
    BY MaxVersionAssumption DEF TypeContents
<1>2. TypeFlags'
    BY DEF TypeFlags
<1>3. TypeControl'
    BY DEF TypeControl
<1>4. LoopInv' /\ (pc \in Loops <=> result = "saving")'
    BY DEF LoopInv, Untouched
<1>5. NothingLost'
    BY DEF NothingLost, LoopInv, Untouched
<1>6. ReturnTellsStorage'
    BY DEF ReturnTellsStorage, LoopInv, Untouched
<1>7. NeverMixed'
    BY DEF NeverMixed, Mixed, LoopInv, Untouched
<1> QED
    BY <1>1, <1>2, <1>3, <1>4, <1>5, <1>6, <1>7 DEF TypeContents, TypeFlags, TypeControl

(* The invariant is kept when a file is moved to its backup, or the rollback begins. *)
LEMMA BackupFileIInv ==
    ASSUME IInv, NEW ok \in BOOLEAN, BackupFile(ok)
    PROVE  IInv'
<1> USE DEF IInv, TypeOK, BackupFile, Files, Absent, Loops, Undoing, Advance,
            BeginRollback
<1>1. TypeContents'
    BY MaxVersionAssumption DEF TypeContents
<1>2. TypeFlags'
    BY DEF TypeFlags
<1>3. TypeControl'
    BY DEF TypeControl
<1>4. LoopInv' /\ (pc \in Loops <=> result = "saving")'
    BY DEF LoopInv, Untouched, BackedUp, Away, Replaced, Pending
<1>5. NothingLost'
    BY DEF NothingLost, LoopInv, Untouched, BackedUp, Away, Replaced, Pending
<1>6. ReturnTellsStorage'
    BY DEF ReturnTellsStorage, LoopInv, Untouched, BackedUp, Away, Replaced, Pending
<1>7. NeverMixed'
    BY DEF NeverMixed, Mixed, LoopInv, Untouched, BackedUp, Away, Replaced, Pending
<1> QED
    BY <1>1, <1>2, <1>3, <1>4, <1>5, <1>6, <1>7 DEF TypeContents, TypeFlags, TypeControl

(* The invariant is kept when a new file is put in its place, or the rollback begins. *)
LEMMA InstallFileIInv ==
    ASSUME IInv, NEW ok \in BOOLEAN, InstallFile(ok)
    PROVE  IInv'
<1> USE DEF IInv, TypeOK, InstallFile, Files, Absent, Loops, Undoing, Advance,
            BeginRollback
<1>1. TypeContents'
    BY MaxVersionAssumption DEF TypeContents
<1>2. TypeFlags'
    BY DEF TypeFlags
<1>3. TypeControl'
    BY DEF TypeControl
<1>4. LoopInv' /\ (pc \in Loops <=> result = "saving")'
    BY DEF LoopInv, Untouched, BackedUp, Away, Replaced, Pending
<1>5. NothingLost'
    BY DEF NothingLost, LoopInv, Untouched, BackedUp, Away, Replaced, Pending
<1>6. ReturnTellsStorage'
    BY DEF ReturnTellsStorage, LoopInv, Untouched, BackedUp, Away, Replaced, Pending
<1>7. NeverMixed'
    BY DEF NeverMixed, Mixed, LoopInv, Untouched, BackedUp, Away, Replaced, Pending
<1> QED
    BY <1>1, <1>2, <1>3, <1>4, <1>5, <1>6, <1>7 DEF TypeContents, TypeFlags, TypeControl

(* The invariant is kept when a backup is removed or left behind. *)
LEMMA CleanBackupIInv ==
    ASSUME IInv, NEW ok \in BOOLEAN, CleanBackup(ok)
    PROVE  IInv'
<1> USE DEF IInv, TypeOK, CleanBackup, Files, Absent, Loops, Undoing, Advance
<1>1. TypeContents'
    BY MaxVersionAssumption DEF TypeContents
<1>2. TypeFlags'
    BY DEF TypeFlags
<1>3. TypeControl'
    BY DEF TypeControl
<1>4. LoopInv' /\ (pc \in Loops <=> result = "saving")'
    BY DEF LoopInv
<1>5. NothingLost'
    BY DEF NothingLost, LoopInv
<1>6. ReturnTellsStorage'
    BY DEF ReturnTellsStorage, LoopInv
<1>7. NeverMixed'
    BY DEF NeverMixed, Mixed, LoopInv
<1> QED
    BY <1>1, <1>2, <1>3, <1>4, <1>5, <1>6, <1>7 DEF TypeContents, TypeFlags, TypeControl

(* The invariant is kept when the rollback removes an installed file. *)
LEMMA UndoInstallIInv ==
    ASSUME IInv, NEW ok \in BOOLEAN, UndoInstall(ok)
    PROVE  IInv'
<1> USE DEF IInv, TypeOK, UndoInstall, Files, Absent, Loops, Undoing
<1>1. TypeContents'
    BY MaxVersionAssumption DEF TypeContents
<1>2. TypeFlags'
    BY DEF TypeFlags
<1>3. TypeControl'
    BY DEF TypeControl
<1>4. LoopInv' /\ (pc \in Loops <=> result = "saving")'
    BY DEF LoopInv, Untouched, BackedUp, Away, Replaced, Pending, Unwound, Recoverable,
           Settled
<1>5. NothingLost'
    BY DEF NothingLost, LoopInv, Untouched, BackedUp, Away, Replaced, Pending, Unwound,
           Recoverable, Settled
<1>6. ReturnTellsStorage'
    BY DEF ReturnTellsStorage, LoopInv, Untouched, BackedUp, Away, Replaced, Pending,
           Unwound, Recoverable, Settled
<1>7. NeverMixed'
    BY DEF NeverMixed, Mixed, LoopInv, Untouched, BackedUp, Away, Replaced, Pending,
           Unwound, Recoverable, Settled
<1> QED
    BY <1>1, <1>2, <1>3, <1>4, <1>5, <1>6, <1>7 DEF TypeContents, TypeFlags, TypeControl

(* The invariant is kept when the rollback moves a backup to its place. *)
LEMMA RestoreBackupIInv ==
    ASSUME IInv, NEW ok \in BOOLEAN, RestoreBackup(ok)
    PROVE  IInv'
<1> USE DEF IInv, TypeOK, RestoreBackup, Files, Absent, Loops, Undoing
<1>1. TypeContents'
    BY MaxVersionAssumption DEF TypeContents
<1>2. TypeFlags'
    BY DEF TypeFlags
<1>3. TypeControl'
    BY DEF TypeControl
<1>4. LoopInv' /\ (pc \in Loops <=> result = "saving")'
    BY DEF LoopInv, Untouched, BackedUp, Away, Replaced, Pending, Unwound, Recoverable,
           Settled
<1>5. NothingLost'
    BY DEF NothingLost, LoopInv, Untouched, BackedUp, Away, Replaced, Pending, Unwound,
           Recoverable, Settled
<1>6. ReturnTellsStorage'
    BY DEF ReturnTellsStorage, LoopInv, Untouched, BackedUp, Away, Replaced, Pending,
           Unwound, Recoverable, Settled
<1>7. NeverMixed'
    BY DEF NeverMixed, Mixed, LoopInv, Untouched, BackedUp, Away, Replaced, Pending,
           Unwound, Recoverable, Settled
<1> QED
    BY <1>1, <1>2, <1>3, <1>4, <1>5, <1>6, <1>7 DEF TypeContents, TypeFlags, TypeControl

(* The invariant is kept when the server is killed. *)
LEMMA CrashIInv ==
    ASSUME IInv, Crash
    PROVE  IInv'
<1> USE DEF IInv, TypeOK, Crash, Files, Absent, Loops, Undoing
<1>1. TypeContents'
    BY MaxVersionAssumption DEF TypeContents
<1>2. TypeFlags'
    BY DEF TypeFlags
<1>3. TypeControl'
    BY DEF TypeControl
<1>4. LoopInv' /\ (pc \in Loops <=> result = "saving")'
    BY DEF LoopInv, Untouched, BackedUp, Away, Replaced, Pending, Unwound, Recoverable,
           Settled
<1>5. NothingLost'
    BY DEF NothingLost, LoopInv, Untouched, BackedUp, Away, Replaced, Pending, Unwound,
           Recoverable, Settled
<1>6. ReturnTellsStorage'
    BY DEF ReturnTellsStorage, LoopInv, Untouched, BackedUp, Away, Replaced, Pending,
           Unwound, Recoverable, Settled
<1>7. NeverMixed'
    BY DEF NeverMixed, Mixed, LoopInv, Untouched, BackedUp, Away, Replaced, Pending,
           Unwound, Recoverable, Settled
<1> QED
    BY <1>1, <1>2, <1>3, <1>4, <1>5, <1>6, <1>7 DEF TypeContents, TypeFlags, TypeControl

(* The invariant is kept when the project is removed, or what can be of it. *)
LEMMA RemoveProjectIInv ==
    ASSUME IInv, NEW left \in SUBSET Files, RemoveProject(left)
    PROVE  IInv'
<1> USE DEF IInv, TypeOK, RemoveProject, Files, Absent, NoFile, Loops, Undoing
<1>1. TypeContents'
    BY MaxVersionAssumption DEF TypeContents
<1>2. TypeFlags'
    BY DEF TypeFlags
<1>3. TypeControl'
    BY DEF TypeControl
<1>4. LoopInv' /\ (pc \in Loops <=> result = "saving")'
    BY DEF LoopInv
<1>5. NothingLost'
    BY DEF NothingLost, LoopInv
<1>6. ReturnTellsStorage'
    BY DEF ReturnTellsStorage, LoopInv
<1>7. NeverMixed'
    BY DEF NeverMixed, Mixed, LoopInv
<1> QED
    BY <1>1, <1>2, <1>3, <1>4, <1>5, <1>6, <1>7 DEF TypeContents, TypeFlags, TypeControl

(* A step that changes nothing keeps the invariant. *)
LEMMA StutterIInv ==
    ASSUME IInv, UNCHANGED vars
    PROVE  IInv'
<1> USE DEF vars, IInv
<1>1. TypeOK'
    BY DEF TypeOK
<1>2. LoopInv'
    BY DEF LoopInv, Untouched, BackedUp, Away, Replaced, Pending, Unwound, Recoverable,
           Settled
<1>3. NothingLost' /\ ReturnTellsStorage' /\ NeverMixed'
    BY DEF NothingLost, ReturnTellsStorage, NeverMixed, Mixed, Undoing
<1> QED
    BY <1>1, <1>2, <1>3

(* IInv is an invariant. *)
LEMMA Invariance == Spec => []IInv
<1>1. IInv /\ [Next]_vars => IInv'
    BY BeginSaveIInv, BackupFileIInv, InstallFileIInv, CleanBackupIInv, UndoInstallIInv,
       RestoreBackupIInv, CrashIInv, RemoveProjectIInv, StutterIInv DEF Next
<1> QED
    BY <1>1, InitIInv, PTL DEF Spec

-----------------------------------------------------------------------------
(* The types of SaveTransaction hold in every run. *)
THEOREM TypeCorrect == Spec => []TypeOK
<1>1. IInv => TypeOK
    BY DEF IInv
<1> QED
    BY <1>1, Invariance, PTL

(***************************************************************************)
(* However many projects are saved, operations fail and servers are        *)
(* killed: the disk holds the new project or all that the old one had.     *)
(***************************************************************************)
THEOREM SaveLosesNothing == Spec => []NothingLost
<1>1. IInv => NothingLost
    BY DEF IInv
<1> QED
    BY <1>1, Invariance, PTL

(***************************************************************************)
(* What saveProject returns is what the disk holds, with the rollback of a *)
(* failed save taken into account.                                         *)
(***************************************************************************)
THEOREM SaveReturnsTruth == Spec => []ReturnTellsStorage
<1>1. IInv => ReturnTellsStorage
    BY DEF IInv
<1> QED
    BY <1>1, Invariance, PTL

(***************************************************************************)
(* config.json and param.json of an existing project come from one save,   *)
(* unless a rollback was interrupted or reported to have failed.           *)
(***************************************************************************)
THEOREM FilesBelongTogether == Spec => []NeverMixed
<1>1. IInv => NeverMixed
    BY DEF IInv
<1> QED
    BY <1>1, Invariance, PTL
=============================================================================
