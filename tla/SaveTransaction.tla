-------------------------- MODULE SaveTransaction --------------------------
(***************************************************************************)
(* ProjectManager::saveProject and removeProject                           *)
(* (manager/project_manager.cpp) on the two files of one project, one      *)
(* action per operation of the file system.  Any operation may fail, and   *)
(* the server may be killed between any two of them (a power failure, which *)
(* may also undo operations, is not modelled); it then starts again and    *)
(* more projects are saved.                                                *)
(*                                                                         *)
(* The content of a file is the number of the save that wrote it.          *)
(* Temporary files and directories left behind are never read and are left *)
(* out; the suffix of backups is fresh for each save, so only the backups  *)
(* of the last one matter.  QFile::rename (external) is atomic and refuses *)
(* to replace a file.                                                      *)
(***************************************************************************)
EXTENDS Naturals

CONSTANT MaxVersion  \* bound: the number of the last save

ASSUME MaxVersionAssumption == MaxVersion \in Nat \ {0}

VARIABLES
    final,      \* config.json and param.json
    backup,     \* <file>.bak.<uuid> of the last save
    moved,      \* SaveTransactionEntry::movedToBackup
    installed,  \* SaveTransactionEntry::installed
    pc,         \* the loop of saveProject or rollbackSaveTransaction it is in
    at,         \* the entry this loop has come to
    broken,     \* rollbackError is not empty
    version,    \* what the last save writes
    before,     \* history: the files before the last save or removal
    result      \* history: how that ended

vars == <<final, backup, moved, installed, pc, at, broken, version, before, result>>

Files == {"config", "param"}
Absent == 0
NoFile == [f \in Files |-> Absent]
None == [f \in Files |-> FALSE]

Loops == {"backup", "install", "clean", "undo", "restore"}
Undoing == pc \in {"undo", "restore"}

TypeOK ==
    /\ final \in [Files -> 0..MaxVersion]
    /\ backup \in [Files -> 0..MaxVersion]
    /\ moved \in [Files -> BOOLEAN]
    /\ installed \in [Files -> BOOLEAN]
    /\ pc \in Loops \cup {"idle"}
    /\ at \in Files
    /\ broken \in BOOLEAN
    /\ version \in 1..MaxVersion
    /\ before \in [Files -> 0..MaxVersion]
    /\ result \in {"none", "saving", "saved", "failed", "rollback_failed", "crashed",
                   "crashed_undoing", "removed", "not_removed"}

(* No project, a whole one, or one without param.json, which is legal. *)
Init ==
    /\ final \in {NoFile, [f \in Files |-> 1], [NoFile EXCEPT !["config"] = 1]}
    /\ backup = NoFile
    /\ moved = None
    /\ installed = None
    /\ pc = "idle"
    /\ at = "config"
    /\ broken = FALSE
    /\ version = 1
    /\ before = final
    /\ result = "none"

-----------------------------------------------------------------------------
(***************************************************************************)
(* saveProject up to its first rename: the temporary files are written.    *)
(* If that fails they are removed, and config.json and param.json have not *)
(* been touched.                                                           *)
(***************************************************************************)
BeginSave(ok) ==
    /\ pc = "idle"
    /\ version < MaxVersion
    /\ version' = version + 1
    /\ before' = final
    /\ backup' = NoFile
    /\ moved' = None
    /\ installed' = None
    /\ broken' = FALSE
    /\ at' = "config"
    /\ pc' = IF ok THEN "backup" ELSE "idle"
    /\ result' = IF ok THEN "saving" ELSE "failed"
    /\ UNCHANGED final

\* Mutant: the index is not reset for the next loop.
AdvancePastEnd(next) ==
    IF at = "config" THEN at' = "param" /\ pc' = pc
                     ELSE at' = "past_end" /\ pc' = next

(* The loop has dealt with entry at, and comes to the other one or ends. *)
Advance(next) ==
    IF at = "config" THEN at' = "param" /\ pc' = pc
                     ELSE at' = "config" /\ pc' = next

(* An operation failed: rollbackSaveTransaction, from the last entry on. *)
BeginRollback ==
    /\ pc' = "undo"
    /\ at' = "param"

\* Mutant: only config.json is backed up.
BackupFileConfigOnly(ok) ==
    /\ pc = "backup"
    /\ ok
    /\ backup' = [backup EXCEPT !["config"] = final["config"]]
    /\ final' = [final EXCEPT !["config"] = Absent]
    /\ moved' = [moved EXCEPT !["config"] = final["config"] # Absent]
    /\ pc' = "install"
    /\ UNCHANGED <<installed, at, broken, version, before, result>>

BackupFile(ok) ==
    /\ pc = "backup"
    /\ \/ /\ final[at] = Absent
          /\ ok
          /\ Advance("install")
          /\ UNCHANGED <<final, backup, moved>>
       \/ /\ final[at] # Absent
          /\ ok
          /\ backup' = [backup EXCEPT ![at] = final[at]]
          /\ final' = [final EXCEPT ![at] = Absent]
          /\ moved' = [moved EXCEPT ![at] = TRUE]
          /\ Advance("install")
       \/ /\ final[at] # Absent
          /\ ~ok
          /\ BeginRollback
          /\ UNCHANGED <<final, backup, moved>>
    /\ UNCHANGED <<installed, broken, version, before, result>>

\* Mutant: the backup goes as soon as its own file is installed.
InstallFileDropsBackup(ok) ==
    /\ pc = "install"
    /\ \/ /\ ok
          /\ final' = [final EXCEPT ![at] = version]
          /\ backup' = [backup EXCEPT ![at] = Absent]
          /\ installed' = [installed EXCEPT ![at] = TRUE]
          /\ Advance("clean")
       \/ /\ ~ok
          /\ BeginRollback
          /\ UNCHANGED <<final, backup, installed>>
    /\ UNCHANGED <<moved, broken, version, before, result>>

InstallFile(ok) ==
    /\ pc = "install"
    /\ \/ /\ ok
          /\ final[at] = Absent
          /\ final' = [final EXCEPT ![at] = version]
          /\ installed' = [installed EXCEPT ![at] = TRUE]
          /\ Advance("clean")
       \/ /\ ~ok
          /\ BeginRollback
          /\ UNCHANGED <<final, installed>>
    /\ UNCHANGED <<backup, moved, broken, version, before, result>>

(* Backups are removed; one that cannot be is only logged. *)
CleanBackup(ok) ==
    /\ pc = "clean"
    /\ backup' = IF ok /\ moved[at] THEN [backup EXCEPT ![at] = Absent] ELSE backup
    /\ Advance("idle")
    /\ result' = IF at = "param" THEN "saved" ELSE result
    /\ UNCHANGED <<final, moved, installed, broken, version, before>>

(* rollbackSaveTransaction: an installed file is removed, if that succeeds. *)
UndoInstall(ok) ==
    /\ pc = "undo"
    /\ final' = IF ok /\ installed[at] THEN [final EXCEPT ![at] = Absent] ELSE final
    /\ pc' = "restore"
    /\ UNCHANGED <<backup, moved, installed, at, broken, version, before, result>>

\* Mutant: a rename that fails is not reported.
RestoreBackupSilent(ok) ==
    /\ pc = "restore"
    /\ LET done == ok /\ moved[at] /\ final[at] = Absent
       IN  /\ final' = IF done THEN [final EXCEPT ![at] = backup[at]] ELSE final
           /\ backup' = IF done THEN [backup EXCEPT ![at] = Absent] ELSE backup
    /\ \/ /\ at = "param"
          /\ at' = "config" /\ pc' = "undo"
          /\ UNCHANGED result
       \/ /\ at = "config"
          /\ pc' = "idle"
          /\ result' = "failed"
          /\ UNCHANGED at
    /\ UNCHANGED <<moved, installed, broken, version, before>>

(* ... and the backup is moved back, which fails if the file is still there. *)
RestoreBackup(ok) ==
    LET done == ok /\ moved[at] /\ final[at] = Absent
    IN  /\ pc = "restore"
        /\ final' = IF done THEN [final EXCEPT ![at] = backup[at]] ELSE final
        /\ backup' = IF done THEN [backup EXCEPT ![at] = Absent] ELSE backup
        /\ broken' = (broken \/ (moved[at] /\ ~done))
        /\ \/ /\ at = "param"
              /\ at' = "config"
              /\ pc' = "undo"
              /\ UNCHANGED result
           \/ /\ at = "config"
              /\ pc' = "idle"
              /\ result' = IF broken' THEN "rollback_failed" ELSE "failed"
              /\ UNCHANGED at
        /\ UNCHANGED <<moved, installed, version, before>>

(* The server is killed: the disk stays as it is. *)
Crash ==
    /\ pc # "idle"
    /\ pc' = "idle"
    /\ result' = IF Undoing THEN "crashed_undoing" ELSE "crashed"
    /\ UNCHANGED <<final, backup, moved, installed, at, broken, version, before>>

(* removeProject: removeRecursively removes what it can, backups included. *)
RemoveProject(left) ==
    /\ pc = "idle"
    /\ final' = [f \in Files |-> IF f \in left THEN final[f] ELSE Absent]
    /\ backup' = NoFile
    /\ before' = final'
    /\ result' = IF final' = NoFile THEN "removed" ELSE "not_removed"
    /\ UNCHANGED <<moved, installed, pc, at, broken, version>>

Next ==
    \/ \E ok \in BOOLEAN :
          \/ BeginSave(ok)
          \/ BackupFile(ok)
          \/ InstallFile(ok)
          \/ CleanBackup(ok)
          \/ UndoInstall(ok)
          \/ RestoreBackup(ok)
    \/ Crash
    \/ \E left \in SUBSET Files : RemoveProject(left)

Spec == Init /\ [][Next]_vars

-----------------------------------------------------------------------------
\* What loadOne would take for a project: param.json may be missing, not config.json.
Mixed(files) == files["config"] # Absent /\ files["param"] \notin {Absent, files["config"]}

(***************************************************************************)
(* Whenever the server is killed, and whichever operations fail, the disk  *)
(* holds the whole of the new project or everything the old one had, in    *)
(* place or in a backup: backups are removed only once both files are in.  *)
(***************************************************************************)
NothingLost ==
    \/ \A f \in Files : final[f] = version
    \/ \A f \in Files : before[f] \in {Absent, final[f], backup[f]}

(***************************************************************************)
(* What saveProject returns is true of the disk: after success both files  *)
(* are the new ones, and after a failure that does not mention a failed    *)
(* rollback an existing project is as it was ("saveProject failure         *)
(* preserves old file", tests/test_project_manager.cpp:268).  ServerControl *)
(* relies on this: there a save is one step or none.                       *)
(***************************************************************************)
ReturnTellsStorage ==
    /\ result = "saved" => \A f \in Files : final[f] = version
    /\ result = "failed" /\ before["config"] # Absent => final = before

(***************************************************************************)
(* An existing project is never found with the configuration of one save   *)
(* and the parameters of another, except where a rollback is under way,    *)
(* was cut off by a crash or was reported to have failed: param.json is    *)
(* restored there before config.json.                                      *)
(***************************************************************************)
NeverMixed ==
    before["config"] # Absent /\ Mixed(final) =>
        \/ Mixed(before)
        \/ Undoing
        \/ result \in {"crashed_undoing", "rollback_failed"}
=============================================================================
