---------------------------- MODULE UninstallProofs ----------------------------
(***************************************************************************)
(* An uninstall loses nothing before its commit, is final after it, and    *)
(* leaves all or nothing behind when it is over, for any number of paths   *)
(* and whatever fails or dies.                                             *)
(***************************************************************************)
EXTENDS UninstallProperties, TLAPS

Undecided == removal # NoRemoval /\ ~removal.committed
Decided == removal # NoRemoval /\ removal.committed

\* Which journal is there at which place of the operation.
PhaseInv ==
    /\ task.pc \in RenamePC \cup RestoringPC => Undecided
    /\ task.pc \in FinalizePC => Decided
    /\ task.pc \in {"preflight", "install"} => removal = NoRemoval
    /\ task.pc = "recoverInstall" /\ task.kind = "uninstall" => removal = NoRemoval

\* What has been renamed when todo is left to rename.
ApplyInv ==
    /\ task.pc \in {"rename", "replace"} =>
          /\ task.todo \subseteq removal.entries
          /\ \A e \in removal.entries \ task.todo : at[e] # "original"
    /\ task.pc = "rename" => \A e \in task.todo : at[e] = "original"
    /\ task.pc = "replace" => \A e \in task.todo : at[e] = "original" <=> ~FirstEntry(e)
    /\ task.pc = "commit" => \A e \in removal.entries : at[e] # "original"

\* What is back when todo is left to restore.
RestoreInv ==
    /\ task.pc \in {"restore", "putBack"} =>
          /\ task.todo \subseteq removal.entries
          /\ \A e \in removal.entries \ task.todo : at[e] = "original"
    /\ task.pc = "putBack" => \A e \in task.todo : Last(e) => e \in backup /\ at[e] = "none"
    /\ task.pc = "restored" => \A e \in removal.entries : at[e] = "original"

\* What is gone when todo is left to discard.
FinalizeInv ==
    /\ Decided => \A e \in removal.entries : at[e] # "original"
    /\ task.pc \in {"discard", "purge", "forget"} => ~installed
    /\ task.pc = "discard" => backup \subseteq task.todo
    /\ task.pc \in {"purge", "forget"} => backup = {}
    /\ task.pc = "forget" => (removal.purge => ~sessions)

\* Only what the journal lists has a backup.
BackupInv == removal # NoRemoval => backup \subseteq removal.entries

Inv ==
    /\ UninstallTypeOK /\ PhaseInv /\ ApplyInv /\ RestoreInv /\ FinalizeInv /\ BackupInv
    /\ NothingLost /\ AllOrNothing

\* The end of a list that is worked off is one path.
LEMMA OneEnd ==
    ASSUME UninstallTypeOK, NEW d \in Entry, NEW e \in Entry
    PROVE  (FirstEntry(d) /\ FirstEntry(e) => d = e) /\ (Last(d) /\ Last(e) => d = e)
BY EntriesAssumption DEF Entry, FirstEntry, Last, UninstallTypeOK, Task

\* A journal that is written lists what must be listed.
LEMMA PreparedValid ==
    ASSUME UninstallTypeOK, CanPrepare, NEW purge \in BOOLEAN
    PROVE  Prepared(purge) \in Removal /\ ValidJournal(Prepared(purge))
BY KindsAssumption DEF UninstallTypeOK, CanPrepare, Prepared, Removal, ValidJournal, Required

\* It is not committed and lists untouched paths only.
LEMMA PreparedFacts ==
    ASSUME UninstallTypeOK, CanPrepare, removal' = Prepared(task.purge)
    PROVE  /\ removal' # NoRemoval /\ ~removal'.committed
           /\ removal'.entries \subseteq Entry
           /\ \A e \in removal'.entries : at[e] = "original"
<1>1. task.purge \in BOOLEAN
  BY DEF UninstallTypeOK, Task
<1>2. removal' \in Removal
  BY <1>1, PreparedValid
<1> QED
  BY <1>2, NoRemovalAssumption DEF Prepared

\* Every step keeps the types,
LEMMA TypeStep == UninstallTypeOK /\ PhaseInv /\ [UninstallNext]_uninstallVars => UninstallTypeOK'
<1> SUFFICES ASSUME UninstallTypeOK, PhaseInv, [UninstallNext]_uninstallVars PROVE UninstallTypeOK'
  OBVIOUS
<1> USE NoRemovalAssumption
    DEF UninstallTypeOK, ValidJournal, Removal, Task, TaskPC, RenamePC, RestoringPC, FinalizePC
<1> USE DEF PhaseInv, Undecided, Decided, uninstallDisk, Proceed, ProceedWith, EndTask, AfterLoad
<1>1. CASE TaskStarted
  <2>1. PICK kind \in {"install", "uninstall"}, purge \in BOOLEAN : BeginTask(kind, purge)
    BY <1>1 DEF TaskStarted
  <2>2. task' \in Task
    BY <2>1 DEF BeginTask
  <2> QED
    BY <2>1, <2>2 DEF BeginTask
<1>2. CASE RecoverInstall
  BY <1>2 DEF RecoverInstall
<1>3. CASE LoadNothing
  BY <1>3 DEF LoadNothing
<1>4. CASE LoadUncommitted
  BY <1>4 DEF LoadUncommitted
<1>5. CASE LoadCommitted
  BY <1>5 DEF LoadCommitted
<1>6. CASE Prepare
  BY <1>6, PreparedValid DEF Prepare
<1>7. CASE PrepareFails
  BY <1>7, PreparedValid DEF PrepareFails
<1>8. CASE RefuseTask
  BY <1>8 DEF RefuseTask
<1>9. ASSUME NEW e \in Entry, Rename(e) PROVE UninstallTypeOK'
  <2>1. at' \in [Entry -> {"none", "original", "replaced"}] /\ backup' \in SUBSET Entry
    BY <1>9 DEF Rename
  <2>2. task' \in Task
    <3>1. CASE e \in Shell
      BY <1>9, <3>1 DEF Rename
    <3>2. CASE e \notin Shell
      <4>1. task' = [task EXCEPT !.pc = "rename", !.todo = task.todo \ {e}]
        BY <1>9, <3>2 DEF Rename
      <4> QED
        BY <4>1
    <3> QED
      BY <3>1, <3>2
  <2> QED
    BY <1>9, <2>1, <2>2 DEF Rename
<1>10. ASSUME NEW e \in Entry, Replace(e) PROVE UninstallTypeOK'
  BY <1>10 DEF Replace, FirstEntry
<1>11. CASE Applied
  BY <1>11 DEF Applied
<1>12. CASE CommitRemoval
  BY <1>12 DEF CommitRemoval
<1>13. CASE CommitUnknown
  BY <1>13 DEF CommitUnknown
<1>14. CASE FailRemoval
  BY <1>14 DEF FailRemoval
<1>15. ASSUME NEW e \in Entry, AlreadyBack(e) PROVE UninstallTypeOK'
  BY <1>15 DEF AlreadyBack
<1>16. ASSUME NEW e \in Entry, RemoveReplacement(e) PROVE UninstallTypeOK'
  BY <1>16 DEF RemoveReplacement
<1>17. ASSUME NEW e \in Entry, PutBack(e) PROVE UninstallTypeOK'
  BY <1>17 DEF PutBack
<1>18. CASE AllBack
  BY <1>18 DEF AllBack
<1>19. CASE Restored
  BY <1>19 DEF Restored
<1>20. CASE RemoveLedger
  BY <1>20 DEF RemoveLedger
<1>21. ASSUME NEW e \in Entry, Discard(e) PROVE UninstallTypeOK'
  BY <1>21 DEF Discard
<1>22. CASE Discarded
  BY <1>22 DEF Discarded
<1>23. CASE CannotPurge
  BY <1>23 DEF CannotPurge
<1>24. CASE Purge
  BY <1>24 DEF Purge
<1>25. CASE Forget
  BY <1>25 DEF Forget
<1>26. CASE Install
  BY <1>26 DEF Install
<1>27. CASE StopTask
  BY <1>27 DEF StopTask
<1>28. CASE UNCHANGED uninstallVars
  BY <1>28 DEF uninstallVars
<1> QED
  BY <1>1, <1>2, <1>3, <1>4, <1>5, <1>6, <1>7, <1>8, <1>9, <1>10, <1>11, <1>12, <1>13, <1>14, <1>15, <1>16, <1>17, <1>18, <1>19, <1>20, <1>21, <1>22, <1>23, <1>24, <1>25, <1>26, <1>27, <1>28
  DEF UninstallNext, Work, RemovalFailure

\* the journal of each place,
LEMMA PhaseStep == UninstallTypeOK /\ PhaseInv /\ [UninstallNext]_uninstallVars => PhaseInv'
<1> SUFFICES ASSUME UninstallTypeOK, PhaseInv, [UninstallNext]_uninstallVars PROVE PhaseInv'
  OBVIOUS
<1> USE NoRemovalAssumption
    DEF UninstallTypeOK, Task, Removal, TaskPC, RenamePC, RestoringPC, FinalizePC
<1> USE DEF PhaseInv, Undecided, Decided, uninstallDisk, Proceed, ProceedWith, EndTask, AfterLoad
<1>1. CASE TaskStarted
  BY <1>1 DEF TaskStarted, BeginTask
<1>2. CASE RecoverInstall
  BY <1>2 DEF RecoverInstall
<1>3. CASE LoadNothing
  BY <1>3 DEF LoadNothing
<1>4. CASE LoadUncommitted
  BY <1>4 DEF LoadUncommitted
<1>5. CASE LoadCommitted
  BY <1>5 DEF LoadCommitted
<1>6. CASE Prepare
  BY <1>6, PreparedFacts DEF Prepare
<1>7. CASE PrepareFails
  BY <1>7 DEF PrepareFails
<1>8. CASE RefuseTask
  BY <1>8 DEF RefuseTask
<1>9. ASSUME NEW e \in Entry, Rename(e) PROVE PhaseInv'
  <2>1. CASE e \in Shell
    BY <1>9, <2>1, OneEnd DEF Rename
  <2>2. CASE e \notin Shell
    <3>1. task'.pc = "rename" /\ task'.todo = task.todo \ {e}
      BY <1>9, <2>2, ZenonT(40) DEF Rename
    <3>2. at' = [at EXCEPT ![e] = "none"] /\ UNCHANGED removal /\ task.pc = "rename"
      BY <1>9, <2>2 DEF Rename
    <3> QED
      BY <3>1, <3>2
  <2> QED
    BY <2>1, <2>2
<1>10. ASSUME NEW e \in Entry, Replace(e) PROVE PhaseInv'
  BY <1>10 DEF Replace
<1>11. CASE Applied
  BY <1>11 DEF Applied
<1>12. CASE CommitRemoval
  BY <1>12 DEF CommitRemoval
<1>13. CASE CommitUnknown
  BY <1>13 DEF CommitUnknown
<1>14. CASE FailRemoval
  BY <1>14 DEF FailRemoval
<1>15. ASSUME NEW e \in Entry, AlreadyBack(e) PROVE PhaseInv'
  BY <1>15 DEF AlreadyBack
<1>16. ASSUME NEW e \in Entry, RemoveReplacement(e) PROVE PhaseInv'
  BY <1>16 DEF RemoveReplacement
<1>17. ASSUME NEW e \in Entry, PutBack(e) PROVE PhaseInv'
  BY <1>17 DEF PutBack
<1>18. CASE AllBack
  BY <1>18 DEF AllBack
<1>19. CASE Restored
  BY <1>19 DEF Restored
<1>20. CASE RemoveLedger
  BY <1>20 DEF RemoveLedger
<1>21. ASSUME NEW e \in Entry, Discard(e) PROVE PhaseInv'
  BY <1>21 DEF Discard
<1>22. CASE Discarded
  BY <1>22 DEF Discarded
<1>23. CASE CannotPurge
  BY <1>23 DEF CannotPurge
<1>24. CASE Purge
  BY <1>24 DEF Purge
<1>25. CASE Forget
  BY <1>25 DEF Forget
<1>26. CASE Install
  BY <1>26 DEF Install
<1>27. CASE StopTask
  BY <1>27 DEF StopTask
<1>28. CASE UNCHANGED uninstallVars
  BY <1>28 DEF uninstallVars
<1> QED
  BY <1>1, <1>2, <1>3, <1>4, <1>5, <1>6, <1>7, <1>8, <1>9, <1>10, <1>11, <1>12, <1>13, <1>14, <1>15, <1>16, <1>17, <1>18, <1>19, <1>20, <1>21, <1>22, <1>23, <1>24, <1>25, <1>26, <1>27, <1>28
  DEF UninstallNext, Work, RemovalFailure

\* what the loops have done so far,
LEMMA DataStep == Inv /\ [UninstallNext]_uninstallVars => (ApplyInv /\ RestoreInv /\ FinalizeInv)'
<1> SUFFICES ASSUME Inv, [UninstallNext]_uninstallVars PROVE (ApplyInv /\ RestoreInv /\ FinalizeInv)'
  OBVIOUS
<1> USE NoRemovalAssumption
    DEF Inv, UninstallTypeOK, Task, Removal, TaskPC, RenamePC, RestoringPC, FinalizePC
<1> USE DEF PhaseInv, Undecided, Decided, uninstallDisk, Proceed, ProceedWith, EndTask, AfterLoad
<1> USE DEF ApplyInv, RestoreInv, FinalizeInv, BackupInv, NothingLost, FirstEntry, Last
<1>1. CASE TaskStarted
  BY <1>1 DEF TaskStarted, BeginTask
<1>2. CASE RecoverInstall
  BY <1>2 DEF RecoverInstall
<1>3. CASE LoadNothing
  BY <1>3 DEF LoadNothing
<1>4. CASE LoadUncommitted
  BY <1>4 DEF LoadUncommitted
<1>5. CASE LoadCommitted
  BY <1>5 DEF LoadCommitted
<1>6. CASE Prepare
  BY <1>6, PreparedFacts DEF Prepare
<1>7. CASE PrepareFails
  BY <1>7, PreparedFacts DEF PrepareFails
<1>8. CASE RefuseTask
  BY <1>8 DEF RefuseTask
<1>9. ASSUME NEW e \in Entry, Rename(e) PROVE (ApplyInv /\ RestoreInv /\ FinalizeInv)'
  <2>1. CASE e \in Shell
    BY <1>9, <2>1, OneEnd DEF Rename
  <2>2. CASE e \notin Shell
    <3>1. task'.pc = "rename" /\ task'.todo = task.todo \ {e}
      BY <1>9, <2>2 DEF Rename
    <3>2. at' = [at EXCEPT ![e] = "none"] /\ UNCHANGED removal /\ task.pc = "rename"
      BY <1>9, <2>2 DEF Rename
    <3> QED
      BY <3>1, <3>2
  <2> QED
    BY <2>1, <2>2
<1>10. ASSUME NEW e \in Entry, Replace(e) PROVE (ApplyInv /\ RestoreInv /\ FinalizeInv)'
  BY <1>10, OneEnd DEF Replace
<1>11. CASE Applied
  BY <1>11 DEF Applied
<1>12. CASE CommitRemoval
  BY <1>12 DEF CommitRemoval
<1>13. CASE CommitUnknown
  BY <1>13 DEF CommitUnknown
<1>14. CASE FailRemoval
  BY <1>14 DEF FailRemoval
<1>15. ASSUME NEW e \in Entry, AlreadyBack(e) PROVE (ApplyInv /\ RestoreInv /\ FinalizeInv)'
  BY <1>15 DEF AlreadyBack
<1>16. ASSUME NEW e \in Entry, RemoveReplacement(e) PROVE (ApplyInv /\ RestoreInv /\ FinalizeInv)'
  BY <1>16, OneEnd DEF RemoveReplacement
<1>17. ASSUME NEW e \in Entry, PutBack(e) PROVE (ApplyInv /\ RestoreInv /\ FinalizeInv)'
  BY <1>17 DEF PutBack
<1>18. CASE AllBack
  BY <1>18 DEF AllBack
<1>19. CASE Restored
  BY <1>19 DEF Restored
<1>20. CASE RemoveLedger
  BY <1>20 DEF RemoveLedger
<1>21. ASSUME NEW e \in Entry, Discard(e) PROVE (ApplyInv /\ RestoreInv /\ FinalizeInv)'
  BY <1>21 DEF Discard
<1>22. CASE Discarded
  BY <1>22 DEF Discarded
<1>23. CASE CannotPurge
  BY <1>23 DEF CannotPurge
<1>24. CASE Purge
  BY <1>24 DEF Purge
<1>25. CASE Forget
  BY <1>25 DEF Forget
<1>26. CASE Install
  BY <1>26 DEF Install
<1>27. CASE StopTask
  BY <1>27 DEF StopTask
<1>28. CASE UNCHANGED uninstallVars
  BY <1>28 DEF uninstallVars
<1> QED
  BY <1>1, <1>2, <1>3, <1>4, <1>5, <1>6, <1>7, <1>8, <1>9, <1>10, <1>11, <1>12, <1>13, <1>14, <1>15, <1>16, <1>17, <1>18, <1>19, <1>20, <1>21, <1>22, <1>23, <1>24, <1>25, <1>26, <1>27, <1>28
  DEF UninstallNext, Work, RemovalFailure

\* and the promises themselves.
LEMMA KeptStep == Inv /\ [UninstallNext]_uninstallVars => (BackupInv /\ NothingLost /\ AllOrNothing)'
<1> SUFFICES ASSUME Inv, [UninstallNext]_uninstallVars PROVE (BackupInv /\ NothingLost /\ AllOrNothing)'
  OBVIOUS
<1> USE NoRemovalAssumption
    DEF Inv, UninstallTypeOK, ValidJournal, Required, Task, Removal, TaskPC, RenamePC, RestoringPC, FinalizePC
<1> USE DEF PhaseInv, Undecided, Decided, uninstallDisk, Proceed, ProceedWith, EndTask, AfterLoad
<1> USE DEF ApplyInv, RestoreInv, FinalizeInv, BackupInv, NothingLost, AllOrNothing, FirstEntry, Last
<1>1. CASE TaskStarted
  BY <1>1 DEF TaskStarted, BeginTask
<1>2. CASE RecoverInstall
  BY <1>2 DEF RecoverInstall
<1>3. CASE LoadNothing
  BY <1>3 DEF LoadNothing
<1>4. CASE LoadUncommitted
  BY <1>4 DEF LoadUncommitted
<1>5. CASE LoadCommitted
  BY <1>5 DEF LoadCommitted
<1>6. CASE Prepare
  <2>1. /\ removal' # NoRemoval /\ ~removal'.committed
        /\ removal'.entries \subseteq Entry
        /\ \A e \in removal'.entries : at[e] = "original"
    BY <1>6, PreparedFacts DEF Prepare
  <2>2. installed /\ backup = {} /\ UNCHANGED <<at, backup, installed, sessions>>
    BY <1>6 DEF Prepare, CanPrepare
  <2> QED
    BY <1>6, <2>1, <2>2 DEF Prepare
<1>7. CASE PrepareFails
  <2>1. /\ removal' # NoRemoval /\ ~removal'.committed
        /\ removal'.entries \subseteq Entry
        /\ \A e \in removal'.entries : at[e] = "original"
    BY <1>7, PreparedFacts DEF PrepareFails
  <2>2. installed /\ backup = {} /\ UNCHANGED <<at, backup, installed, sessions>>
    BY <1>7 DEF PrepareFails, CanPrepare
  <2> QED
    BY <1>7, <2>1, <2>2 DEF PrepareFails
<1>8. CASE RefuseTask
  BY <1>8 DEF RefuseTask
<1>9. ASSUME NEW e \in Entry, Rename(e) PROVE (BackupInv /\ NothingLost /\ AllOrNothing)'
  BY <1>9 DEF Rename
<1>10. ASSUME NEW e \in Entry, Replace(e) PROVE (BackupInv /\ NothingLost /\ AllOrNothing)'
  BY <1>10 DEF Replace
<1>11. CASE Applied
  BY <1>11 DEF Applied
<1>12. CASE CommitRemoval
  <2>1. removal'.entries = removal.entries /\ removal' # NoRemoval
    <3>1. [removal EXCEPT !.committed = TRUE] \in Removal /\ removal # NoRemoval
      BY <1>12 DEF CommitRemoval
    <3> QED
      BY <1>12, <3>1 DEF CommitRemoval
  <2>2. UNCHANGED <<at, backup, installed>> /\ removal # NoRemoval
    BY <1>12 DEF CommitRemoval
  <2>3. ~removal'.committed => ~removal.committed
    BY <1>12 DEF CommitRemoval
  <2> QED
    BY <2>1, <2>2, <2>3
<1>13. CASE CommitUnknown
  <2>1. removal'.entries = removal.entries /\ removal' # NoRemoval
    <3>1. [removal EXCEPT !.committed = TRUE] \in Removal /\ removal # NoRemoval
      BY <1>13 DEF CommitUnknown
    <3> QED
      BY <1>13, <3>1 DEF CommitUnknown
  <2>2. UNCHANGED <<at, backup, installed>> /\ removal # NoRemoval
    BY <1>13 DEF CommitUnknown
  <2>3. ~removal'.committed => ~removal.committed
    BY <1>13 DEF CommitUnknown
  <2> QED
    BY <2>1, <2>2, <2>3
<1>14. CASE FailRemoval
  BY <1>14 DEF FailRemoval
<1>15. ASSUME NEW e \in Entry, AlreadyBack(e) PROVE (BackupInv /\ NothingLost /\ AllOrNothing)'
  BY <1>15 DEF AlreadyBack
<1>16. ASSUME NEW e \in Entry, RemoveReplacement(e) PROVE (BackupInv /\ NothingLost /\ AllOrNothing)'
  BY <1>16 DEF RemoveReplacement
<1>17. ASSUME NEW e \in Entry, PutBack(e) PROVE (BackupInv /\ NothingLost /\ AllOrNothing)'
  BY <1>17 DEF PutBack
<1>18. CASE AllBack
  BY <1>18 DEF AllBack
<1>19. CASE Restored
  BY <1>19 DEF Restored
<1>20. CASE RemoveLedger
  BY <1>20 DEF RemoveLedger
<1>21. ASSUME NEW e \in Entry, Discard(e) PROVE (BackupInv /\ NothingLost /\ AllOrNothing)'
  BY <1>21 DEF Discard
<1>22. CASE Discarded
  BY <1>22 DEF Discarded
<1>23. CASE CannotPurge
  BY <1>23 DEF CannotPurge
<1>24. CASE Purge
  BY <1>24 DEF Purge
<1>25. CASE Forget
  BY <1>25 DEF Forget
<1>26. CASE Install
  BY <1>26 DEF Install
<1>27. CASE StopTask
  BY <1>27 DEF StopTask
<1>28. CASE UNCHANGED uninstallVars
  BY <1>28 DEF uninstallVars
<1> QED
  BY <1>1, <1>2, <1>3, <1>4, <1>5, <1>6, <1>7, <1>8, <1>9, <1>10, <1>11, <1>12, <1>13, <1>14, <1>15, <1>16, <1>17, <1>18, <1>19, <1>20, <1>21, <1>22, <1>23, <1>24, <1>25, <1>26, <1>27, <1>28
  DEF UninstallNext, Work, RemovalFailure

LEMMA Initially == UninstallInit => Inv
BY NoRemovalAssumption, KindsAssumption
DEF UninstallInit, Inv, UninstallTypeOK, Task, TaskPC, RenamePC, RestoringPC, FinalizePC, PhaseInv, Undecided, Decided,
    ApplyInv, RestoreInv, FinalizeInv, BackupInv, NothingLost, AllOrNothing, Required

LEMMA Inductive == Inv /\ [UninstallNext]_uninstallVars => Inv'
BY TypeStep, PhaseStep, DataStep, KeptStep DEF Inv

LEMMA Invariance == UninstallSpec => []Inv
BY Initially, Inductive, PTL DEF UninstallSpec

-----------------------------------------------------------------------------
\* Every reachable state of an uninstall is well typed, its journal included.
THEOREM UninstallTypeCorrect == UninstallSpec => []UninstallTypeOK
<1>1. Inv => UninstallTypeOK
  BY DEF Inv
<1> QED
  BY <1>1, Invariance, PTL

\* Before the commit the original of every listed path is at the path or at its
\* backup name, and the ledger is there (prepareUninstall, restoreUninstallJournal).
THEOREM OriginalsKept == UninstallSpec => []NothingLost
<1>1. Inv => NothingLost
  BY DEF Inv
<1> QED
  BY <1>1, Invariance, PTL

\* When no journal is left, everything the ledger must own is there with the
\* ledger, or gone with it, and no backup is left (uninstallWithOps).
THEOREM UninstallAtomic == UninstallSpec => []AllOrNothing
<1>1. Inv => AllOrNothing
  BY DEF Inv
<1> QED
  BY <1>1, Invariance, PTL

\* A committed journal only goes when ledger, backups and, with a purge, the
\* sessions have gone (finalizeUninstallJournal).
THEOREM CommitFinal == UninstallSpec => CommittedIsFinal
<1> DEFINE Final ==
      removal # NoRemoval /\ removal.committed /\ removal' # removal =>
          /\ removal' = NoRemoval
          /\ ~installed /\ backup = {}
          /\ removal.purge => ~sessions
<1>1. Inv /\ [UninstallNext]_uninstallVars => [Final]_uninstallVars
  <2> SUFFICES ASSUME Inv, [UninstallNext]_uninstallVars, removal # NoRemoval, removal.committed, removal' # removal
               PROVE  Final
    OBVIOUS
  <2> USE DEF Inv, PhaseInv, Undecided, Decided, RenamePC, RestoringPC, FinalizePC
  <2>1. ~Prepare /\ ~PrepareFails /\ ~CommitRemoval /\ ~CommitUnknown /\ ~Restored
    BY DEF Prepare, PrepareFails, CommitRemoval, CommitUnknown, Restored, UninstallTypeOK, Removal
  <2>2. Forget
    BY <2>1 DEF UninstallNext, TaskStarted, BeginTask, Work, RemovalFailure, RefuseTask, uninstallDisk, uninstallVars, RecoverInstall,
         LoadNothing, LoadUncommitted, LoadCommitted, Applied, AllBack,
         RemoveLedger, Discarded, CannotPurge, Purge, Install, Rename, Replace, AlreadyBack,
         RemoveReplacement, PutBack, Discard, StopTask, FailRemoval
  <2> QED
    BY <2>2 DEF Forget, FinalizeInv
<1> QED
  BY <1>1, Invariance, PTL DEF UninstallSpec, CommittedIsFinal

=============================================================================
