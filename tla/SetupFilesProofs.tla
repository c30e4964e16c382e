---------------------------- MODULE SetupFilesProofs ----------------------------
(***************************************************************************)
(* A setup and its recovery lose no file and leave no mixture, for any     *)
(* number of targets, whatever fails, dies or is changed by others.        *)
(***************************************************************************)
EXTENDS SetupProofs

\* The artifacts of a target come one after the other, and none before its turn.
Fresh(p) ==
    /\ at[p].stage # "none" => First(p) /\ op.pc \in FilePC \ {"stage"}
    /\ at[p].backup # "none" =>
          First(p) /\ op.pc \in {"verify", "mark", "exchange", "displaced", "published"}
    /\ at[p].replacement # "none" => First(p) /\ op.pc \in {"exchange", "displaced", "published"}

FreshInv == op.pc \in FilePC \cup ServicePC => \A p \in op.todo : Fresh(p)

\* A backup that is not the original is linked to what is at the path.
BackupInv ==
    \A p \in op.todo : First(p) =>
        /\ op.pc \in {"backup", "verify"} /\ edit[p] = "none" => at[p].path = "before"
        /\ op.pc = "verify" =>
              \/ at[p].backup = at[p].path
              \/ at[p].backup = "before" /\ edit[p] \in {"replaced", "removed"}

\* What somebody else has put there or written to is at the path itself.
Shown(p) ==
    /\ edit[p] = "replaced" => at[p].path = "user"
    /\ edit[p] \in {"before", "after"} => at[p].path = edit[p]

\* Where artifacts are removed, nothing is only in them.
RemovalInv ==
    /\ op.pc = "discard" => \A p \in Target : Shown(p)
    /\ \A p \in op.todo : Last(p) =>
          /\ op.pc \in {"cleanup", "remove"} /\ edit[p] = "none" /\ kind[p] # "created" =>
                at[p].path = "before"
          /\ op.pc \in {"quarantine", "quarantined"} => kind[p] = "created"
          /\ op.pc = "remove" => Shown(p)

LossInv == FreshInv /\ BackupInv /\ RemovalInv /\ NothingLost

\* A target that the rollback or the discarding is done with has no artifacts,
\* unless the rollback has noted a failure.
CleanInv ==
    /\ op.pc = "discard" => \A p \in Target \ op.todo : Clean(p)
    /\ op.pc = "quiesce" => op.todo = Target
    /\ op.pc \in EntryPC /\ ~op.failed => \A p \in Target \ op.todo : Clean(p)
    /\ op.pc \in {"restoreScheduled", "restoreActive"} /\ ~op.failed =>
          \A p \in Target : Clean(p)
    /\ op.pc \in {"restored", "forget"} => \A p \in Target : Clean(p)

AllNames == Artifact \cup {"path"}

-----------------------------------------------------------------------------
\* What a write or an exchange makes of the names.
LEMMA Written ==
    ASSUME TypeOK, NEW p \in Target, NEW n \in AllNames, NEW f, Put(p, n, f)
    PROVE  /\ at'[p][n] = f
           /\ \A m \in AllNames \ {n} : at'[p][m] = at[p][m]
           /\ \A q \in Target \ {p} : at'[q] = at[q]
<1>1. at \in [Target -> Names] /\ at[p] \in Names
  BY DEF TypeOK
<1>2. at'[p] = [at[p] EXCEPT ![n] = f] /\ \A q \in Target \ {p} : at'[q] = at[q]
  BY <1>1 DEF Put
<1> QED
  BY <1>1, <1>2 DEF AllNames, Artifact, Names

LEMMA Swapping ==
    ASSUME TypeOK, NEW p \in Target, at' = Exchanged(p)
    PROVE  /\ at'[p].path = at[p].replacement /\ at'[p].replacement = at[p].path
           /\ at'[p].stage = at[p].stage /\ at'[p].backup = at[p].backup
           /\ \A q \in Target \ {p} : at'[q] = at[q]
<1>1. at \in [Target -> Names] /\ at[p] \in Names
  BY DEF TypeOK
<1>2. /\ at'[p] = [at[p] EXCEPT !.path = at[p].replacement, !.replacement = at[p].path]
      /\ \A q \in Target \ {p} : at'[q] = at[q]
  BY <1>1 DEF Exchanged
<1> QED
  BY <1>1, <1>2 DEF Names

\* A step on the files is one on the target whose turn it is.
FileTurn(p) ==
    /\ UNCHANGED <<kind, edit, journal>>
    /\ p \in op.todo
    /\ \/ First(p) /\ op.pc \in FilePC \cup {"discard"}
       \/ Last(p) /\ op.pc \in EntryPC
    /\ \A q \in Target \ {p} : at'[q] = at[q]
    /\ \/ op'.todo = op.todo
       \/ op'.todo = op.todo \ {p} /\ op'.pc \in {"stage", "discard", "forget", "rollback"}
       \/ op'.todo = Target /\ op'.pc = "quiesce"
    /\ op'.pc = "quiesce" => op'.todo = Target
    /\ op.failed => op'.failed

LEMMA FilesTurn == ASSUME TypeOK, NEW p \in Target, FileStep(p) PROVE FileTurn(p)
<1> USE DEF FileTurn, FilePC, EntryPC, Goto, GotoWith, SameBut, world, First, Last
<1>a. op \in Op
  BY DEF TypeOK
<1>b. \A f : \A n \in AllNames : Put(p, n, f) => \A q \in Target \ {p} : at'[q] = at[q]
  BY Written
<1>c. /\ {"path", "backup", "stage", "replacement"} \subseteq AllNames
      /\ FirstArtifact(p) \in AllNames
      /\ at' = Exchanged(p) => \A q \in Target \ {p} : at'[q] = at[q]
  BY Swapping DEF AllNames, Artifact, FirstArtifact
<1>1. CASE Keep(p)
  BY <1>1, <1>a, <1>b, <1>c DEF Keep, Op
<1>2. CASE Revalidate(p)
  BY <1>2, <1>a, <1>b, <1>c DEF Revalidate, Op
<1>3. CASE BackedUp(p)
  BY <1>3, <1>a, <1>b, <1>c DEF BackedUp, Op
<1>4. CASE Displaced(p)
  BY <1>4, <1>a, <1>b, <1>c DEF Displaced, Op
<1>5. CASE Published(p)
  BY <1>5, <1>a, <1>b, <1>c DEF Published, Op
<1>6. CASE Discarded(p)
  BY <1>6, <1>a, <1>b, <1>c DEF Discarded, Op
<1>7. CASE AtOld(p)
  BY <1>7, <1>a, <1>b, <1>c DEF AtOld, Op
<1>8. CASE UndoReplaced(p)
  BY <1>8, <1>a, <1>b, <1>c DEF UndoReplaced, Op
<1>9. CASE Swapped(p)
  BY <1>9, <1>a, <1>b, <1>c DEF Swapped, Op
<1>10. CASE UndoCreated(p)
  BY <1>10, <1>a, <1>b, <1>c DEF UndoCreated, Op
<1>11. CASE Quarantined(p)
  BY <1>11, <1>a, <1>b, <1>c DEF Quarantined, Op
<1>12. CASE UndoMissing(p)
  BY <1>12, <1>a, <1>b, <1>c DEF UndoMissing, Op
<1>13. CASE Cleanup(p)
  BY <1>13, <1>a, <1>b, <1>c DEF Cleanup, Op
<1>14. CASE Removed(p)
  BY <1>14, <1>a, <1>b, <1>c DEF Removed, Op
<1>15. CASE EntryFails(p)
  BY <1>15, <1>a, <1>b, <1>c DEF EntryFails, NextEntry, Op
<1>16. CASE Stage(p)
  BY <1>16, <1>a, <1>b, <1>c DEF Stage, Op
<1>17. CASE Backup(p)
  BY <1>17, <1>a, <1>b, <1>c DEF Backup, Op
<1>18. CASE Mark(p)
  BY <1>18, <1>a, <1>b, <1>c DEF Mark, Op
<1>19. CASE Publish(p)
  BY <1>19, <1>a, <1>b, <1>c DEF Publish, Op
<1>20. CASE BackupWrong(p)
  BY <1>20, <1>a, <1>b, <1>c DEF BackupWrong, Abort, Op
<1>21. CASE Discard(p)
  BY <1>21, <1>a, <1>b, <1>c DEF Discard, Op
<1>22. CASE RemoveArtifact(p)
  BY <1>22, <1>a, <1>b, <1>c DEF RemoveArtifact, Op
<1>23. CASE Relink(p)
  BY <1>23, <1>a, <1>b, <1>c DEF Relink, Op
<1>24. CASE Exchange(p)
  BY <1>24, <1>a, <1>b, <1>c DEF Exchange, Op
<1>25. CASE DisplacedWrong(p)
  BY <1>25, <1>a, <1>b, <1>c DEF DisplacedWrong, Abort, Op
<1>26. CASE Swap(p)
  BY <1>26, <1>a, <1>b, <1>c DEF Swap, Op
<1>27. CASE Quarantine(p)
  BY <1>27, <1>a, <1>b, <1>c DEF Quarantine, Op
<1>28. CASE SwapBack(p)
  BY <1>28, <1>a, <1>b, <1>c DEF SwapBack, NextEntry, Op
<1>29. CASE QuarantineWrong(p)
  BY <1>29, <1>a, <1>b, <1>c DEF QuarantineWrong, NextEntry, Op
<1> QED
  BY <1>1, <1>2, <1>3, <1>4, <1>5, <1>6, <1>7, <1>8, <1>9, <1>10, <1>11, <1>12, <1>13,
     <1>14, <1>15, <1>16, <1>17, <1>18, <1>19, <1>20, <1>21, <1>22, <1>23, <1>24, <1>25,
     <1>26, <1>27, <1>28, <1>29 DEF FileStep


\* Others change the path of one target, and only once.
EditMove(p) ==
    /\ UNCHANGED <<kind, journal, op>> /\ journal # NoJournal
    /\ edit[p] = "none" /\ \A n \in Artifact : at'[p][n] = at[p][n]
    /\ \A q \in Target \ {p} : at'[q] = at[q] /\ edit'[q] = edit[q]
    /\ \/ edit'[p] = "replaced" /\ at'[p].path = "user"
       \/ edit'[p] = "removed"
       \/ edit'[p] \in {"before", "after"} /\ at'[p].path = edit'[p] /\ at'[p] = at[p]

LEMMA OthersMove == ASSUME TypeOK, Others PROVE \E p \in Target : EditMove(p)
<1>1. PICK p \in Target, e \in {"replaced", "removed", "before", "after"} : Edit(p, e)
  BY DEF Others
<1>2. /\ edit[p] = "none" /\ edit'[p] = e /\ \A q \in Target \ {p} : edit'[q] = edit[q]
      /\ UNCHANGED <<kind, journal, op>> /\ journal # NoJournal
  BY <1>1 DEF Edit, TypeOK
<1>3. \A f : Put(p, "path", f) =>
         /\ at'[p].path = f
         /\ \A n \in Artifact : at'[p][n] = at[p][n]
         /\ \A q \in Target \ {p} : at'[q] = at[q]
  BY Written DEF AllNames, Artifact
<1>4. CASE e = "replaced"
  BY <1>1, <1>2, <1>3, <1>4 DEF Edit, EditMove
<1>5. CASE e = "removed"
  BY <1>1, <1>2, <1>3, <1>5 DEF Edit, EditMove
<1>6. CASE e \in {"before", "after"}
  <2>1. at' = at /\ at[p].path = e
    BY <1>1, <1>6 DEF Edit
  <2> QED
    BY <1>2, <1>6, <2>1 DEF EditMove
<1> QED
  BY <1>4, <1>5, <1>6

\* A new transaction starts with what there is and no artifacts.
LEMMA Beginning ==
    ASSUME TypeOK, NEW kinds \in [Target -> Kind], NEW manager \in Managers,
           Prepare(kinds, manager)
    PROVE  /\ \/ op'.pc = "stage" /\ op'.todo = Target
              \/ op'.pc = "idle"
           /\ journal' # NoJournal
           /\ \A q \in Target :
                 /\ edit'[q] = "none" /\ \A n \in Artifact : at'[q][n] = "none"
                 /\ kind'[q] # "created" => at'[q].path = "before"
<1>1. op' = [Idle EXCEPT !.pc = "stage", !.todo = Target] \/ op' = Idle
  BY DEF Prepare
<1>2. Idle \in Op /\ Idle.pc = "idle"
  BY DEF Idle, Op, OpPC, Untouched, Flags
<1>3. \/ op'.pc = "stage" /\ op'.todo = Target
      \/ op'.pc = "idle"
  BY <1>1, <1>2 DEF Op
<1>4. journal'.committed = FALSE /\ journal' # NoJournal
  BY PreparedJournal DEF Prepare
<1> QED
  BY <1>3, <1>4 DEF Prepare, At, Artifact

\* Every other step of a setup leaves the files alone and
PlaceMove ==
    \/ op'.pc \in {"idle", "load", "read", "prepare", "commit", "finalize"}
    \/ op'.pc = "quiesce" /\ op'.todo = Target
    \/ /\ op.pc \in {"stage"} \cup ServicePC /\ op'.pc \in {"stage"} \cup ServicePC
       /\ op'.todo = op.todo
    \/ op'.pc = "discard" /\ op'.todo = Target /\ Finalize
    \/ op.pc = "quiesce" /\ op'.pc = "rollback" /\ op'.todo = op.todo
    \/ /\ op.pc = "rollback" /\ op.todo = {} /\ ~op.failed /\ op'.pc = "restoreScheduled"
    \/ /\ op.pc = "restoreScheduled" /\ op'.pc = "restoreActive"
       /\ op'.failed \/ op'.failed = op.failed
    \/ op.pc = "restoreActive" /\ ~op.failed /\ op'.pc = "restored"

LEMMA OtherMoves ==
    ASSUME Inv, [Next]_vars
    PROVE  \/ Others \/ UNCHANGED vars
           \/ \E p \in Target : FileStep(p)
           \/ \E kinds \in [Target -> Kind], manager \in Managers : Prepare(kinds, manager)
           \/ UNCHANGED <<at, kind, edit>> /\ PlaceMove
<1> USE DEF PlaceMove, ServicePC, Goto, GotoWith, Return, Abort, world
<1>a. op \in Op /\ Idle \in Op /\ Idle.pc = "idle"
  BY DEF Inv, TypeOK, Idle, Op, OpPC, Untouched, Flags
<1>b. AfterRecovery("prepare").pc = "prepare" /\ AfterRecovery("read").pc = "read"
  BY <1>a DEF AfterRecovery, Op
<1> DEFINE Moved == UNCHANGED <<at, kind, edit>> /\ PlaceMove
<1>1. CASE LoadNothing
  BY <1>1, <1>a, <1>b DEF LoadNothing, Op
<1>2. CASE LoadRefuses
  BY <1>2, <1>a, <1>b DEF LoadRefuses, Op
<1>3. CASE LoadUncommitted
  BY <1>3, <1>a, <1>b DEF LoadUncommitted, Op
<1>4. CASE LoadCommitted
  BY <1>4, <1>a, <1>b DEF LoadCommitted, Op
<1>5. CASE Read
  BY <1>5, <1>a, <1>b DEF Read, Op
<1>6. CASE Serve
  BY <1>6, <1>a, <1>b DEF Serve, Op
<1>7. CASE Enable
  BY <1>7, <1>a, <1>b DEF Enable, Command, Op
<1>8. CASE NoService
  BY <1>8, <1>a, <1>b DEF NoService, Op
<1>9. CASE Start
  BY <1>9, <1>a, <1>b DEF Start, Command, Op
<1>10. CASE NoLogin
  BY <1>10, <1>a, <1>b DEF NoLogin, Op
<1>11. CASE Login
  BY <1>11, <1>a, <1>b DEF Login, Command, Op
<1>12. CASE Applied
  BY <1>12, <1>a, <1>b DEF Applied, Op
<1>13. CASE Finalize
  BY <1>13, <1>a, <1>b DEF Finalize, Op
<1>14. CASE Forget
  BY <1>14, <1>a, <1>b DEF Forget, Op
<1>15. CASE CannotFinalize
  BY <1>15, <1>a, <1>b DEF CannotFinalize, Op
<1>16. CASE Quiesce
  BY <1>16, <1>a, <1>b DEF Quiesce, Command, Op
<1>17. CASE RolledBack
  BY <1>17, <1>a, <1>b DEF RolledBack, Op
<1>18. CASE RestoreScheduled
  BY <1>18, <1>a, <1>b DEF RestoreScheduled, Command, Op
<1>19. CASE RestoreActive
  BY <1>19, <1>a, <1>b DEF RestoreActive, Command, Op
<1>20. CASE Restored
  BY <1>20, <1>a, <1>b DEF Restored, Op
<1>21. CASE CannotFinish
  BY <1>21, <1>a, <1>b DEF CannotFinish, Op
<1>22. CASE Stop
  BY <1>22, <1>a, <1>b DEF Stop, Op
<1>23. CASE Refuse
  BY <1>23, <1>a, <1>b DEF Refuse, Op
<1>24. CASE Fail
  BY <1>24, <1>a, <1>b DEF Fail, FilePC, Op
<1>25. CASE WriteFails
  BY <1>25, <1>a, <1>b DEF WriteFails, Op
<1>26. CASE QuiesceFails
  BY <1>26, <1>a, <1>b DEF QuiesceFails, CommandFails, Op
<1>27. CASE RestoreFails
  BY <1>27, <1>a, <1>b DEF RestoreFails, CommandFails, Op
<1>28. CASE Started
  BY <1>28, <1>a, <1>b DEF Started, Begin, Op
<1>29. CASE Commit
  BY <1>29, <1>a, <1>b DEF Commit, Op
<1>30. CASE CommitUnknown
  BY <1>30, <1>a, <1>b DEF CommitUnknown, Op
<1>31. CASE AnnounceStep
  BY <1>31, <1>a, <1>b DEF AnnounceStep, AnnounceEnable, AnnounceStart, AnnounceLogin, Announce,
     AnnounceFails, Op
<1>32. CASE CommandFailsStep
  BY <1>32, <1>a, <1>b DEF CommandFailsStep, CommandFails, Op
<1> QED
  BY NextCases, <1>1, <1>2, <1>3, <1>4, <1>5, <1>6, <1>7, <1>8, <1>9, <1>10, <1>11, <1>12, <1>13,
     <1>14, <1>15, <1>16, <1>17, <1>18, <1>19, <1>20, <1>21, <1>22, <1>23, <1>24, <1>25,
     <1>26, <1>27, <1>28, <1>29, <1>30, <1>31, <1>32

\* The journal is committed once all targets are final, and not taken back.
LEMMA JournalMoves ==
    ASSUME Inv, [Next]_vars
    PROVE  \/ \E kinds \in [Target -> Kind], manager \in Managers : Prepare(kinds, manager)
           \/ journal' # NoJournal =>
                  /\ journal # NoJournal /\ (journal.committed => journal'.committed)
                  /\ journal'.committed => journal.committed \/ \A p \in Target : Final(p)
<1> USE DEF Inv
<1>1. CASE AnnounceStep
  <2>1. PICK flags \in {Scheduling, Activating, LoggingIn} :
           AnnounceMove(flags) /\ flags \in Flags /\ journal # NoJournal
    BY <1>1, AnnouncementsMove, FlagsType
       DEF AnnounceStep, AnnounceStart, AnnounceEnable, AnnounceLogin, Announce,
           AnnounceFails, PhaseInv, ManagerInv, Undecided, ServicePC
  <2> QED
    BY <2>1, WrittenFlags DEF AnnounceMove
<1>2. CASE Commit \/ CommitUnknown
  BY <1>2, WrittenCommit DEF Commit, CommitUnknown, PhaseInv, Undecided
<1>3. ASSUME NEW p \in Target, FileStep(p) PROVE UNCHANGED journal
  BY <1>3, FilesMove DEF FileMove
<1>4. Forget \/ Restored => journal' = NoJournal
  BY DEF Forget, Restored
<1>5. CASE \/ Started \/ Others \/ UNCHANGED vars \/ CommandFailsStep
           \/ LoadNothing \/ LoadRefuses \/ LoadUncommitted \/ LoadCommitted \/ Read
           \/ Serve \/ NoService \/ NoLogin \/ Applied \/ Finalize \/ CannotFinalize
           \/ RolledBack \/ CannotFinish \/ Stop \/ Refuse \/ Fail \/ WriteFails
           \/ QuiesceFails \/ RestoreFails
  BY <1>5 DEF world, vars, Started, Begin, Others, Edit, CommandFailsStep, CommandFails,
     LoadNothing, LoadRefuses, LoadUncommitted, LoadCommitted, Read, Serve, NoService,
     NoLogin, Applied, Finalize, CannotFinalize, RolledBack, CannotFinish, Stop, Refuse,
     Fail, WriteFails, QuiesceFails, RestoreFails
<1>6. CASE Enable \/ Start \/ Login \/ Quiesce \/ RestoreScheduled \/ RestoreActive
  BY <1>6 DEF Command, Enable, Start, Login, Quiesce, RestoreScheduled, RestoreActive
<1> QED
  BY NextCases, <1>1, <1>2, <1>3, <1>4, <1>5, <1>6

-----------------------------------------------------------------------------
\* A target is the only one whose turn it is, and the others of a setup have no
\* artifacts yet.
LEMMA OneTurn ==
    ASSUME TypeOK, FreshInv, NEW p \in Target, FileStep(p)
    PROVE  /\ \A q \in op.todo \ {p} :
                 /\ First(p) => ~First(q)
                 /\ Last(p) => ~Last(q)
           /\ op.pc \in FilePC => \A q \in op.todo \ {p} : Clean(q)
           /\ op.pc = "stage" => Clean(p)
<1>1. FileTurn(p)
  BY FilesTurn
<1>2. op.todo \subseteq Target
  BY DEF TypeOK, Op
<1>3. \A q \in op.todo \ {p} : (First(p) => ~First(q)) /\ (Last(p) => ~Last(q))
  BY <1>1, <1>2, TargetsAssumption DEF First, Last, FileTurn, Target
<1>4. op.pc \in FilePC => First(p)
  BY <1>1 DEF FileTurn, FilePC, EntryPC
<1>5. op.pc \in FilePC => \A q \in op.todo \ {p} : Clean(q)
  BY <1>3, <1>4 DEF FreshInv, Fresh, Clean, Artifact
<1>6. op.pc = "stage" => Clean(p)
  BY <1>1 DEF FreshInv, Fresh, Clean, FilePC, FileTurn, Artifact
<1> QED
  BY <1>3, <1>5, <1>6

LEMMA FreshFile == ASSUME TypeOK, FreshInv, NEW p \in Target, FileStep(p) PROVE FreshInv'
<1> USE DEF FilePC, ServicePC, EntryPC, Goto, GotoWith, SameBut, world, Clean, Artifact
<1>a. op \in Op /\ FileTurn(p)
  BY FilesTurn DEF TypeOK
<1>b. /\ \A f : \A n \in AllNames : Put(p, n, f) =>
            /\ at'[p][n] = f
            /\ \A m \in AllNames \ {n} : at'[p][m] = at[p][m]
      /\ {"path", "backup", "stage", "replacement"} \subseteq AllNames
  BY Written DEF AllNames
<1>c. /\ op.pc \in FilePC => \A q \in op.todo \ {p} : Clean(q)
      /\ op.pc = "stage" => Clean(p)
      /\ op.pc \in FilePC => op'.todo \subseteq op.todo \/ op'.pc = "quiesce"
  BY <1>a, OneTurn DEF FileTurn
<1>d. SUFFICES ASSUME op'.pc \in FilePC PROVE \A q \in op'.todo : Fresh(q)'
  BY FilesMove DEF FreshInv, FileMove
<1>e. op.pc \in FilePC /\ op'.todo \subseteq op.todo /\ First(p)
  BY <1>a, <1>c, <1>d, FilesMove DEF FileMove, FileTurn
<1>f. \A q \in op'.todo \ {p} : Fresh(q)'
  <2>1. \A q \in op'.todo \ {p} : q \in Target /\ Clean(q) /\ at'[q] = at[q]
    BY <1>a, <1>c, <1>e DEF FileTurn, Op
  <2> QED
    BY <2>1 DEF Fresh
<1>g. SUFFICES ASSUME p \in op'.todo PROVE Fresh(p)'
  BY <1>f
<1>h. op'.todo = op.todo /\ First(p)'
  BY <1>a, <1>d, <1>e, <1>g DEF FileTurn, First
<1>i. Fresh(p)
  BY <1>e, <1>a DEF FreshInv, FileTurn
<1>1. CASE Keep(p)
  BY <1>1, <1>a, <1>b, <1>c, <1>d, <1>e, <1>g, <1>h, <1>i DEF Keep, Fresh, Op
<1>2. CASE Revalidate(p)
  BY <1>2, <1>a, <1>b, <1>c, <1>d, <1>e, <1>g, <1>h, <1>i DEF Revalidate, Fresh, Op
<1>3. CASE BackedUp(p)
  BY <1>3, <1>a, <1>b, <1>c, <1>d, <1>e, <1>g, <1>h, <1>i DEF BackedUp, Fresh, Op
<1>4. CASE Displaced(p)
  BY <1>4, <1>a, <1>b, <1>c, <1>d, <1>e, <1>g, <1>h, <1>i DEF Displaced, Fresh, Op
<1>5. CASE Published(p)
  BY <1>5, <1>a, <1>b, <1>c, <1>d, <1>e, <1>g, <1>h, <1>i DEF Published, Fresh, Op
<1>6. CASE Discarded(p)
  BY <1>6, <1>a, <1>b, <1>c, <1>d, <1>e, <1>g, <1>h, <1>i DEF Discarded, Fresh, Op
<1>7. CASE AtOld(p)
  BY <1>7, <1>a, <1>b, <1>c, <1>d, <1>e, <1>g, <1>h, <1>i DEF AtOld, Fresh, Op
<1>8. CASE UndoReplaced(p)
  BY <1>8, <1>a, <1>b, <1>c, <1>d, <1>e, <1>g, <1>h, <1>i DEF UndoReplaced, Fresh, Op
<1>9. CASE Swapped(p)
  BY <1>9, <1>a, <1>b, <1>c, <1>d, <1>e, <1>g, <1>h, <1>i DEF Swapped, Fresh, Op
<1>10. CASE UndoCreated(p)
  BY <1>10, <1>a, <1>b, <1>c, <1>d, <1>e, <1>g, <1>h, <1>i DEF UndoCreated, Fresh, Op
<1>11. CASE Quarantined(p)
  BY <1>11, <1>a, <1>b, <1>c, <1>d, <1>e, <1>g, <1>h, <1>i DEF Quarantined, Fresh, Op
<1>12. CASE UndoMissing(p)
  BY <1>12, <1>a, <1>b, <1>c, <1>d, <1>e, <1>g, <1>h, <1>i DEF UndoMissing, Fresh, Op
<1>13. CASE Cleanup(p)
  BY <1>13, <1>a, <1>b, <1>c, <1>d, <1>e, <1>g, <1>h, <1>i DEF Cleanup, Fresh, Op
<1>14. CASE Removed(p)
  BY <1>14, <1>a, <1>b, <1>c, <1>d, <1>e, <1>g, <1>h, <1>i DEF Removed, Fresh, Op
<1>15. CASE EntryFails(p)
  BY <1>15, <1>a, <1>b, <1>c, <1>d, <1>e, <1>g, <1>h, <1>i DEF EntryFails, NextEntry, Fresh, Op
<1>16. CASE Stage(p)
  BY <1>16, <1>a, <1>b, <1>c, <1>d, <1>e, <1>g, <1>h, <1>i DEF Stage, Fresh, Op
<1>17. CASE Backup(p)
  BY <1>17, <1>a, <1>b, <1>c, <1>d, <1>e, <1>g, <1>h, <1>i DEF Backup, Fresh, Op
<1>18. CASE Mark(p)
  BY <1>18, <1>a, <1>b, <1>c, <1>d, <1>e, <1>g, <1>h, <1>i DEF Mark, Fresh, Op
<1>19. CASE Publish(p)
  BY <1>19, <1>a, <1>b, <1>c, <1>d, <1>e, <1>g, <1>h, <1>i DEF Publish, Fresh, Op
<1>20. CASE BackupWrong(p)
  BY <1>20, <1>a, <1>b, <1>c, <1>d, <1>e, <1>g, <1>h, <1>i DEF BackupWrong, Abort, Fresh, Op
<1>21. CASE Discard(p)
  BY <1>21, <1>a, <1>b, <1>c, <1>d, <1>e, <1>g, <1>h, <1>i DEF Discard, Fresh, Op
<1>22. CASE RemoveArtifact(p)
  BY <1>22, <1>a, <1>b, <1>c, <1>d, <1>e, <1>g, <1>h, <1>i DEF RemoveArtifact, Fresh, Op
<1>23. CASE Relink(p)
  BY <1>23, <1>a, <1>b, <1>c, <1>d, <1>e, <1>g, <1>h, <1>i DEF Relink, Fresh, Op
<1>24. CASE Exchange(p)
  BY <1>24, <1>a, <1>b, <1>c, <1>d, <1>e, <1>g, <1>h, <1>i DEF Exchange, Fresh, Op
<1>25. CASE DisplacedWrong(p)
  BY <1>25, <1>a, <1>b, <1>c, <1>d, <1>e, <1>g, <1>h, <1>i DEF DisplacedWrong, Abort, Fresh, Op
<1>26. CASE Swap(p)
  BY <1>26, <1>a, <1>b, <1>c, <1>d, <1>e, <1>g, <1>h, <1>i DEF Swap, Fresh, Op
<1>27. CASE Quarantine(p)
  BY <1>27, <1>a, <1>b, <1>c, <1>d, <1>e, <1>g, <1>h, <1>i DEF Quarantine, Fresh, Op
<1>28. CASE SwapBack(p)
  BY <1>28, <1>a, <1>b, <1>c, <1>d, <1>e, <1>g, <1>h, <1>i DEF SwapBack, NextEntry, Fresh, Op
<1>29. CASE QuarantineWrong(p)
  BY <1>29, <1>a, <1>b, <1>c, <1>d, <1>e, <1>g, <1>h, <1>i DEF QuarantineWrong, NextEntry, Fresh, Op
<1> QED
  BY <1>1, <1>2, <1>3, <1>4, <1>5, <1>6, <1>7, <1>8, <1>9, <1>10, <1>11, <1>12, <1>13,
     <1>14, <1>15, <1>16, <1>17, <1>18, <1>19, <1>20, <1>21, <1>22, <1>23, <1>24, <1>25,
     <1>26, <1>27, <1>28, <1>29 DEF FileStep


LEMMA FreshStep == Inv /\ FreshInv /\ [Next]_vars => FreshInv'
<1> SUFFICES ASSUME Inv, FreshInv, [Next]_vars PROVE FreshInv'
  OBVIOUS
<1> USE DEF FilePC, ServicePC
<1>a. op \in Op
  BY DEF Inv, TypeOK
<1>1. CASE Others
  <2>1. op' = op /\ \A q \in Target, n \in Artifact : at'[q][n] = at[q][n]
    BY <1>1, OthersMove DEF EditMove, Inv
  <2> QED
    BY <1>a, <2>1 DEF FreshInv, Fresh, First, Artifact, Op
<1>2. CASE UNCHANGED vars
  BY <1>2 DEF vars, FreshInv, Fresh, First
<1>3. ASSUME NEW p \in Target, FileStep(p) PROVE FreshInv'
  BY <1>3, FreshFile DEF Inv
<1>4. ASSUME NEW kinds \in [Target -> Kind], NEW manager \in Managers, Prepare(kinds, manager)
      PROVE  FreshInv'
  BY <1>4, Beginning DEF FreshInv, Fresh, Artifact, Inv
<1>5. CASE UNCHANGED <<at, kind, edit>> /\ PlaceMove
  <2>1. SUFFICES ASSUME op'.pc \in FilePC \cup ServicePC PROVE FreshInv'
    BY DEF FreshInv
  <2>2. op.pc \in {"stage"} \cup ServicePC /\ op'.todo = op.todo
    BY <1>5, <2>1 DEF PlaceMove
  <2>3. \A q \in op.todo : \A n \in Artifact : at[q][n] = "none"
    BY <2>2 DEF FreshInv, Fresh, Artifact
  <2> QED
    BY <1>5, <2>2, <2>3 DEF FreshInv, Fresh, Artifact
<1> QED
  BY OtherMoves, <1>1, <1>2, <1>3, <1>4, <1>5

\* A backup or an artifact removed is never the last of what others have done.
LEMMA BackupFile ==
    ASSUME TypeOK, BackupInv, NEW p \in Target, FileStep(p) PROVE BackupInv'
<1> USE DEF FilePC, ServicePC, EntryPC, Goto, GotoWith, SameBut, world
<1>a. op \in Op /\ FileTurn(p)
  BY FilesTurn DEF TypeOK
<1>b. /\ \A f : Put(p, "backup", f) => at'[p].backup = f /\ at'[p].path = at[p].path
  BY Written DEF AllNames, Artifact
<1>c. SUFFICES ASSUME op'.pc \in {"backup", "verify"} PROVE BackupInv'
  BY DEF BackupInv
<1>d. Revalidate(p) \/ Backup(p)
  BY <1>a, <1>c
     DEF FileStep, Keep, Revalidate, BackedUp, Displaced, Published, Discarded, AtOld,
         UndoReplaced, Swapped, UndoCreated, Quarantined, UndoMissing, Cleanup, Removed,
         EntryFails, Stage, Backup, Mark, Publish, BackupWrong, Discard, RemoveArtifact,
         Relink, Exchange, DisplacedWrong, Swap, Quarantine, SwapBack, QuarantineWrong,
         NextEntry, Abort, Op
<1>2. op'.todo = op.todo /\ First(p) /\ First(p)'
  BY <1>a, <1>d DEF Revalidate, Backup, First, Op
<1>3. \A q \in op'.todo : First(q)' => q = p
  BY <1>a, <1>2, TargetsAssumption DEF First, Op, Target
<1>4. CASE Revalidate(p)
  BY <1>2, <1>3, <1>4, <1>a, <1>c DEF Revalidate, BackupInv, Prepared, Intact, Op
<1>5. CASE Backup(p)
  BY <1>2, <1>3, <1>5, <1>a, <1>b, <1>c DEF Backup, BackupInv, Op
<1> QED
  BY <1>d, <1>4, <1>5

LEMMA BackupStep == Inv /\ BackupInv /\ [Next]_vars => BackupInv'
<1> SUFFICES ASSUME Inv, BackupInv, [Next]_vars PROVE BackupInv'
  OBVIOUS
<1>a. op \in Op
  BY DEF Inv, TypeOK
<1>1. CASE Others
  <2>1. PICK p \in Target : EditMove(p)
    BY <1>1, OthersMove DEF Inv
  <2>2. at'[p].backup = at[p].backup
    BY <2>1 DEF EditMove, Artifact
  <2>3. op' = op
    BY <2>1 DEF EditMove
  <2>4. ASSUME NEW q \in op.todo, First(q), op.pc \in {"backup", "verify"}
        PROVE  /\ edit'[q] = "none" => at'[q].path = "before"
               /\ op.pc = "verify" =>
                     \/ at'[q].backup = at'[q].path
                     \/ at'[q].backup = "before" /\ edit'[q] \in {"replaced", "removed"}
    <3>1. CASE q = p
      BY <2>1, <2>2, <2>4, <3>1 DEF BackupInv, EditMove
    <3>2. CASE q # p
      BY <1>a, <2>1, <2>4, <3>2 DEF BackupInv, EditMove, Op
    <3> QED
      BY <3>1, <3>2
  <2> QED
    BY <2>3, <2>4 DEF BackupInv, First
<1>2. CASE UNCHANGED vars
  BY <1>2 DEF vars, BackupInv, First
<1>3. ASSUME NEW p \in Target, FileStep(p) PROVE BackupInv'
  BY <1>3, BackupFile DEF Inv
<1>4. ASSUME NEW kinds \in [Target -> Kind], NEW manager \in Managers, Prepare(kinds, manager)
      PROVE  BackupInv'
  BY <1>4, WrittenFirst DEF BackupInv, Inv
<1>5. CASE UNCHANGED <<at, kind, edit>> /\ PlaceMove
  BY <1>5 DEF PlaceMove, BackupInv, ServicePC
<1> QED
  BY OtherMoves, <1>1, <1>2, <1>3, <1>4, <1>5

\* Artifacts that are the transaction's own hold nothing of anybody else.
LEMMA OwnArtifacts ==
    ASSUME NothingLost, NEW p \in Target, NEW f \in {"before", "after"}, ArtifactsValid(p, f)
    PROVE  Shown(p)
<1>1. ASSUME NEW g, edit[p] = g, \E n \in Artifact \cup {"path"} : at[p][n] = g,
             g \notin {"none", "removed"}
      PROVE  at[p].path = g
  BY <1>1 DEF ArtifactsValid, Intact, Artifact
<1>2. CASE edit[p] = "replaced"
  <2>1. \E n \in Artifact \cup {"path"} : at[p][n] = "user"
    BY <1>2 DEF NothingLost
  <2> QED
    BY <1>2, <2>1 DEF ArtifactsValid, Intact, Artifact, Shown
<1>3. CASE edit[p] \in {"before", "after"}
  <2>1. \E n \in Artifact \cup {"path"} : at[p][n] = edit[p]
    BY <1>3 DEF NothingLost
  <2> QED
    BY <1>1, <1>3, <2>1 DEF Shown
<1> QED
  BY <1>2, <1>3 DEF Shown

LEMMA RemovalFile ==
    ASSUME TypeOK, RemovalInv, NothingLost, NEW p \in Target, FileStep(p) PROVE RemovalInv'
<1> USE DEF FilePC, ServicePC, EntryPC, Goto, GotoWith, SameBut, world
<1>a. op \in Op /\ FileTurn(p)
  BY FilesTurn DEF TypeOK
<1>b. /\ \A f : \A n \in AllNames : Put(p, n, f) =>
            /\ at'[p][n] = f
            /\ \A m \in AllNames \ {n} : at'[p][m] = at[p][m]
      /\ {"path", "backup", "stage", "replacement"} \subseteq AllNames
      /\ FirstArtifact(p) \in AllNames \ {"path"}
  BY Written DEF AllNames, Artifact, FirstArtifact
<1>1. CASE op'.pc = "discard"
  <2>1. Discard(p) \/ Discarded(p)
    BY <1>1, <1>a
       DEF FileStep, Keep, Revalidate, BackedUp, Displaced, Published, Discarded, AtOld,
           UndoReplaced, Swapped, UndoCreated, Quarantined, UndoMissing, Cleanup, Removed,
           EntryFails, Stage, Backup, Mark, Publish, BackupWrong, Discard, RemoveArtifact,
           Relink, Exchange, DisplacedWrong, Swap, Quarantine, SwapBack, QuarantineWrong,
           NextEntry, Abort, Op
  <2>2. at'[p].path = at[p].path /\ op.pc = "discard" /\ edit' = edit
    BY <2>1, <1>b DEF Discard, Discarded
  <2> QED
    BY <2>2, <1>1, <1>a DEF RemovalInv, Shown, FileTurn
<1>2. CASE op'.pc \in {"quarantine", "quarantined", "cleanup", "remove"}
  <2>1. \/ AtOld(p) \/ Swapped(p) \/ Quarantined(p) \/ Relink(p)
        \/ UndoCreated(p) \/ Quarantine(p) \/ Cleanup(p) \/ RemoveArtifact(p)
    BY <1>2, <1>a, ZenonT(40)
       DEF FileStep, Keep, Revalidate, BackedUp, Displaced, Published, Discarded, AtOld,
           UndoReplaced, Swapped, UndoCreated, Quarantined, UndoMissing, Cleanup, Removed,
           EntryFails, Stage, Backup, Mark, Publish, BackupWrong, Discard, RemoveArtifact,
           Relink, Exchange, DisplacedWrong, Swap, Quarantine, SwapBack, QuarantineWrong,
           NextEntry, Abort, Op
  <2>2. Last(p) /\ Last(p)' /\ op'.todo = op.todo
    BY <2>1, <1>a DEF AtOld, Swapped, UndoCreated, Quarantine, Quarantined, Relink, Cleanup,
                      RemoveArtifact, Last, Op
  <2>a. p \in op.todo
    BY <2>2 DEF Last
  <2>3. \A q \in op'.todo : Last(q)' => q = p
    BY <1>a, <2>2, TargetsAssumption DEF Last, Op, Target
  <2>4. edit' = edit /\ kind' = kind
    BY <1>a DEF FileTurn
  <2>5. SUFFICES /\ op'.pc \in {"cleanup", "remove"} /\ edit[p] = "none"
                       /\ kind[p] # "created" => at'[p].path = "before"
                 /\ op'.pc \in {"quarantine", "quarantined"} => kind[p] = "created"
                 /\ op'.pc = "remove" => Shown(p)'
    BY <1>2, <2>2, <2>3, <2>4 DEF RemovalInv
  <2>6. CASE AtOld(p)
    BY <1>a, <2>6 DEF AtOld, Prepared, Intact, Op
  <2>7. CASE Swapped(p)
    BY <1>a, <2>7 DEF Swapped, Op
  <2>8. CASE Quarantined(p)
    BY <1>a, <2>2, <2>a, <2>8 DEF Quarantined, RemovalInv, Op
  <2>9. CASE Relink(p)
    BY <1>a, <1>b, <2>9 DEF Relink, Op
  <2>10. CASE Cleanup(p)
    <3>1. Shown(p)
      BY <2>10, OwnArtifacts DEF Cleanup
    <3>2. op.pc = "cleanup" /\ op'.pc = "remove" /\ UNCHANGED <<at, edit, kind>>
      BY <1>a, <2>10 DEF Cleanup, Op
    <3> QED
      BY <2>2, <2>a, <3>1, <3>2 DEF RemovalInv, Shown
  <2>11. CASE RemoveArtifact(p)
    <3>1. at'[p].path = at[p].path /\ op.pc = "remove" /\ op' = op
      BY <1>b, <2>11 DEF RemoveArtifact
    <3> QED
      BY <2>2, <2>a, <2>4, <3>1 DEF RemovalInv, Shown
  <2>12. CASE UndoCreated(p) \/ Quarantine(p)
    BY <1>a, <2>2, <2>a, <2>12 DEF UndoCreated, Created, Quarantine, RemovalInv, Op
  <2> QED
    BY <2>1, <2>6, <2>7, <2>8, <2>9, <2>10, <2>11, <2>12
<1> QED
  BY <1>1, <1>2 DEF RemovalInv

LEMMA RemovalStep == Inv /\ RemovalInv /\ NothingLost /\ [Next]_vars => RemovalInv'
<1> SUFFICES ASSUME Inv, RemovalInv, NothingLost, [Next]_vars PROVE RemovalInv'
  OBVIOUS
<1>a. op \in Op
  BY DEF Inv, TypeOK
<1>1. CASE Others
  <2>1. PICK p \in Target : EditMove(p)
    BY <1>1, OthersMove DEF Inv
  <2>2. op' = op
    BY <2>1 DEF EditMove
  <2>3. ASSUME NEW q \in Target, Shown(q) PROVE Shown(q)'
    BY <2>1, <2>3 DEF EditMove, Shown
  <2>4. ASSUME NEW q \in Target, edit[q] = "none" /\ kind[q] # "created" => at[q].path = "before"
        PROVE  edit'[q] = "none" /\ kind'[q] # "created" => at'[q].path = "before"
    BY <2>1, <2>4 DEF EditMove
  <2> QED
    BY <1>a, <2>1, <2>2, <2>3, <2>4 DEF RemovalInv, Last, Op, EditMove
<1>2. CASE UNCHANGED vars
  BY <1>2 DEF vars, RemovalInv, Last, Shown
<1>3. ASSUME NEW p \in Target, FileStep(p) PROVE RemovalInv'
  BY <1>3, RemovalFile DEF Inv
<1>4. ASSUME NEW kinds \in [Target -> Kind], NEW manager \in Managers, Prepare(kinds, manager)
      PROVE  RemovalInv'
  BY <1>4, Beginning DEF RemovalInv, Inv
<1>5. CASE UNCHANGED <<at, kind, edit>> /\ PlaceMove
  <2>1. CASE op'.pc = "discard"
    <3>1. Finalize
      BY <1>5, <2>1 DEF PlaceMove, ServicePC
    <3>2. \A q \in Target : Shown(q)
      BY <3>1, OwnArtifacts DEF Finalize, Finalizable
    <3> QED
      BY <1>5, <2>1, <3>2 DEF RemovalInv, Shown
  <2>2. CASE op'.pc # "discard"
    BY <1>5, <2>2 DEF PlaceMove, RemovalInv, ServicePC
  <2> QED
    BY <2>1, <2>2
<1> QED
  BY OtherMoves, <1>1, <1>2, <1>3, <1>4, <1>5

-----------------------------------------------------------------------------
\* NothingLost, file by file.
Has(p, f) ==
    at[p].path = f \/ at[p].backup = f \/ at[p].stage = f \/ at[p].replacement = f
Meant(p, f) ==
    \/ edit[p] = "replaced" /\ f = "user"
    \/ edit[p] \in {"before", "after"} /\ f = edit[p]
    \/ journal # NoJournal /\ ~journal.committed /\ kind[p] # "created" /\ edit[p] = "none"
          /\ f = "before"

LEMMA LossByFile ==
    /\ NothingLost <=> \A p \in Target, f \in File : Meant(p, f) => Has(p, f)
    /\ NothingLost' <=> \A p \in Target, f \in File : Meant(p, f)' => Has(p, f)'
BY DEF NothingLost, Meant, Has, Artifact, File

LEMMA LossFile ==
    ASSUME TypeOK, PhaseInv, FreshInv, BackupInv, RemovalInv, NothingLost,
           NEW p \in Target, FileStep(p)
    PROVE  NothingLost'
<1> USE DEF FilePC, ServicePC, EntryPC, Goto, GotoWith, SameBut, world
<1>a. op \in Op /\ FileTurn(p) /\ p \in op.todo
  BY FilesTurn DEF TypeOK, FileTurn
<1>b. /\ \A f : \A n \in AllNames : Put(p, n, f) =>
            /\ at'[p][n] = f
            /\ \A m \in AllNames \ {n} : at'[p][m] = at[p][m]
      /\ AllNames = {"path", "backup", "stage", "replacement"}
      /\ at' = Exchanged(p) =>
            /\ at'[p].path = at[p].replacement /\ at'[p].replacement = at[p].path
            /\ at'[p].stage = at[p].stage /\ at'[p].backup = at[p].backup
  BY Written, Swapping DEF AllNames, Artifact
<1>c. SUFFICES ASSUME NEW f \in File, Meant(p, f), Has(p, f) PROVE Has(p, f)'
  <2>1. \A q \in Target, f \in File : Meant(q, f)' => Meant(q, f)
    BY <1>a DEF FileTurn, Meant
  <2>2. \A q \in Target \ {p}, f \in File : Has(q, f) => Has(q, f)'
    BY <1>a DEF FileTurn, Has
  <2> QED
    BY <1>c, <2>1, <2>2, LossByFile
<1>d. f \in {"user", "before", "after"}
  BY <1>c DEF Meant
<1>e. /\ op.pc = "remove" => Shown(p) /\ (edit[p] = "none" /\ kind[p] # "created" =>
                                             at[p].path = "before")
      /\ op.pc = "discard" => Shown(p)
  BY <1>a DEF RemovalInv, FileTurn
<1>f. /\ op.pc \in {"stage"} => at[p].stage = "none"
      /\ op.pc \in {"backup"} => at[p].backup = "none"
      /\ op.pc \in {"mark"} => at[p].replacement = "none"
  BY <1>a DEF FreshInv, Fresh
<1>g. op.pc = "verify" => /\ edit[p] = "none" => at[p].path = "before"
                          /\ \/ at[p].backup = at[p].path
                             \/ at[p].backup = "before" /\ edit[p] \in {"replaced", "removed"}
  BY <1>a DEF BackupInv, FileTurn
<1>h. op.pc \in {"discard", "remove"} => at[p].path = f
  BY <1>c, <1>e DEF Meant, Shown, PhaseInv, FinalizePC, Decided
<1>1. CASE Keep(p)
  BY <1>1, <1>a, <1>b, <1>c, <1>d DEF Keep, Has
<1>2. CASE Revalidate(p)
  BY <1>2, <1>a, <1>b, <1>c, <1>d DEF Revalidate, Has
<1>3. CASE BackedUp(p)
  BY <1>3, <1>a, <1>b, <1>c, <1>d DEF BackedUp, Has
<1>4. CASE Displaced(p)
  BY <1>4, <1>a, <1>b, <1>c, <1>d DEF Displaced, Has
<1>5. CASE Published(p)
  BY <1>5, <1>a, <1>b, <1>c, <1>d DEF Published, Has
<1>6. CASE Discarded(p)
  BY <1>6, <1>a, <1>b, <1>c, <1>d DEF Discarded, Has
<1>7. CASE AtOld(p)
  BY <1>7, <1>a, <1>b, <1>c, <1>d DEF AtOld, Has
<1>8. CASE UndoReplaced(p)
  BY <1>8, <1>a, <1>b, <1>c, <1>d DEF UndoReplaced, Has
<1>9. CASE Swapped(p)
  BY <1>9, <1>a, <1>b, <1>c, <1>d DEF Swapped, Has
<1>10. CASE UndoCreated(p)
  BY <1>10, <1>a, <1>b, <1>c, <1>d DEF UndoCreated, Has
<1>11. CASE Quarantined(p)
  BY <1>11, <1>a, <1>b, <1>c, <1>d DEF Quarantined, Has
<1>12. CASE UndoMissing(p)
  BY <1>12, <1>a, <1>b, <1>c, <1>d DEF UndoMissing, Has
<1>13. CASE Cleanup(p)
  BY <1>13, <1>a, <1>b, <1>c, <1>d DEF Cleanup, Has
<1>14. CASE Removed(p)
  BY <1>14, <1>a, <1>b, <1>c, <1>d DEF Removed, Has
<1>15. CASE EntryFails(p)
  BY <1>15, <1>a, <1>b, <1>c, <1>d DEF EntryFails, NextEntry, Has
<1>16. CASE Stage(p)
  BY <1>16, <1>a, <1>b, <1>c, <1>d, <1>f DEF Stage, Has
<1>17. CASE Backup(p)
  BY <1>17, <1>a, <1>b, <1>c, <1>d, <1>f DEF Backup, Has
<1>18. CASE Mark(p)
  BY <1>18, <1>a, <1>b, <1>c, <1>d, <1>f DEF Mark, Has
<1>19. CASE Publish(p)
  BY <1>19, <1>a, <1>b, <1>c, <1>d DEF Publish, Has
<1>20. CASE BackupWrong(p)
  BY <1>20, <1>a, <1>b, <1>c, <1>d, <1>g DEF BackupWrong, Abort, Intact, Meant, Has
<1>21. CASE Discard(p)
  BY <1>21, <1>a, <1>b, <1>c, <1>d, <1>h DEF Discard, FirstArtifact, Has
<1>22. CASE RemoveArtifact(p)
  BY <1>22, <1>a, <1>b, <1>c, <1>d, <1>h DEF RemoveArtifact, FirstArtifact, Has
<1>23. CASE Relink(p)
  BY <1>23, <1>a, <1>b, <1>c, <1>d DEF Relink, Has
<1>24. CASE Exchange(p)
  BY <1>24, <1>a, <1>b, <1>c, <1>d DEF Exchange, Has
<1>25. CASE DisplacedWrong(p)
  BY <1>25, <1>a, <1>b, <1>c, <1>d DEF DisplacedWrong, Abort, Has
<1>26. CASE Swap(p)
  BY <1>26, <1>a, <1>b, <1>c, <1>d DEF Swap, Has
<1>27. CASE Quarantine(p)
  BY <1>27, <1>a, <1>b, <1>c, <1>d DEF Quarantine, Has
<1>28. CASE SwapBack(p)
  BY <1>28, <1>a, <1>b, <1>c, <1>d DEF SwapBack, NextEntry, Has
<1>29. CASE QuarantineWrong(p)
  BY <1>29, <1>a, <1>b, <1>c, <1>d DEF QuarantineWrong, NextEntry, Has
<1> QED
  BY <1>1, <1>2, <1>3, <1>4, <1>5, <1>6, <1>7, <1>8, <1>9, <1>10, <1>11, <1>12, <1>13,
     <1>14, <1>15, <1>16, <1>17, <1>18, <1>19, <1>20, <1>21, <1>22, <1>23, <1>24, <1>25,
     <1>26, <1>27, <1>28, <1>29 DEF FileStep


LEMMA LossStep == Inv /\ LossInv /\ [Next]_vars => NothingLost'
<1> SUFFICES ASSUME Inv, LossInv, [Next]_vars PROVE NothingLost'
  OBVIOUS
<1>1. CASE Others
  <2>1. PICK p \in Target : EditMove(p)
    BY <1>1, OthersMove DEF Inv
  <2>2. ASSUME NEW q \in Target, NEW f \in File, Meant(q, f)' PROVE Has(q, f)'
    <3>1. CASE q = p
      BY <2>1, <2>2, <3>1 DEF EditMove, Meant, Has
    <3>2. CASE q # p
      BY <2>1, <2>2, <3>2, LossByFile DEF EditMove, Meant, Has, LossInv
    <3> QED
      BY <3>1, <3>2
  <2> QED
    BY <2>2, LossByFile
<1>2. CASE UNCHANGED vars
  BY <1>2 DEF vars, LossInv, NothingLost
<1>3. ASSUME NEW p \in Target, FileStep(p) PROVE NothingLost'
  BY <1>3, LossFile DEF Inv, LossInv
<1>4. ASSUME NEW kinds \in [Target -> Kind], NEW manager \in Managers, Prepare(kinds, manager)
      PROVE  NothingLost'
  BY <1>4, Beginning, LossByFile DEF Inv, Meant, Has
<1>5. CASE /\ UNCHANGED <<at, kind, edit>>
           /\ journal' # NoJournal =>
                 journal # NoJournal /\ (journal.committed => journal'.committed)
  <2>1. ASSUME NEW q \in Target, NEW f \in File PROVE Meant(q, f)' => Meant(q, f)
    BY <1>5 DEF Meant
  <2>2. ASSUME NEW q \in Target, NEW f \in File PROVE Has(q, f) => Has(q, f)'
    BY <1>5 DEF Has
  <2> QED
    BY <2>1, <2>2, LossByFile DEF LossInv
<1> QED
  BY OtherMoves, JournalMoves, <1>1, <1>2, <1>3, <1>4, <1>5

-----------------------------------------------------------------------------
\* What is done with has no artifacts left.
LEMMA CleanFile ==
    ASSUME TypeOK, CleanInv, NEW p \in Target, FileStep(p)
    PROVE  CleanInv'
<1> USE DEF FilePC, ServicePC, EntryPC, Goto, GotoWith, SameBut, world
<1>a. op \in Op /\ FileTurn(p) /\ p \in op.todo
  BY FilesTurn DEF TypeOK, FileTurn
<1>b. \A q \in Target \ {p} : Clean(q) => Clean(q)'
  BY <1>a DEF FileTurn, Clean
<1>1. CASE op'.pc = "discard" \/ op'.pc = "forget"
  <2>1. Discard(p) \/ Discarded(p)
    BY <1>1, <1>a, ZenonT(40)
       DEF FileStep, Keep, Revalidate, BackedUp, Displaced, Published, Discarded, AtOld,
           UndoReplaced, Swapped, UndoCreated, Quarantined, UndoMissing, Cleanup, Removed,
           EntryFails, Stage, Backup, Mark, Publish, BackupWrong, Discard, RemoveArtifact,
           Relink, Exchange, DisplacedWrong, Swap, Quarantine, SwapBack, QuarantineWrong,
           NextEntry, Abort, Op
  <2>2. CASE Discard(p)
    BY <1>1, <1>a, <1>b, <2>2 DEF Discard, CleanInv
  <2>3. CASE Discarded(p)
    BY <1>1, <1>a, <1>b, <2>3 DEF Discarded, CleanInv, Clean, Op
  <2> QED
    BY <2>1, <2>2, <2>3
<1>2. CASE op'.pc = "quiesce"
  BY <1>2, <1>a, FilesMove DEF FileTurn, FileMove, CleanInv
<1>3. CASE op'.pc \in EntryPC
  <2>1. op.pc \in EntryPC /\ (op.failed => op'.failed) /\ op'.todo \subseteq op.todo
    BY <1>3, <1>a, FilesMove DEF FileTurn, FileMove
  <2>2. CASE op'.todo = op.todo
    BY <1>3, <1>a, <1>b, <2>1, <2>2 DEF CleanInv
  <2>3. CASE op'.todo # op.todo
    <3>1. op'.failed \/ Removed(p)
      BY <2>3, <1>3, <1>a, ZenonT(40)
         DEF FileStep, Keep, Revalidate, BackedUp, Displaced, Published, Discarded, AtOld,
             UndoReplaced, Swapped, UndoCreated, Quarantined, UndoMissing, Cleanup,
             Removed, EntryFails, Stage, Backup, Mark, Publish, BackupWrong, Discard,
             RemoveArtifact, Relink, Exchange, DisplacedWrong, Swap, Quarantine, SwapBack,
             QuarantineWrong, NextEntry, Abort, Op
    <3>2. CASE op'.failed
      BY <1>3, <3>2 DEF CleanInv
    <3>3. CASE Removed(p)
      BY <1>3, <1>a, <1>b, <2>1, <3>3 DEF Removed, CleanInv, Clean, Op
    <3> QED
      BY <3>1, <3>2, <3>3
  <2> QED
    BY <2>2, <2>3
<1> QED
  BY <1>1, <1>2, <1>3, FilesMove DEF FileMove, CleanInv

LEMMA CleanStep == Inv /\ CleanInv /\ [Next]_vars => CleanInv'
<1> SUFFICES ASSUME Inv, CleanInv, [Next]_vars PROVE CleanInv'
  OBVIOUS
<1> USE DEF EntryPC
<1>a. op \in Op
  BY DEF Inv, TypeOK
<1>1. CASE Others
  <2>1. PICK p \in Target : EditMove(p)
    BY <1>1, OthersMove DEF Inv
  <2>2. op' = op /\ \A q \in Target : Clean(q) => Clean(q)'
    BY <2>1 DEF EditMove, Clean, Artifact
  <2> QED
    BY <2>2 DEF CleanInv
<1>2. CASE UNCHANGED vars
  BY <1>2 DEF vars, CleanInv, Clean
<1>3. ASSUME NEW p \in Target, FileStep(p) PROVE CleanInv'
  BY <1>3, CleanFile DEF Inv
<1>4. ASSUME NEW kinds \in [Target -> Kind], NEW manager \in Managers, Prepare(kinds, manager)
      PROVE  CleanInv'
  BY <1>4, Beginning DEF CleanInv, Inv
<1>5. CASE UNCHANGED <<at, kind, edit>> /\ PlaceMove
  <2>1. \A q \in Target : Clean(q) => Clean(q)'
    BY <1>5 DEF Clean
  <2> QED
    BY <1>5, <2>1 DEF PlaceMove, CleanInv, ServicePC
<1> QED
  BY OtherMoves, <1>1, <1>2, <1>3, <1>4, <1>5

\* A journal goes only when no artifact is left and all targets agree.
LEMMA WholeStep == Inv /\ CleanInv /\ AllOrNothing /\ [Next]_vars => AllOrNothing'
<1> SUFFICES ASSUME Inv, CleanInv, AllOrNothing, [Next]_vars, journal' = NoJournal
             PROVE  AllOrNothing'
  BY DEF AllOrNothing
<1>1. CASE journal # NoJournal
  <2>1. Restored \/ Forget
    BY <1>1, JournalEnds
  <2>2. UNCHANGED <<at, kind, edit>> /\ \A q \in Target : Clean(q)
    BY <2>1 DEF Restored, Forget, CleanInv
  <2>3. (\A q \in Target : Prepared(q)) \/ (\A q \in Target : Final(q))
    BY <2>1 DEF Restored, Forget
  <2> QED
    BY <2>2, <2>3 DEF AllOrNothing, Clean, Prepared, Final, Intact
<1>2. CASE journal = NoJournal
  <2>1. ~Others
    BY <1>2 DEF Others, Edit
  <2>2. ASSUME NEW p \in Target PROVE ~FileStep(p)
    BY <1>2, FilesTurn DEF FileTurn, Inv, PhaseInv, Undecided, Decided, FinalizePC, AbortPC
  <2>3. ASSUME NEW kinds \in [Target -> Kind], NEW manager \in Managers
        PROVE  ~Prepare(kinds, manager)
    BY <2>3, Beginning DEF Inv
  <2>4. UNCHANGED <<at, kind, edit>>
    BY <2>1, <2>2, <2>3, OtherMoves DEF vars
  <2> QED
    BY <1>2, <2>4 DEF AllOrNothing, Clean, Prepared, Final, Intact
<1> QED
  BY <1>1, <1>2

-----------------------------------------------------------------------------
FilesInv == LossInv /\ CleanInv /\ AllOrNothing

LEMMA FilesInitially == Init => FilesInv
<1> SUFFICES ASSUME Init PROVE FilesInv
  OBVIOUS
<1>1. op.pc = "idle" /\ op.todo = {} /\ journal = NoJournal
  BY DEF Init, Idle
<1>2. \A p \in Target :
        /\ at[p] \in {At("none"), At("before")} /\ edit[p] = "none"
        /\ kind[p] = IF at[p].path = "none" THEN "created" ELSE "same"
  BY DEF Init
<1>3. LossInv
  BY <1>1, <1>2 DEF LossInv, FreshInv, BackupInv, RemovalInv, NothingLost, FilePC, ServicePC
<1>4. CleanInv
  BY <1>1 DEF CleanInv, EntryPC
<1>5. \A p \in Target : Clean(p) /\ Prepared(p)
  BY <1>2 DEF Clean, Prepared, Intact, At, Artifact
<1> QED
  BY <1>3, <1>4, <1>5 DEF FilesInv, AllOrNothing

LEMMA FilesInvariance == Spec => [](Inv /\ FilesInv)
<1>1. Inv /\ FilesInv /\ [Next]_vars => Inv' /\ FilesInv'
  BY Inductive, FreshStep, BackupStep, RemovalStep, LossStep, CleanStep, WholeStep
     DEF FilesInv, LossInv
<1> QED
  BY Initially, FilesInitially, <1>1, PTL DEF Spec

\* Whatever a setup or its recovery exchanges, undoes or leaves, what somebody
\* else has put at a target or written into it stays, and so does the original
\* until the commit (applyPreparedFile, rollbackSetupEntry and their checks).
THEOREM FilesKept == Spec => []NothingLost
<1>1. FilesInv => NothingLost
  BY DEF FilesInv, LossInv
<1> QED
  BY <1>1, FilesInvariance, PTL

\* Without a journal the targets are those of before or those that were meant,
\* and no artifact lies beside them (finalize and rollback remove the journal last).
THEOREM SetupAtomic == Spec => []AllOrNothing
<1>1. FilesInv => AllOrNothing
  BY DEF FilesInv
<1> QED
  BY <1>1, FilesInvariance, PTL
-----------------------------------------------------------------------------
\* The files of a target that nobody else has changed: before the commit ...
Undoable(p) ==
    /\ kind[p] = "same" => at[p].path = "before" /\ Clean(p)
    /\ kind[p] = "created" =>
          /\ at[p].path \in {"none", "after"} /\ at[p].backup = "none"
          /\ at[p].stage \in {"none", "after"} /\ at[p].replacement \in {"none", "after"}
          /\ at[p].path = "after" => at[p].stage = "after" /\ at[p].replacement = "none"
    /\ kind[p] = "replaced" =>
          /\ at[p].path \in {"before", "after"} /\ at[p].backup \in {"none", "before"}
          /\ at[p].stage \in {"none", "after"}
          /\ at[p].path = "before" => at[p].replacement \in {"none", "after"}
          /\ at[p].path = "after" =>
                at[p].stage = "after" /\ at[p].backup = "before" /\ at[p].replacement = "before"

\* ... and after it.
Finishable(p) ==
    /\ at[p].path = IF kind[p] = "same" THEN "before" ELSE "after"
    /\ kind[p] = "same" => Clean(p)
    /\ at[p].backup = "none" \/ (kind[p] = "replaced" /\ at[p].backup = "before")
    /\ at[p].stage \in {"none", "after"}
    /\ at[p].replacement = "none" \/ (kind[p] = "replaced" /\ at[p].replacement = "before")

Stands(p) == IF journal.committed THEN Finishable(p) ELSE Undoable(p)
StandInv == journal # NoJournal => \A p \in Target : edit[p] = "none" => Stands(p)

\* The target that is being changed, and those that wait for it,
Advancing(p) ==
    /\ op.pc \in FilePC \ {"stage"} => at[p].stage = "after"
    /\ op.pc \in {"backup", "verify", "mark", "exchange", "displaced"} => kind[p] = "replaced"
    /\ op.pc = "publish" => kind[p] = "created"
    /\ op.pc \in {"mark", "exchange"} => at[p].backup = "before"
    /\ op.pc = "exchange" => at[p].replacement = "after"
    /\ op.pc \in {"displaced", "published"} => at[p].path = "after"

ForwardInv ==
    \A p \in op.todo : edit[p] = "none" =>
        /\ op.pc \in FilePC \cup ServicePC =>
              Prepared(p) \/ (First(p) /\ op.pc \in {"displaced", "published"})
        /\ First(p) => Advancing(p)

\* or put back, and those that have been.
Retreating(p) ==
    /\ op.pc \in {"swap", "swapped"} => kind[p] = "replaced"
    /\ op.pc = "swap" => at[p].path = "after"
    /\ op.pc = "swapped" => at[p].path = "before" /\ at[p].replacement = "after"
    /\ op.pc \in {"quarantine", "quarantined"} => kind[p] = "created"
    /\ op.pc = "quarantine" => at[p].path = "after"
    /\ op.pc = "quarantined" => at[p].path = "none" /\ at[p].replacement = "after"
    /\ op.pc # "relink"
    /\ op.pc \in {"cleanup", "remove"} => Prepared(p)

BackwardInv == \A p \in op.todo : edit[p] = "none" /\ Last(p) => Retreating(p)

BackInv ==
    \A p \in Target : edit[p] = "none" =>
        /\ op.pc \in EntryPC /\ ~op.failed => p \in op.todo \/ Prepared(p)
        /\ op.pc \in {"restoreScheduled", "restoreActive"} /\ ~op.failed => Prepared(p)
        /\ op.pc = "restored" => Prepared(p)

\* A recovery works with the journal that it has read.
AgreedInv ==
    /\ op.pc \in {"idle", "load"} => ~op.unsaved /\ ~op.recovering
    /\ op.recovering =>
          op.pc \in AbortPC \cup FinalizePC /\ ~op.unsaved /\ op.flags = journal.flags

RecoveryInv == StandInv /\ ForwardInv /\ BackwardInv /\ BackInv /\ AgreedInv

\* The files of a target do not depend on what happens to another one.
LEMMA SameTarget ==
    ASSUME TypeOK, NEW q \in Target, at'[q] = at[q], kind'[q] = kind[q], edit'[q] = edit[q]
    PROVE  /\ Prepared(q)' <=> Prepared(q)
           /\ Final(q)' <=> Final(q)
           /\ Clean(q)' <=> Clean(q)
           /\ Undoable(q)' <=> Undoable(q)
           /\ Finishable(q)' <=> Finishable(q)
BY DEF Prepared, Final, Intact, Clean, Undoable, Finishable

\* Every write leaves them so.
LEMMA StandFile ==
    ASSUME TypeOK, PhaseInv, FreshInv, StandInv, ForwardInv, BackwardInv,
           NEW p \in Target, FileStep(p)
    PROVE  StandInv'
<1> USE DEF FilePC, ServicePC, EntryPC, SameBut, world
<1>a. op \in Op /\ FileTurn(p) /\ p \in op.todo
  BY FilesTurn DEF TypeOK, FileTurn
<1>b. /\ \A f : \A n \in AllNames : Put(p, n, f) =>
            /\ at'[p][n] = f
            /\ \A m \in AllNames \ {n} : at'[p][m] = at[p][m]
      /\ AllNames = {"path", "backup", "stage", "replacement"}
      /\ at' = Exchanged(p) =>
            /\ at'[p].path = at[p].replacement /\ at'[p].replacement = at[p].path
            /\ at'[p].stage = at[p].stage /\ at'[p].backup = at[p].backup
  BY Written, Swapping DEF AllNames, Artifact
<1>c. UNCHANGED <<kind, edit, journal>> /\ \A q \in Target \ {p} : at'[q] = at[q]
  BY <1>a DEF FileTurn
<1>d. journal # NoJournal /\ (journal.committed <=> op.pc = "discard")
  BY <1>a DEF FileTurn, PhaseInv, Undecided, Decided, AbortPC, FinalizePC
<1>e. \A q \in Target \ {p} : Stands(q) => Stands(q)'
  BY <1>c, SameTarget DEF Stands
<1>f. SUFFICES ASSUME edit[p] = "none" PROVE Stands(p)'
  BY <1>c, <1>d, <1>e DEF StandInv
<1>g. Stands(p)
  BY <1>d, <1>f DEF StandInv
<1>h. op.pc # "discard" => Undoable(p)
  BY <1>d, <1>g DEF Stands
<1>i. op.pc # "discard" /\ Undoable(p)' => Stands(p)'
  BY <1>c, <1>d DEF Stands
<1>j. op.pc \in FilePC => First(p) /\ Advancing(p)
  BY <1>a, <1>f DEF FileTurn, ForwardInv
<1>k. op.pc \in EntryPC => Last(p) /\ Retreating(p)
  BY <1>a, <1>f DEF FileTurn, BackwardInv
<1>l. op.pc \in FilePC \ {"displaced", "published"} => Prepared(p)
  BY <1>a, <1>f DEF ForwardInv
<1>m. /\ op.pc = "stage" => Clean(p)
      /\ op.pc \in FilePC => Fresh(p)
  BY <1>a, OneTurn DEF FreshInv
<1>1. CASE UNCHANGED at
  BY <1>1, <1>c, <1>g, SameTarget DEF Stands
<1>2. CASE Stage(p)
  BY <1>2, <1>b, <1>c, <1>h, <1>i, <1>m DEF Stage, Undoable, Prepared, Intact, Clean, Artifact
<1>3. CASE Backup(p)
  BY <1>3, <1>b, <1>c, <1>h, <1>i, <1>j, <1>l DEF Backup, Undoable, Advancing, Prepared, Intact
<1>4. CASE Mark(p)
  BY <1>4, <1>b, <1>c, <1>h, <1>i, <1>j, <1>l DEF Mark, Undoable, Advancing, Prepared, Intact
<1>5. CASE Publish(p)
  BY <1>5, <1>b, <1>c, <1>h, <1>i, <1>j, <1>m DEF Publish, Undoable, Advancing, Fresh
<1>6. CASE BackupWrong(p)
  BY <1>6, <1>b, <1>c, <1>h, <1>i, <1>j, <1>l
     DEF BackupWrong, Undoable, Advancing, Prepared, Intact
<1>7. CASE Exchange(p)
  BY <1>7, <1>b, <1>c, <1>h, <1>i, <1>j, <1>l
     DEF Exchange, Undoable, Advancing, Prepared, Intact
<1>8. CASE DisplacedWrong(p)
  BY <1>8, <1>f, <1>h, <1>j DEF DisplacedWrong, Undoable, Advancing, Intact
<1>9. CASE Discard(p)
  <2>1. op.pc = "discard" /\ Finishable(p) /\ ~Clean(p)
    BY <1>9, <1>d, <1>g DEF Discard, Stands
  <2>2. PICK n \in Artifact : n = FirstArtifact(p)
    BY <2>1 DEF FirstArtifact, Clean, Artifact
  <2>3. at'[p][n] = "none" /\ \A m \in AllNames \ {n} : at'[p][m] = at[p][m]
    BY <1>9, <1>b, <2>2 DEF Discard, Artifact
  <2>a. /\ at'[p].path = at[p].path
        /\ at'[p].backup \in {at[p].backup, "none"}
        /\ at'[p].stage \in {at[p].stage, "none"}
        /\ at'[p].replacement \in {at[p].replacement, "none"}
    BY <1>b, <2>2, <2>3 DEF Artifact
  <2>b. kind[p] # "same" /\ kind'[p] = kind[p]
    BY <1>c, <2>1 DEF Finishable
  <2>4. Finishable(p)'
    BY <2>1, <2>a, <2>b DEF Finishable
  <2> QED
    BY <1>c, <1>d, <2>1, <2>4 DEF Stands
<1>10. CASE RemoveArtifact(p)
  <2>1. op.pc = "remove" /\ Undoable(p) /\ Prepared(p) /\ ~Clean(p)
    BY <1>10, <1>h, <1>k DEF RemoveArtifact, Retreating
  <2>2. PICK n \in Artifact : n = FirstArtifact(p)
    BY <2>1 DEF FirstArtifact, Clean, Artifact
  <2>3. at'[p][n] = "none" /\ \A m \in AllNames \ {n} : at'[p][m] = at[p][m]
    BY <1>10, <1>b, <2>2 DEF RemoveArtifact, Artifact
  <2> QED
    BY <1>b, <1>c, <1>i, <2>1, <2>2, <2>3
       DEF Undoable, Artifact, Prepared, Intact, Clean
<1>11. CASE Relink(p)
  BY <1>11, <1>k DEF Relink, Retreating
<1>12. CASE Swap(p)
  BY <1>12, <1>b, <1>c, <1>h, <1>i, <1>k DEF Swap, Undoable, Retreating
<1>13. CASE Quarantine(p)
  BY <1>13, <1>b, <1>c, <1>h, <1>i, <1>k DEF Quarantine, Undoable, Retreating
<1>14. CASE SwapBack(p)
  BY <1>14, <1>f, <1>k DEF SwapBack, Retreating, Intact
<1>15. CASE QuarantineWrong(p)
  BY <1>15, <1>f, <1>k DEF QuarantineWrong, Retreating, Intact
<1> QED
  BY <1>1, <1>2, <1>3, <1>4, <1>5, <1>6, <1>7, <1>8, <1>9, <1>10, <1>11, <1>12, <1>13,
     <1>14, <1>15
     DEF FileStep, Keep, Revalidate, BackedUp, Displaced, Published, Discarded, AtOld,
         UndoReplaced, Swapped, UndoCreated, Quarantined, UndoMissing, Cleanup, Removed,
         EntryFails
\* The target that is being changed is as its next step needs it, and the ones
\* behind it are still as they were.
LEMMA ForwardFile ==
    ASSUME TypeOK, PhaseInv, FreshInv, StandInv, ForwardInv, NEW p \in Target, FileStep(p)
    PROVE  ForwardInv'
<1> USE DEF FilePC, ServicePC, EntryPC, SameBut, world, Goto, GotoWith
<1>a. op \in Op /\ FileTurn(p) /\ p \in op.todo
  BY FilesTurn DEF TypeOK, FileTurn
<1>b. /\ \A f : \A n \in AllNames : Put(p, n, f) =>
            /\ at'[p][n] = f
            /\ \A m \in AllNames \ {n} : at'[p][m] = at[p][m]
      /\ AllNames = {"path", "backup", "stage", "replacement"}
      /\ at' = Exchanged(p) =>
            /\ at'[p].path = at[p].replacement /\ at'[p].replacement = at[p].path
            /\ at'[p].stage = at[p].stage /\ at'[p].backup = at[p].backup
  BY Written, Swapping DEF AllNames, Artifact
<1>c. UNCHANGED <<kind, edit, journal>> /\ \A q \in Target \ {p} : at'[q] = at[q]
  BY <1>a DEF FileTurn
<1>d. SUFFICES ASSUME op'.pc \in FilePC PROVE ForwardInv'
  BY FilesMove DEF FileMove, ForwardInv, Advancing
<1>e. op.pc \in FilePC /\ First(p) /\ op'.todo \subseteq op.todo
  BY <1>a, <1>d, FilesMove DEF FileMove, FileTurn
<1>f. ASSUME NEW q \in op'.todo, q # p, edit'[q] = "none"
      PROVE  Prepared(q)' /\ (First(q)' => Advancing(q)')
  <2>1. q \in op.todo \ {p} /\ q \in Target /\ ~First(q) /\ edit[q] = "none"
    BY <1>a, <1>c, <1>e, <1>f, OneTurn DEF Op
  <2>2. Prepared(q)
    BY <1>e, <2>1 DEF ForwardInv
  <2>3. Prepared(q)'
    BY <1>c, <2>1, <2>2, SameTarget
  <2>4. First(q)' => op'.pc = "stage"
    <3>1. SUFFICES ASSUME First(q)', p \in op'.todo PROVE FALSE
      BY <1>a, <1>d, <1>e DEF FileTurn
    <3>2. q <= p /\ p <= q
      BY <1>e, <2>1, <3>1 DEF First
    <3> QED
      BY <1>f, <2>1, <3>2, TargetsAssumption DEF Target
  <2> QED
    BY <2>3, <2>4 DEF Advancing
<1>g. SUFFICES ASSUME p \in op'.todo, edit[p] = "none"
               PROVE  /\ Prepared(p)' \/ (First(p)' /\ op'.pc \in {"displaced", "published"})
                      /\ Advancing(p)'
  BY <1>c, <1>f DEF ForwardInv
<1>h. op'.todo = op.todo /\ First(p)'
  BY <1>a, <1>d, <1>e, <1>g DEF FileTurn, First
<1>i. /\ Advancing(p)
      /\ op.pc \notin {"displaced", "published"} => Prepared(p)
      /\ Undoable(p)
  BY <1>a, <1>e, <1>g DEF ForwardInv, StandInv, Stands, PhaseInv, Undecided, AbortPC
<1>j. kind'[p] = kind[p] /\ edit'[p] = "none"
  BY <1>c, <1>g
<1>1. CASE Stage(p)
  BY <1>1, <1>a, <1>b, <1>i, <1>j DEF Stage, Prepared, Intact, Advancing, Op
<1>2. CASE Revalidate(p)
  <2>1. at[p].stage = "after"
    BY <1>2, <1>i DEF Revalidate, Advancing
  <2>2. kind[p] \in {"created", "replaced"}
    BY <1>a, <1>i, <2>1 DEF Undoable, Clean, Artifact, TypeOK, Kind, Op
  <2> QED
    BY <1>2, <1>a, <1>i, <1>j, <2>1, <2>2 DEF Revalidate, Prepared, Intact, Advancing, Op
<1>3. CASE Backup(p)
  BY <1>3, <1>a, <1>b, <1>i, <1>j DEF Backup, Prepared, Intact, Advancing, Op
<1>4. CASE BackedUp(p)
  BY <1>4, <1>a, <1>i, <1>j DEF BackedUp, Prepared, Intact, Advancing, Op
<1>5. CASE Mark(p)
  BY <1>5, <1>a, <1>b, <1>i, <1>j DEF Mark, Prepared, Intact, Advancing, Op
<1>6. CASE Exchange(p)
  BY <1>6, <1>a, <1>b, <1>h, <1>i, <1>j DEF Exchange, Advancing, Op
<1>7. CASE Displaced(p)
  BY <1>7, <1>a, <1>h, <1>i, <1>j DEF Displaced, Advancing, Op
<1>8. CASE Publish(p)
  BY <1>8, <1>a, <1>b, <1>h, <1>i, <1>j DEF Publish, Advancing, Op
<1>9. \/ Stage(p) \/ Revalidate(p) \/ Backup(p) \/ BackedUp(p) \/ Mark(p) \/ Exchange(p)
      \/ Displaced(p) \/ Publish(p)
  BY <1>a, <1>d, <1>e, <1>g
     DEF FileStep, Keep, Published, Discarded, AtOld, UndoReplaced, Swapped, UndoCreated,
         Quarantined, UndoMissing, Cleanup, Removed, EntryFails, BackupWrong, Discard,
         RemoveArtifact, Relink, DisplacedWrong, Swap, Quarantine, SwapBack,
         QuarantineWrong, NextEntry, Abort, Op
<1> QED
  BY <1>1, <1>2, <1>3, <1>4, <1>5, <1>6, <1>7, <1>8, <1>9

\* So is the one that is being put back.
LEMMA BackwardFile ==
    ASSUME TypeOK, PhaseInv, FreshInv, StandInv, BackwardInv, NEW p \in Target, FileStep(p)
    PROVE  BackwardInv'
<1> USE DEF FilePC, ServicePC, EntryPC, SameBut, world, Goto, GotoWith
<1>a. op \in Op /\ FileTurn(p) /\ p \in op.todo
  BY FilesTurn DEF TypeOK, FileTurn
<1>b. /\ \A f : \A n \in AllNames : Put(p, n, f) =>
            /\ at'[p][n] = f
            /\ \A m \in AllNames \ {n} : at'[p][m] = at[p][m]
      /\ AllNames = {"path", "backup", "stage", "replacement"}
      /\ FirstArtifact(p) \in AllNames \ {"path"}
      /\ at' = Exchanged(p) =>
            /\ at'[p].path = at[p].replacement /\ at'[p].replacement = at[p].path
            /\ at'[p].stage = at[p].stage /\ at'[p].backup = at[p].backup
  BY Written, Swapping DEF AllNames, Artifact, FirstArtifact
<1>c. UNCHANGED <<kind, edit, journal>> /\ \A q \in Target \ {p} : at'[q] = at[q]
  BY <1>a DEF FileTurn
<1>d. SUFFICES ASSUME op'.pc \in EntryPC PROVE BackwardInv'
  BY DEF BackwardInv, Retreating
<1>e. op.pc \in EntryPC /\ Last(p) /\ op'.todo \subseteq op.todo
  BY <1>a, <1>d, FilesMove DEF FileMove, FileTurn
<1>f. ASSUME NEW q \in op'.todo, q # p, Last(q)' PROVE Retreating(q)'
  <2>1. q \in op.todo
    BY <1>e, <1>f
  <2>2. op'.pc = "rollback"
    <3>1. SUFFICES ASSUME p \in op'.todo PROVE FALSE
      BY <1>a, <1>d, <1>e DEF FileTurn
    <3>2. q <= p /\ p <= q
      BY <1>e, <1>f, <2>1, <3>1 DEF Last
    <3> QED
      BY <1>a, <1>f, <2>1, <3>2, TargetsAssumption DEF Target, Op
  <2> QED
    BY <2>2 DEF Retreating
<1>g. SUFFICES ASSUME p \in op'.todo, edit[p] = "none" PROVE Retreating(p)'
  BY <1>c, <1>f DEF BackwardInv
<1>h. op'.todo = op.todo
  BY <1>a, <1>d, <1>e, <1>g DEF FileTurn
<1>i. Retreating(p) /\ Undoable(p)
  BY <1>a, <1>e, <1>g
     DEF BackwardInv, StandInv, Stands, PhaseInv, Undecided, AbortPC
<1>j. kind'[p] = kind[p] /\ edit'[p] = "none"
  BY <1>c, <1>g
<1>1. CASE AtOld(p)
  BY <1>1, <1>a, <1>j DEF AtOld, Prepared, Intact, Retreating, Op
<1>2. CASE UndoReplaced(p)
  BY <1>2, <1>a, <1>j DEF UndoReplaced, Overwritten, Intact, Retreating, Op
<1>3. CASE Swap(p)
  BY <1>3, <1>a, <1>b, <1>i, <1>j DEF Swap, Undoable, Retreating, Op
<1>4. CASE Swapped(p)
  BY <1>4, <1>a, <1>i, <1>j DEF Swapped, Retreating, Prepared, Intact, Op
<1>5. CASE UndoCreated(p)
  BY <1>5, <1>a, <1>j DEF UndoCreated, Created, Intact, Retreating, Op
<1>6. CASE Quarantine(p)
  BY <1>6, <1>a, <1>b, <1>i, <1>j DEF Quarantine, Retreating, Op
<1>7. CASE Quarantined(p)
  BY <1>7, <1>a, <1>i, <1>j DEF Quarantined, Retreating, Prepared, Op
<1>8. CASE UndoMissing(p)
  BY <1>8, <1>i DEF UndoMissing, Vanished, Undoable, TypeOK, Kind
<1>9. CASE Relink(p)
  BY <1>9, <1>i DEF Relink, Retreating
<1>10. CASE Cleanup(p)
  BY <1>10, <1>a, <1>i, <1>j DEF Cleanup, Retreating, Prepared, Intact, Op
<1>11. CASE RemoveArtifact(p)
  BY <1>11, <1>a, <1>b, <1>i, <1>j DEF RemoveArtifact, Retreating, Prepared, Intact, Op
<1>12. \/ AtOld(p) \/ UndoReplaced(p) \/ Swap(p) \/ Swapped(p) \/ UndoCreated(p)
       \/ Quarantine(p) \/ Quarantined(p) \/ UndoMissing(p) \/ Relink(p) \/ Cleanup(p)
       \/ RemoveArtifact(p)
  BY <1>a, <1>d, <1>e, <1>g
     DEF FileStep, Keep, Published, Discarded, Removed, EntryFails, BackupWrong, Discard,
         Stage, Revalidate, Backup, BackedUp, Mark, Exchange, Displaced, Publish,
         DisplacedWrong, SwapBack, QuarantineWrong, NextEntry, Abort, Op
<1> QED
  BY <1>1, <1>2, <1>3, <1>4, <1>5, <1>6, <1>7, <1>8, <1>9, <1>10, <1>11, <1>12

LEMMA BackFile ==
    ASSUME TypeOK, BackInv, NEW p \in Target, FileStep(p)
    PROVE  BackInv'
<1> USE DEF FilePC, ServicePC, EntryPC, SameBut, world, Goto, GotoWith
<1>a. op \in Op /\ FileTurn(p) /\ p \in op.todo
  BY FilesTurn DEF TypeOK, FileTurn
<1>b. UNCHANGED <<kind, edit, journal>> /\ \A q \in Target \ {p} : Prepared(q) => Prepared(q)'
  BY <1>a, SameTarget DEF FileTurn
<1>c. SUFFICES ASSUME op'.pc \in EntryPC, ~op'.failed PROVE BackInv'
  BY FilesMove DEF FileMove, BackInv
<1>d. op.pc \in EntryPC /\ ~op.failed /\ op'.todo \subseteq op.todo
  BY <1>a, <1>c, FilesMove DEF FileMove, FileTurn
<1>1. CASE op'.todo = op.todo
  BY <1>a, <1>b, <1>c, <1>d, <1>1 DEF BackInv
<1>2. CASE op'.todo # op.todo
  <2>1. Removed(p)
    BY <1>2, <1>a, <1>c, ZenonT(40)
       DEF FileStep, Keep, Revalidate, BackedUp, Displaced, Published, Discarded, AtOld,
           UndoReplaced, Swapped, UndoCreated, Quarantined, UndoMissing, Cleanup,
           Removed, EntryFails, Stage, Backup, Mark, Publish, BackupWrong, Discard,
           RemoveArtifact, Relink, Exchange, DisplacedWrong, Swap, Quarantine, SwapBack,
           QuarantineWrong, NextEntry, Abort, Op
  <2>2. Prepared(p)' /\ op'.todo = op.todo \ {p}
    BY <1>a, <2>1 DEF Removed, Prepared, Intact, Op
  <2> QED
    BY <1>b, <1>c, <1>d, <2>2 DEF BackInv
<1> QED
  BY <1>1, <1>2
\* Steps that leave the files alone,
LEMMA RestStep ==
    ASSUME Inv, CleanInv, RecoveryInv, [Next]_vars, UNCHANGED <<at, kind, edit>>, PlaceMove
    PROVE  ForwardInv' /\ BackwardInv' /\ BackInv'
<1> USE DEF FilePC, ServicePC, EntryPC, RecoveryInv
<1>a. op \in Op /\ \A q \in Target : Prepared(q) => Prepared(q)'
  BY SameTarget DEF Inv, TypeOK
<1>1. ForwardInv'
  <2>1. SUFFICES ASSUME op'.pc \in FilePC \cup ServicePC PROVE ForwardInv'
    BY DEF ForwardInv, Advancing
  <2>2. op.pc \in {"stage"} \cup ServicePC /\ op'.todo = op.todo /\ op'.pc \in {"stage"} \cup ServicePC
    BY <2>1 DEF PlaceMove
  <2> QED
    BY <1>a, <2>2 DEF ForwardInv, Advancing, Op
<1>2. op'.pc \in EntryPC => op.pc = "quiesce" /\ op'.pc = "rollback" /\ op'.todo = op.todo
  BY DEF PlaceMove
<1>3. BackwardInv'
  BY <1>2 DEF BackwardInv, Retreating
<1>4. BackInv'
  <2>1. CASE op'.pc \in EntryPC
    BY <1>2, <2>1 DEF BackInv, CleanInv
  <2>2. CASE op'.pc = "restoreScheduled"
    <3>1. op.pc = "rollback" /\ op.todo = {} /\ ~op.failed
      BY <2>2 DEF PlaceMove
    <3> QED
      BY <1>a, <2>2, <3>1 DEF BackInv
  <2>3. CASE op'.pc = "restoreActive"
    <3>1. op.pc = "restoreScheduled" /\ (op'.failed \/ op'.failed = op.failed)
      BY <2>3 DEF PlaceMove
    <3> QED
      BY <1>a, <2>3, <3>1 DEF BackInv
  <2>4. CASE op'.pc = "restored"
    <3>1. op.pc = "restoreActive" /\ ~op.failed
      BY <2>4 DEF PlaceMove
    <3> QED
      BY <1>a, <2>4, <3>1 DEF BackInv
  <2> QED
    BY <2>1, <2>2, <2>3, <2>4 DEF BackInv
<1> QED
  BY <1>1, <1>3, <1>4

\* and all others.
LEMMA RecoveryStep ==
    ASSUME Inv, FreshInv, CleanInv, RecoveryInv, [Next]_vars
    PROVE  StandInv' /\ ForwardInv' /\ BackwardInv' /\ BackInv'
<1>a. op \in Op
  BY DEF Inv, TypeOK
<1>1. CASE Others
  <2>1. PICK p \in Target : EditMove(p)
    BY <1>1, OthersMove DEF Inv
  <2>2. op' = op /\ journal' = journal /\ kind' = kind /\ edit'[p] # "none"
    BY <2>1 DEF EditMove
  <2>3. ASSUME NEW q \in Target, edit'[q] = "none"
        PROVE  /\ edit[q] = "none" /\ at'[q] = at[q]
               /\ Prepared(q) => Prepared(q)'
               /\ Stands(q) => Stands(q)'
    <3>1. edit[q] = "none" /\ edit'[q] = edit[q] /\ at'[q] = at[q]
      BY <2>1, <2>2, <2>3 DEF EditMove
    <3> QED
      BY <2>2, <3>1, SameTarget DEF Inv, Stands
  <2>4. StandInv'
    BY <2>2, <2>3 DEF StandInv, RecoveryInv
  <2>5. ForwardInv'
    BY <1>a, <2>2, <2>3 DEF ForwardInv, RecoveryInv, Advancing, First, Op
  <2>6. BackwardInv'
    BY <1>a, <2>2, <2>3 DEF BackwardInv, RecoveryInv, Retreating, Last, Op
  <2>7. BackInv'
    BY <2>2, <2>3 DEF BackInv, RecoveryInv
  <2> QED
    BY <2>4, <2>5, <2>6, <2>7
<1>2. CASE UNCHANGED vars
  BY <1>2 DEF vars, RecoveryInv, StandInv, Stands, Undoable, Finishable, Clean, ForwardInv, Advancing,
              First, BackwardInv, Retreating, Last, BackInv, Prepared, Intact
<1>3. ASSUME NEW p \in Target, FileStep(p) PROVE StandInv' /\ ForwardInv' /\ BackwardInv' /\ BackInv'
  BY <1>3, StandFile, ForwardFile, BackwardFile, BackFile DEF Inv, RecoveryInv
<1>4. ASSUME NEW kinds \in [Target -> Kind], NEW manager \in Managers, Prepare(kinds, manager)
      PROVE  StandInv' /\ ForwardInv' /\ BackwardInv' /\ BackInv'
  <2>1. /\ journal' # NoJournal /\ ~journal'.committed
        /\ op'.pc \in {"idle", "stage"}
    BY <1>4, WrittenFirst DEF Inv
  <2>2. ASSUME NEW q \in Target PROVE Prepared(q)' /\ Undoable(q)'
    <3>1. /\ at'[q] = At(IF kind'[q] = "created" THEN "none" ELSE "before")
          /\ edit'[q] = "none"
      BY <1>4 DEF Prepare
    <3> QED
      BY <3>1 DEF Prepared, Undoable, Intact, Clean, At, Artifact
  <2>3. op'.pc = "stage" => op'.todo = Target
    BY <1>4, Beginning DEF Inv
  <2> QED
    BY <2>1, <2>2, <2>3 DEF StandInv, Stands, ForwardInv, Advancing, BackwardInv, Retreating, BackInv,
         FilePC, ServicePC, EntryPC
<1>5. CASE UNCHANGED <<at, kind, edit>> /\ PlaceMove
  <2>1. ASSUME journal' # NoJournal, NEW q \in Target, edit'[q] = "none"
        PROVE  Stands(q)'
    <3>1. /\ Undoable(q)' <=> Undoable(q)
          /\ Finishable(q)' <=> Finishable(q)
          /\ edit[q] = "none"
      BY <1>5, <2>1, SameTarget DEF Inv
    <3>2. CASE \E kinds \in [Target -> Kind], manager \in Managers : Prepare(kinds, manager)
      BY <1>4, <2>1, <3>2 DEF StandInv
    <3>3. CASE /\ journal # NoJournal /\ (journal.committed => journal'.committed)
               /\ journal'.committed => journal.committed \/ \A p \in Target : Final(p)
      <4>1. Stands(q) /\ kind[q] \in Kind
        BY <3>1, <3>3 DEF RecoveryInv, StandInv, Inv, TypeOK
      <4>2. Final(q) /\ Undoable(q) => Finishable(q)
        BY <3>1, <4>1 DEF Final, Intact, Undoable, Finishable, Kind, Clean, Artifact
      <4> QED
        BY <3>1, <3>3, <4>1, <4>2 DEF Stands
    <3> QED
      BY <2>1, <3>2, <3>3, JournalMoves
  <2> QED
    BY <1>5, <2>1, RestStep DEF StandInv
<1> QED
  BY OtherMoves, <1>1, <1>2, <1>3, <1>4, <1>5

\* A recovery keeps the flags that it has read from the journal.
LEMMA AgreedStep == Inv /\ AgreedInv /\ [Next]_vars => AgreedInv'
<1> SUFFICES ASSUME Inv, AgreedInv, [Next]_vars PROVE AgreedInv'
  OBVIOUS
<1> USE DEF FilePC, ServicePC, EntryPC, AbortPC, FinalizePC, Inv, AgreedInv, Goto, GotoWith,
            Return, Abort, SameBut, world
<1>a. op \in Op /\ journal \in Journal \cup {NoJournal}
  BY DEF TypeOK
<1>b. Idle \in Op /\ Idle.pc = "idle" /\ ~Idle.unsaved /\ ~Idle.recovering
  BY DEF Idle, Op, OpPC, Untouched, Flags
<1>c. \A pc \in {"prepare", "read"} :
         AfterRecovery(pc).pc = pc /\ ~AfterRecovery(pc).recovering
  BY <1>a, <1>b DEF AfterRecovery, Op
<1>1. CASE LoadNothing \/ LoadRefuses \/ LoadUncommitted \/ LoadCommitted \/ Read \/ Started
  BY <1>1, <1>a, <1>b DEF LoadNothing, LoadRefuses, LoadUncommitted, LoadCommitted, Read,
     Started, Begin, Op
<1>2. CASE Serve \/ NoService \/ NoLogin \/ Applied \/ Finalize \/ CannotFinalize
  BY <1>2, <1>a, <1>b, ZenonT(40) DEF Serve, NoService, NoLogin, Applied, Finalize, CannotFinalize, Op
<1>3. CASE Enable \/ Start \/ Login \/ Quiesce \/ RestoreScheduled \/ RestoreActive
  BY <1>3, <1>a, <1>b, ZenonT(40) DEF Enable, Start, Login, Quiesce, RestoreScheduled, RestoreActive,
     Command, Op
<1>4. CASE Forget \/ Restored
  BY <1>4, <1>a, <1>b, <1>c DEF Forget, Restored
<1>5. CASE RolledBack \/ CannotFinish \/ Stop \/ Refuse \/ Fail \/ WriteFails
  BY <1>5, <1>a, <1>b, ZenonT(40) DEF RolledBack, CannotFinish, Stop, Refuse, Fail, WriteFails, Op
<1>6. CASE QuiesceFails \/ RestoreFails \/ CommandFailsStep
  BY <1>6, <1>a, <1>b, ZenonT(40) DEF QuiesceFails, RestoreFails, CommandFailsStep, CommandFails, Op
<1>7. CASE AnnounceStep
  BY <1>7, <1>a, ZenonT(40) DEF AnnounceStep, AnnounceEnable, AnnounceStart, AnnounceLogin, Announce,
     AnnounceFails, Op
<1>8. CASE Commit \/ CommitUnknown
  BY <1>8, <1>a, <1>b DEF Commit, CommitUnknown, Op
<1>9. ASSUME NEW p \in Target, FileStep(p) PROVE AgreedInv'
  BY <1>9, FilesMove DEF FileMove
<1>10. ASSUME NEW kinds \in [Target -> Kind], NEW manager \in Managers, Prepare(kinds, manager)
       PROVE  AgreedInv'
  <2>1. op' = [Idle EXCEPT !.pc = "stage", !.todo = Target] \/ op' = Idle
    BY <1>10 DEF Prepare
  <2> QED
    BY <1>b, <2>1 DEF Op
<1>11. CASE Others
  BY <1>11 DEF Others, Edit
<1>12. CASE UNCHANGED vars
  BY <1>12 DEF vars
<1> QED
  BY NextCases, <1>1, <1>2, <1>3, <1>4, <1>5, <1>6, <1>7, <1>8, <1>9, <1>10, <1>11, <1>12

LEMMA RecoveryInitially == Init => RecoveryInv
<1> SUFFICES ASSUME Init PROVE RecoveryInv
  OBVIOUS
<1>1. /\ op.pc = "idle" /\ op.todo = {} /\ ~op.unsaved /\ ~op.recovering
      /\ journal = NoJournal
  BY DEF Init, Idle
<1> QED
  BY <1>1 DEF RecoveryInv, StandInv, ForwardInv, BackwardInv, BackInv, AgreedInv, EntryPC

LEMMA RecoveryInvariance == Spec => [](Inv /\ FilesInv /\ RecoveryInv)
<1>1. Inv /\ FilesInv /\ RecoveryInv /\ [Next]_vars => Inv' /\ FilesInv' /\ RecoveryInv'
  BY Inductive, FreshStep, BackupStep, RemovalStep, LossStep, CleanStep, WholeStep,
     RecoveryStep, AgreedStep
     DEF FilesInv, LossInv, RecoveryInv
<1> QED
  BY Initially, FilesInitially, RecoveryInitially, <1>1, PTL DEF Spec

\* Unless somebody else has changed a target, no call of a recovery is refused, at
\* no target and not at its end, whatever failed or was cut off before, however
\* often (rollbackSetupEntry, validateSetupArtifactsInParent).
THEOREM NeverRefused == Spec => []Recoverable
<1>1. Inv /\ RecoveryInv => Recoverable
  <2> SUFFICES ASSUME Inv, RecoveryInv, op.recovering, \A p \in Target : edit[p] = "none"
               PROVE  /\ \A p \in Target : Last(p) => Passes(p)
                      /\ op.pc = "restored" =>
                            /\ \A p \in Target : Prepared(p)
                            /\ ~op.unsaved /\ op.flags = journal.flags
                      /\ op.pc = "finalize" => Finalizable
                      /\ op.pc = "forget" => \A p \in Target : Final(p)
    BY DEF Recoverable
  <2> USE DEF RecoveryInv, AbortPC, EntryPC, FinalizePC, PhaseInv, Undecided, Decided
  <2>1. ASSUME NEW p \in Target, Last(p) PROVE Passes(p)
    <3>1. SUFFICES ASSUME op.pc \in EntryPC PROVE Passes(p)
      BY DEF Passes
    <3>2. Undoable(p) /\ Retreating(p) /\ kind[p] \in Kind /\ edit[p] = "none"
      BY <2>1, <3>1 DEF StandInv, Stands, BackwardInv, Last, Inv, TypeOK
    <3>3. op.pc = "rollback" => Prepared(p) \/ Overwritten(p) \/ Created(p)
      BY <3>2 DEF Undoable, Prepared, Overwritten, Created, Intact, Kind
    <3>4. op.pc = "cleanup" => ArtifactsValid(p, "after")
      BY <3>2 DEF Undoable, Retreating, Prepared, ArtifactsValid, Intact, Kind, Clean, Artifact
    <3>5. /\ op.pc \in {"swap", "quarantine"} => at[p].path # "none"
          /\ op.pc = "quarantine" => at[p].replacement = "none"
          /\ op.pc = "swapped" => Intact(p, "replacement", "after") /\ at[p].path = "before"
          /\ op.pc = "quarantined" => Intact(p, "replacement", "after") /\ at[p].path = "none"
      BY <3>2 DEF Undoable, Retreating, Intact
    <3> QED
      BY <3>2, <3>3, <3>4, <3>5 DEF Passes, Retreating
  <2>2. op.pc = "restored" =>
           (\A p \in Target : Prepared(p)) /\ ~op.unsaved /\ op.flags = journal.flags
    BY DEF BackInv, AgreedInv
  <2>3. ASSUME op.pc \in {"finalize", "forget"}, NEW p \in Target
        PROVE  /\ Final(p)
               /\ ArtifactsValid(p, IF kind[p] = "created" THEN "after" ELSE "before")
    <3>1. Finishable(p) /\ kind[p] \in Kind /\ edit[p] = "none"
      BY <2>3 DEF StandInv, Stands, Inv, TypeOK
    <3> QED
      BY <3>1 DEF Finishable, Final, ArtifactsValid, Intact, Kind, Clean, Artifact
  <2> QED
    BY <2>1, <2>2, <2>3 DEF Finalizable
<1> QED
  BY <1>1, RecoveryInvariance, PTL
=============================================================================
