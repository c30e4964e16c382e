------------------------------ MODULE SetupProofs ------------------------------
(***************************************************************************)
(* A committed setup is final, and an undone one leaves the service as it  *)
(* was, for any number of targets and whatever fails, dies or is changed   *)
(* by others.                                                              *)
(***************************************************************************)
EXTENDS SetupProperties, TLAPS

Undecided == journal # NoJournal /\ ~journal.committed
Decided == journal # NoJournal /\ journal.committed

\* Which journal is there at which place of the operation.
PhaseInv ==
    /\ op.pc \in FilePC \cup ServicePC \cup AbortPC \cup {"commit"} => Undecided
    /\ op.pc \in FinalizePC => Decided
    /\ op.pc \in {"read", "prepare"} => journal = NoJournal

\* Homebrew starts and schedules a service in one, without a manager there is none.
FlagsFit(flags) ==
    /\ journal.manager = "brew" => (flags.scheduled <=> flags.active)
    /\ journal.manager = "none" => ~flags.active /\ ~flags.scheduled

\* What a setup has touched is what its manager lets it touch.
ManagerInv ==
    /\ journal # NoJournal => FlagsFit(journal.flags)
    /\ op.pc \in FilePC \cup ServicePC \cup AbortPC \cup {"commit"} => FlagsFit(op.flags)
    /\ op.pc \in {"service", "enable"} => journal.manager = "systemd"

\* What is known of service and login where they matter.
ServiceInv ==
    /\ Undecided =>
          /\ service.login => journal.flags.login
          /\ journal.manager = "brew" /\ journal.prior.scheduled => journal.prior.active
    /\ op.pc \in FilePC \cup ServicePC => (journal.flags.login => op.flags.login)
    /\ op.pc = "loggingIn" => journal.flags.login
    /\ op.pc \in EntryPC \cup {"restoreScheduled", "restoreActive"} =>
          (op.flags.active => ~service.active)
    /\ op.pc = "restoreScheduled" => ~op.failed
    /\ op.pc = "restoreActive" /\ ~op.failed /\ op.flags.scheduled =>
          /\ ~journal.prior.scheduled => ~service.scheduled
          /\ journal.manager # "brew" => (service.scheduled <=> journal.prior.scheduled)
    /\ op.pc = "restored" =>
          /\ op.flags.active => (service.active <=> journal.prior.active)
          /\ op.flags.scheduled => (service.scheduled <=> journal.prior.scheduled)

\* What Commanded does is well typed, only the login command logs in, and
\* restoring the schedule starts nothing.
LEMMA CommandedType ==
    ASSUME TypeOK, journal # NoJournal,
           NEW pc \in {"enable", "start", "loggingIn", "quiesce", "restoreScheduled",
                       "restoreActive"}
    PROVE  /\ Commanded(pc) \in Flags
           /\ pc # "loggingIn" => (Commanded(pc).login <=> service.login)
           /\ pc = "restoreScheduled" => (Commanded(pc).active => service.active)
<1> USE DEF TypeOK, Flags, Journal, Op, Brew, Stopped
<1>1. service \in Flags /\ op.flags \in Flags /\ journal.prior \in Flags
  OBVIOUS
<1>2. CASE pc = "enable"
  BY <1>1, <1>2 DEF Commanded
<1>3. CASE pc = "start"
  BY <1>1, <1>3 DEF Commanded
<1>4. CASE pc = "loggingIn"
  BY <1>1, <1>4 DEF Commanded
<1>5. CASE pc = "quiesce"
  BY <1>1, <1>5 DEF Commanded
<1>6. CASE pc = "restoreScheduled"
  BY <1>1, <1>6 DEF Commanded
<1>7. CASE pc = "restoreActive"
  BY <1>1, <1>7 DEF Commanded
<1> QED
  BY <1>2, <1>3, <1>4, <1>5, <1>6, <1>7

\* A file under one name, or two exchanged, is still a file under its name.
LEMMA NamesType ==
    ASSUME TypeOK, NEW p \in Target
    PROVE  /\ Exchanged(p) \in [Target -> Names]
           /\ \A n \in Artifact \cup {"path"}, f \in File :
                 Put(p, n, f) => at' \in [Target -> Names]
<1> USE DEF TypeOK, Names, Artifact
<1>1. at[p] \in Names
  OBVIOUS
<1>2. [at[p] EXCEPT !.path = at[p].replacement, !.replacement = at[p].path] \in Names
  BY <1>1
<1>3. Exchanged(p) \in [Target -> Names]
  BY <1>2 DEF Exchanged
<1>4. ASSUME NEW n \in Artifact \cup {"path"}, NEW f \in File, Put(p, n, f)
      PROVE  at' \in [Target -> Names]
  <2>1. [at[p] EXCEPT ![n] = f] \in Names
    BY <1>1
  <2> QED
    BY <2>1, <1>4 DEF Put
<1> QED
  BY <1>3, <1>4

\* A journal that is written is valid.
LEMMA PreparedJournal ==
    ASSUME TypeOK, NEW manager \in Managers
    PROVE  LET j == [committed |-> FALSE, manager |-> manager, prior |-> Captured(manager),
                     flags |-> Untouched]
           IN  j \in Journal /\ ValidJournal(j) /\ j # NoJournal
<1>1. Untouched \in Flags
  BY DEF Untouched, Flags
<1>2. Captured(manager) \in Flags
  BY <1>1 DEF Captured, TypeOK, Flags
<1> DEFINE j == [committed |-> FALSE, manager |-> manager, prior |-> Captured(manager),
                 flags |-> Untouched]
<1>3. j \in Journal
  BY <1>1, <1>2 DEF Journal
<1>4. ~j.flags.active /\ ~j.flags.scheduled
  BY DEF Untouched
<1> QED
  BY <1>3, <1>4, NoJournalAssumption DEF ValidJournal

\* So are the flags that a setup announces, and the journal with them.
LEMMA FlagsType ==
    ASSUME TypeOK, journal # NoJournal, FlagsFit(op.flags)
    PROVE  /\ {Scheduling, Activating, LoggingIn} \subseteq Flags
           /\ journal.manager = "systemd" => FlagsFit(Scheduling)
           /\ journal.manager # "none" => FlagsFit(Activating)
           /\ FlagsFit(LoggingIn)
           /\ LoggingIn.login
           /\ op.flags.login => Scheduling.login /\ Activating.login
<1> USE DEF TypeOK, Flags, Op
<1>1. op.flags \in Flags
  OBVIOUS
<1>2. Scheduling \in Flags /\ (journal.manager = "systemd" => FlagsFit(Scheduling))
         /\ (op.flags.login => Scheduling.login)
  BY <1>1 DEF Scheduling, FlagsFit
<1>3. Activating \in Flags /\ (journal.manager # "none" => FlagsFit(Activating))
         /\ (op.flags.login => Activating.login)
  BY <1>1 DEF Activating, Brew, FlagsFit
<1>4. LoggingIn \in Flags /\ FlagsFit(LoggingIn) /\ LoggingIn.login
  BY <1>1 DEF LoggingIn, FlagsFit
<1> QED
  BY <1>2, <1>3, <1>4

LEMMA AnnouncedType ==
    ASSUME TypeOK, journal # NoJournal, NEW flags \in Flags, FlagsFit(flags)
    PROVE  LET j == [journal EXCEPT !.flags = flags]
           IN  j \in Journal /\ j # NoJournal /\ ValidJournal(j)
<1> DEFINE j == [journal EXCEPT !.flags = flags]
<1>1. journal \in Journal
  BY DEF TypeOK
<1>2. j \in Journal /\ j.flags = flags /\ j.manager = journal.manager
  BY <1>1 DEF Journal
<1> QED
  BY <1>2, NoJournalAssumption DEF ValidJournal, FlagsFit

\* Every step keeps the types,
LEMMA TypeStep == TypeOK /\ PhaseInv /\ ManagerInv /\ [Next]_vars => TypeOK'
<1> SUFFICES ASSUME TypeOK, PhaseInv, ManagerInv, [Next]_vars PROVE TypeOK'
  OBVIOUS
<1> USE NoJournalAssumption
    DEF OpPC, FilePC, ServicePC, EntryPC, AbortPC, FinalizePC, Undecided, Decided, PhaseInv,
        ValidJournal, Goto, GotoWith, Return, SameBut, world
<1>a. op \in Op /\ op.flags \in Flags /\ Idle \in Op /\ Untouched \in Flags
  BY DEF TypeOK, Op, Flags, Idle, Untouched
<1>b. Idle.pc = "idle"
  BY DEF Idle
<1>c. ASSUME NEW pc \in {"prepare", "read"}
      PROVE  AfterRecovery(pc) \in Op /\ AfterRecovery(pc).pc = pc
  <2>1. op.kind \in {"setup", "load"}
    BY <1>a DEF Op
  <2> QED
    BY <1>a, <2>1 DEF AfterRecovery, Op
<1>1. CASE Started
  BY <1>1, ZenonT(40) DEF Started, Begin, TypeOK, Op
<1>2. CASE LoadNothing
  BY <1>2 DEF LoadNothing, TypeOK, Op
<1>3. CASE LoadRefuses
  BY <1>3, <1>a, <1>b DEF LoadRefuses, TypeOK, Op
<1>4. CASE LoadUncommitted
  BY <1>4 DEF LoadUncommitted, TypeOK, Op, Journal
<1>5. CASE LoadCommitted
  BY <1>5 DEF LoadCommitted, TypeOK, Op, Journal
<1>6. CASE Read
  BY <1>6, <1>a, <1>b DEF Read, TypeOK, Op
<1>7. CASE Serve
  BY <1>7 DEF Serve, TypeOK, Op
<1>8. CASE NoService
  BY <1>8 DEF NoService, TypeOK, Op
<1>9. CASE NoLogin
  BY <1>9 DEF NoLogin, TypeOK, Op
<1>10. CASE Applied
  BY <1>10 DEF Applied, TypeOK, Op
<1>11. CASE Finalize
  BY <1>11 DEF Finalize, TypeOK, Op
<1>12. CASE CannotFinalize
  BY <1>12, <1>a, <1>b DEF CannotFinalize, TypeOK, Op
<1>13. CASE RolledBack
  BY <1>13, <1>a, <1>b DEF RolledBack, TypeOK, Op
<1>14. CASE CannotFinish
  BY <1>14, <1>a, <1>b DEF CannotFinish, TypeOK, Op
<1>15. CASE Forget
  BY <1>15, <1>a, <1>b, <1>c DEF Forget, TypeOK, Op
<1>16. CASE Restored
  BY <1>16, <1>a, <1>b, <1>c DEF Restored, TypeOK, Op
<1>17. CASE Refuse
  BY <1>17, <1>a, <1>b DEF Refuse, TypeOK, Op
<1>18. CASE Stop
  BY <1>18, <1>a, <1>b DEF Stop, TypeOK, Op
<1>19. CASE Fail
  BY <1>19 DEF Fail, Abort, TypeOK, Op
<1>20. CASE WriteFails
  BY <1>20 DEF WriteFails, TypeOK, Op
<1>21. ASSUME NEW p \in Target, Stage(p) PROVE TypeOK'
  BY <1>21, NamesType DEF Stage, TypeOK, Op, Names, File, Artifact
<1>22. ASSUME NEW p \in Target, Keep(p) PROVE TypeOK'
  BY <1>22 DEF Keep, TypeOK, Op
<1>23. ASSUME NEW p \in Target, Revalidate(p) PROVE TypeOK'
  BY <1>23 DEF Revalidate, TypeOK, Op
<1>24. ASSUME NEW p \in Target, Backup(p) PROVE TypeOK'
  <2>1. at[p].path \in File
    BY DEF TypeOK, Names
  <2>2. at' \in [Target -> Names]
    BY <1>24, <2>1, NamesType DEF Backup, Artifact
  <2> QED
    BY <1>24, <2>2 DEF Backup, TypeOK, Op
<1>25. ASSUME NEW p \in Target, BackedUp(p) PROVE TypeOK'
  BY <1>25 DEF BackedUp, TypeOK, Op
<1>26. ASSUME NEW p \in Target, BackupWrong(p) PROVE TypeOK'
  BY <1>26, NamesType DEF BackupWrong, TypeOK, Op, Names, File, Artifact, Abort
<1>27. ASSUME NEW p \in Target, Mark(p) PROVE TypeOK'
  BY <1>27, NamesType DEF Mark, TypeOK, Op, Names, File, Artifact
<1>28. ASSUME NEW p \in Target, Exchange(p) PROVE TypeOK'
  BY <1>28, NamesType DEF Exchange, TypeOK, Op, Names, File, Artifact
<1>29. ASSUME NEW p \in Target, Displaced(p) PROVE TypeOK'
  BY <1>29 DEF Displaced, TypeOK, Op
<1>30. ASSUME NEW p \in Target, DisplacedWrong(p) PROVE TypeOK'
  BY <1>30, NamesType DEF DisplacedWrong, TypeOK, Op, Names, File, Artifact, Abort
<1>31. ASSUME NEW p \in Target, Publish(p) PROVE TypeOK'
  BY <1>31, NamesType DEF Publish, TypeOK, Op, Names, File, Artifact
<1>32. ASSUME NEW p \in Target, Published(p) PROVE TypeOK'
  BY <1>32 DEF Published, TypeOK, Op
<1>33. ASSUME NEW p \in Target, Discard(p) PROVE TypeOK'
  BY <1>33, NamesType DEF Discard, TypeOK, Op, Names, File, Artifact, FirstArtifact
<1>34. ASSUME NEW p \in Target, Discarded(p) PROVE TypeOK'
  BY <1>34 DEF Discarded, TypeOK, Op
<1>35. ASSUME NEW p \in Target, AtOld(p) PROVE TypeOK'
  BY <1>35 DEF AtOld, TypeOK, Op
<1>36. ASSUME NEW p \in Target, UndoReplaced(p) PROVE TypeOK'
  BY <1>36 DEF UndoReplaced, TypeOK, Op
<1>37. ASSUME NEW p \in Target, Swap(p) PROVE TypeOK'
  BY <1>37, NamesType DEF Swap, TypeOK, Op, Names, File, Artifact
<1>38. ASSUME NEW p \in Target, Swapped(p) PROVE TypeOK'
  BY <1>38 DEF Swapped, TypeOK, Op
<1>39. ASSUME NEW p \in Target, SwapBack(p) PROVE TypeOK'
  BY <1>39, NamesType DEF SwapBack, TypeOK, Op, Names, File, Artifact, NextEntry
<1>40. ASSUME NEW p \in Target, UndoCreated(p) PROVE TypeOK'
  BY <1>40 DEF UndoCreated, TypeOK, Op
<1>41. ASSUME NEW p \in Target, Quarantine(p) PROVE TypeOK'
  BY <1>41, NamesType DEF Quarantine, TypeOK, Op, Names, File, Artifact
<1>42. ASSUME NEW p \in Target, Quarantined(p) PROVE TypeOK'
  BY <1>42 DEF Quarantined, TypeOK, Op
<1>43. ASSUME NEW p \in Target, QuarantineWrong(p) PROVE TypeOK'
  BY <1>43, NamesType DEF QuarantineWrong, TypeOK, Op, Names, File, Artifact, NextEntry
<1>44. ASSUME NEW p \in Target, UndoMissing(p) PROVE TypeOK'
  BY <1>44 DEF UndoMissing, TypeOK, Op
<1>45. ASSUME NEW p \in Target, Relink(p) PROVE TypeOK'
  BY <1>45, NamesType DEF Relink, TypeOK, Op, Names, File, Artifact
<1>46. ASSUME NEW p \in Target, Cleanup(p) PROVE TypeOK'
  BY <1>46 DEF Cleanup, TypeOK, Op
<1>47. ASSUME NEW p \in Target, RemoveArtifact(p) PROVE TypeOK'
  BY <1>47, NamesType DEF RemoveArtifact, TypeOK, Op, Names, File, Artifact, FirstArtifact
<1>48. ASSUME NEW p \in Target, Removed(p) PROVE TypeOK'
  BY <1>48 DEF Removed, TypeOK, Op
<1>49. ASSUME NEW p \in Target, EntryFails(p) PROVE TypeOK'
  BY <1>49 DEF EntryFails, TypeOK, Op, NextEntry
<1>50. ASSUME NEW pc \in ServicePC, NEW flags \in Flags, NEW next \in ServicePC,
              FlagsFit(flags), Announce(pc, flags, next)
       PROVE  TypeOK'
  <2>1. journal' \in Journal /\ journal' # NoJournal /\ ValidJournal(journal')
    BY <1>50, AnnouncedType DEF Announce
  <2>2. op' \in Op
    BY <1>50, <1>a DEF Announce, Op
  <2> QED
    BY <2>1, <2>2, <1>50 DEF Announce, TypeOK
<1>51. ASSUME NEW pc \in ServicePC, NEW flags \in Flags, FlagsFit(flags), AnnounceFails(pc, flags)
       PROVE  TypeOK'
  <2>1. journal' \in Journal /\ journal' # NoJournal /\ ValidJournal(journal')
    BY <1>51, AnnouncedType DEF AnnounceFails, TypeOK
  <2>2. op' \in Op
    BY <1>51, <1>a DEF AnnounceFails, Op
  <2> QED
    BY <2>1, <2>2, <1>51 DEF AnnounceFails, TypeOK
<1>52. CASE AnnounceEnable
  BY <1>52, <1>50, FlagsType DEF AnnounceEnable, Announce, ManagerInv
<1>53. CASE AnnounceStart
  BY <1>53, <1>50, FlagsType DEF AnnounceStart, Announce, ManagerInv
<1>54. CASE AnnounceLogin
  BY <1>54, <1>50, FlagsType DEF AnnounceLogin, Announce, ManagerInv
<1>55. CASE Enable \/ Start \/ Login \/ Quiesce \/ RestoreScheduled \/ RestoreActive
  <2>1. PICK pc \in {"enable", "start", "loggingIn", "quiesce", "restoreScheduled",
                     "restoreActive"} : Command(pc)
    BY <1>55 DEF Enable, Start, Login, Quiesce, RestoreScheduled, RestoreActive
  <2>2. service' \in Flags /\ journal # NoJournal
    BY <2>1, CommandedType DEF Command
  <2>3. CASE Enable \/ Start \/ Login \/ Quiesce \/ RestoreScheduled
    <3>1. \/ op' = [op EXCEPT !.pc = "stage", !.served = TRUE]
          \/ \E next \in {"action", "login", "rollback", "restoreActive"} :
                op' = [op EXCEPT !.pc = next]
      BY <2>3 DEF Enable, Start, Login, Quiesce, RestoreScheduled
    <3>2. [op EXCEPT !.pc = "stage", !.served = TRUE] \in Op
      BY <1>a DEF Op
    <3>3. \A next \in {"action", "login", "rollback", "restoreActive"} :
             [op EXCEPT !.pc = next] \in Op
      BY <1>a DEF Op
    <3> QED
      BY <2>1, <2>2, <3>1, <3>2, <3>3 DEF Command, TypeOK
  <2>4. CASE RestoreActive
    <3>1. op' = Idle \/ op' = [op EXCEPT !.pc = "restored"]
      BY <2>4 DEF RestoreActive
    <3>2. op' \in Op
      BY <3>1, <1>a DEF Op
    <3> QED
      BY <2>1, <2>2, <3>2 DEF Command, TypeOK
  <2> QED
    BY <1>55, <2>3, <2>4
<1>56. CASE \/ QuiesceFails \/ RestoreFails
            \/ \E pc \in {"enable", "start", "loggingIn"} : CommandFails(pc) /\ Abort
  <2>1. PICK pc \in {"enable", "start", "loggingIn", "quiesce", "restoreScheduled",
                     "restoreActive"} : CommandFails(pc)
    BY <1>56 DEF QuiesceFails, RestoreFails
  <2>2. [service EXCEPT !.active = FALSE] \in Flags
    BY DEF TypeOK, Flags
  <2>3. service' \in Flags /\ journal # NoJournal
    BY <2>1, <2>2, CommandedType DEF CommandFails, TypeOK
  <2>4. \/ op' = Idle
        \/ op' = [op EXCEPT !.pc = "restoreActive", !.failed = TRUE]
        \/ op' = [op EXCEPT !.pc = "quiesce", !.todo = Target]
    BY <1>56 DEF QuiesceFails, RestoreFails, Abort
  <2>5. /\ [op EXCEPT !.pc = "restoreActive", !.failed = TRUE] \in Op
        /\ [op EXCEPT !.pc = "quiesce", !.todo = Target] \in Op
    BY <1>a DEF Op
  <2> QED
    BY <1>a, <2>1, <2>3, <2>4, <2>5 DEF CommandFails, TypeOK
<1>57. CASE ServiceFails
  BY <1>57, <1>51, <1>56, FlagsType DEF ServiceFails, AnnounceFails, ManagerInv
<1>58. CASE Commit \/ CommitUnknown
  <2>1. [journal EXCEPT !.committed = TRUE] \in Journal
    BY <1>58 DEF Commit, CommitUnknown, TypeOK, Journal
  <2>2. journal' \in Journal /\ journal'.manager = journal.manager /\ journal'.flags = journal.flags
    BY <1>58, <2>1 DEF Commit, CommitUnknown, TypeOK, Journal
  <2>3. op' \in Op
    BY <1>58, <1>a DEF Commit, CommitUnknown, Op
  <2> QED
    BY <1>58, <2>2, <2>3 DEF Commit, CommitUnknown, TypeOK
<1>59. ASSUME NEW k \in [Target -> Kind], NEW manager \in Managers, Prepare(k, manager)
       PROVE  TypeOK'
  <2>1. journal' \in Journal /\ ValidJournal(journal') /\ journal' # NoJournal
    BY <1>59, PreparedJournal DEF Prepare
  <2>2. op' \in Op
    BY <1>59, <1>a, ZenonT(40) DEF Prepare, Op
  <2>3. service' \in Flags
    BY <1>59 DEF Prepare, TypeOK, Flags
  <2>4. at' \in [Target -> Names]
    BY <1>59 DEF Prepare, At, Names, File
  <2> QED
    BY <1>59, <2>1, <2>2, <2>3, <2>4 DEF Prepare, TypeOK
<1>60. CASE Others
  <2>1. PICK p \in Target, e \in {"replaced", "removed", "before", "after"} : Edit(p, e)
    BY <1>60 DEF Others
  <2>2. at' \in [Target -> Names]
    BY <2>1, NamesType DEF Edit, File, TypeOK
  <2> QED
    BY <2>1, <2>2 DEF Edit, TypeOK
<1>61. CASE UNCHANGED vars
  BY <1>61 DEF vars, TypeOK
<1> QED
  BY <1>1, <1>2, <1>3, <1>4, <1>5, <1>6, <1>7, <1>8, <1>9, <1>10, <1>11, <1>12, <1>13,
     <1>14, <1>15, <1>16, <1>17, <1>18, <1>19, <1>20, <1>21, <1>22, <1>23, <1>24, <1>25,
     <1>26, <1>27, <1>28, <1>29, <1>30, <1>31, <1>32, <1>33, <1>34, <1>35, <1>36, <1>37,
     <1>38, <1>39, <1>40, <1>41, <1>42, <1>43, <1>44, <1>45, <1>46, <1>47, <1>48, <1>49,
     <1>50, <1>51, <1>52, <1>53, <1>54, <1>55, <1>56, <1>57, <1>58, <1>59, <1>60, <1>61
     DEF Next, Work, Failure

\* A step on the files leaves journal, service and flags alone, whose they are, and
\* stays in its phase.
FileStep(p) ==
    \/ Stage(p) \/ Keep(p) \/ Revalidate(p) \/ Backup(p) \/ BackedUp(p)
    \/ BackupWrong(p) \/ Mark(p) \/ Exchange(p) \/ Displaced(p)
    \/ DisplacedWrong(p) \/ Publish(p) \/ Published(p) \/ Discard(p)
    \/ Discarded(p) \/ AtOld(p) \/ UndoReplaced(p) \/ Swap(p) \/ Swapped(p)
    \/ SwapBack(p) \/ UndoCreated(p) \/ Quarantine(p) \/ Quarantined(p)
    \/ QuarantineWrong(p) \/ UndoMissing(p) \/ Relink(p) \/ Cleanup(p)
    \/ RemoveArtifact(p) \/ Removed(p) \/ EntryFails(p)

FileMove ==
    /\ UNCHANGED <<journal, service>>
    /\ op'.flags = op.flags /\ op'.recovering = op.recovering /\ op'.unsaved = op.unsaved
    /\ \/ op.pc \in FilePC /\ op'.pc \in FilePC \cup {"quiesce"}
       \/ op.pc \in EntryPC /\ op'.pc \in EntryPC
       \/ op.pc = "discard" /\ op'.pc \in {"discard", "forget"}

LEMMA FilesMove == ASSUME TypeOK, NEW p \in Target, FileStep(p) PROVE FileMove
<1> USE DEF FileMove, FilePC, EntryPC, Goto, GotoWith, SameBut, world
<1>a. op \in Op
  BY DEF TypeOK
<1>1. CASE Stage(p)
  BY <1>a, <1>1 DEF Stage, Op
<1>2. CASE Keep(p)
  BY <1>a, <1>2 DEF Keep, Op
<1>3. CASE Revalidate(p)
  BY <1>a, <1>3 DEF Revalidate, Op
<1>4. CASE Backup(p)
  BY <1>a, <1>4 DEF Backup, Op
<1>5. CASE BackedUp(p)
  BY <1>a, <1>5 DEF BackedUp, Op
<1>6. CASE BackupWrong(p)
  BY <1>a, <1>6 DEF BackupWrong, Op, Abort
<1>7. CASE Mark(p)
  BY <1>a, <1>7 DEF Mark, Op
<1>8. CASE Exchange(p)
  BY <1>a, <1>8 DEF Exchange, Op
<1>9. CASE Displaced(p)
  BY <1>a, <1>9 DEF Displaced, Op
<1>10. CASE DisplacedWrong(p)
  BY <1>a, <1>10 DEF DisplacedWrong, Op, Abort
<1>11. CASE Publish(p)
  BY <1>a, <1>11 DEF Publish, Op
<1>12. CASE Published(p)
  BY <1>a, <1>12 DEF Published, Op
<1>13. CASE Discard(p)
  BY <1>a, <1>13 DEF Discard, Op
<1>14. CASE Discarded(p)
  BY <1>a, <1>14 DEF Discarded, Op
<1>15. CASE AtOld(p)
  BY <1>a, <1>15 DEF AtOld, Op
<1>16. CASE UndoReplaced(p)
  BY <1>a, <1>16 DEF UndoReplaced, Op
<1>17. CASE Swap(p)
  BY <1>a, <1>17 DEF Swap, Op
<1>18. CASE Swapped(p)
  BY <1>a, <1>18 DEF Swapped, Op
<1>19. CASE SwapBack(p)
  BY <1>a, <1>19 DEF SwapBack, Op, NextEntry
<1>20. CASE UndoCreated(p)
  BY <1>a, <1>20 DEF UndoCreated, Op
<1>21. CASE Quarantine(p)
  BY <1>a, <1>21 DEF Quarantine, Op
<1>22. CASE Quarantined(p)
  BY <1>a, <1>22 DEF Quarantined, Op
<1>23. CASE QuarantineWrong(p)
  BY <1>a, <1>23 DEF QuarantineWrong, Op, NextEntry
<1>24. CASE UndoMissing(p)
  BY <1>a, <1>24 DEF UndoMissing, Op
<1>25. CASE Relink(p)
  BY <1>a, <1>25 DEF Relink, Op
<1>26. CASE Cleanup(p)
  BY <1>a, <1>26 DEF Cleanup, Op
<1>27. CASE RemoveArtifact(p)
  BY <1>a, <1>27 DEF RemoveArtifact, Op
<1>28. CASE Removed(p)
  BY <1>a, <1>28 DEF Removed, Op
<1>29. CASE EntryFails(p)
  BY <1>a, <1>29 DEF EntryFails, Op, NextEntry
<1> QED
  BY <1>1, <1>2, <1>3, <1>4, <1>5, <1>6, <1>7, <1>8, <1>9, <1>10, <1>11,
     <1>12, <1>13, <1>14, <1>15, <1>16, <1>17, <1>18, <1>19, <1>20, <1>21, <1>22, <1>23,
     <1>24, <1>25, <1>26, <1>27, <1>28, <1>29 DEF FileStep

\* What a write of the journal changes and what not.
LEMMA WrittenFlags ==
    ASSUME TypeOK, journal # NoJournal, NEW flags \in Flags,
           journal' = [journal EXCEPT !.flags = flags]
    PROVE  /\ journal' # NoJournal /\ journal'.committed = journal.committed
           /\ journal'.flags = flags
           /\ journal'.manager = journal.manager /\ journal'.prior = journal.prior
<1>1. journal \in Journal
  BY DEF TypeOK
<1>2. journal' \in Journal
  BY <1>1 DEF Journal
<1> QED
  BY <1>1, <1>2, NoJournalAssumption DEF Journal

LEMMA WrittenCommit ==
    ASSUME TypeOK, journal # NoJournal, journal' = [journal EXCEPT !.committed = TRUE]
    PROVE  /\ journal' # NoJournal /\ journal'.committed
           /\ journal'.flags = journal.flags /\ journal'.manager = journal.manager
<1>1. journal \in Journal
  BY DEF TypeOK
<1>2. journal' \in Journal
  BY <1>1 DEF Journal
<1> QED
  BY <1>1, <1>2, NoJournalAssumption DEF Journal

LEMMA WrittenFirst ==
    ASSUME TypeOK, NEW kinds \in [Target -> Kind], NEW manager \in Managers,
           Prepare(kinds, manager)
    PROVE  /\ journal' # NoJournal /\ ~journal'.committed
           /\ journal'.flags = Untouched /\ journal'.prior = Captured(manager)
           /\ journal'.manager = manager
           /\ op'.flags = Untouched /\ op'.pc \in {"idle", "stage"}
<1>1. journal' # NoJournal
  BY PreparedJournal DEF Prepare
<1>2. op' = [Idle EXCEPT !.pc = "stage", !.todo = Target] \/ op' = Idle
  BY DEF Prepare
<1>3. Idle \in Op /\ Idle.flags = Untouched /\ Idle.pc = "idle"
  BY DEF Idle, Op, OpPC, Untouched, Flags
<1>4. op'.flags = Untouched /\ op'.pc \in {"idle", "stage"}
  BY <1>2, <1>3 DEF Op
<1> QED
  BY <1>1, <1>4 DEF Prepare

\* What is announced is announced in the journal, or the setup is undone.
AnnounceMove(flags) ==
    /\ op.pc \in ServicePC
    /\ UNCHANGED service
    /\ op'.flags = flags
    /\ journal' \in {journal, [journal EXCEPT !.flags = flags]}
    /\ \/ /\ op'.pc \in {"enable", "start", "loggingIn"}
          /\ op'.pc = "enable" => op.pc = "service"
          /\ op'.pc = "loggingIn" => flags = LoggingIn
          /\ journal' = [journal EXCEPT !.flags = flags]
       \/ op'.pc = "quiesce"

LEMMA AnnouncementsMove ==
    ASSUME TypeOK
    PROVE  /\ AnnounceEnable \/ AnnounceFails("service", Scheduling) => AnnounceMove(Scheduling)
           /\ AnnounceStart \/ AnnounceFails("action", Activating) => AnnounceMove(Activating)
           /\ AnnounceLogin \/ AnnounceFails("login", LoggingIn) => AnnounceMove(LoggingIn)
<1>1. op \in Op
  BY DEF TypeOK
<1> QED
  BY <1>1 DEF AnnounceEnable, AnnounceStart, AnnounceLogin, Announce, AnnounceFails,
              AnnounceMove, ServicePC, Op

\* The steps, with those on the files, on the journal and on the service together.
AnnounceStep ==
    \/ AnnounceEnable \/ AnnounceFails("service", Scheduling)
    \/ AnnounceStart
    \/ op.pc = "action" /\ journal.manager # "none" /\ AnnounceFails("action", Activating)
    \/ AnnounceLogin \/ AnnounceFails("login", LoggingIn)

CommandFailsStep == \E pc \in {"enable", "start", "loggingIn"} : CommandFails(pc) /\ Abort

LEMMA NextCases ==
    ASSUME [Next]_vars
    PROVE  \/ Started \/ Others \/ UNCHANGED vars
           \/ \E p \in Target : FileStep(p)
           \/ \E kinds \in [Target -> Kind], manager \in Managers : Prepare(kinds, manager)
           \/ AnnounceStep \/ CommandFailsStep \/ Commit \/ CommitUnknown
           \/ LoadNothing \/ LoadRefuses \/ LoadUncommitted \/ LoadCommitted \/ Read
           \/ Serve \/ Enable \/ NoService \/ Start \/ NoLogin \/ Login \/ Applied
           \/ Finalize \/ Forget \/ CannotFinalize \/ Quiesce \/ RolledBack
           \/ RestoreScheduled \/ RestoreActive \/ Restored \/ CannotFinish
           \/ Stop \/ Refuse \/ Fail \/ WriteFails \/ QuiesceFails \/ RestoreFails
<1>1. CASE Work
  <2>1. ASSUME NEW p \in Target,
               \/ Stage(p) \/ Keep(p) \/ Revalidate(p) \/ Backup(p) \/ BackedUp(p)
               \/ BackupWrong(p) \/ Mark(p) \/ Exchange(p) \/ Displaced(p)
               \/ DisplacedWrong(p) \/ Publish(p) \/ Published(p) \/ Discard(p)
               \/ Discarded(p) \/ AtOld(p) \/ UndoReplaced(p) \/ Swap(p) \/ Swapped(p)
               \/ SwapBack(p) \/ UndoCreated(p) \/ Quarantine(p) \/ Quarantined(p)
               \/ QuarantineWrong(p) \/ UndoMissing(p) \/ Relink(p) \/ Cleanup(p)
               \/ RemoveArtifact(p) \/ Removed(p)
        PROVE  FileStep(p)
    BY <2>1 DEF FileStep
  <2> QED
    BY <1>1, <2>1 DEF Work, AnnounceStep
<1>2. CASE Failure
  BY <1>2 DEF Failure, ServiceFails, FileStep, AnnounceStep, CommandFailsStep
<1> QED
  BY <1>1, <1>2 DEF Next

\* and which journal is there, and what may be touched.
LEMMA PhaseStep == TypeOK /\ PhaseInv /\ ManagerInv /\ [Next]_vars => PhaseInv' /\ ManagerInv'
<1> SUFFICES ASSUME TypeOK, PhaseInv, ManagerInv, [Next]_vars PROVE PhaseInv' /\ ManagerInv'
  OBVIOUS
<1> USE NoJournalAssumption DEF OpPC, FilePC, ServicePC, EntryPC, AbortPC, FinalizePC,
           Undecided, Decided, PhaseInv, ManagerInv, FlagsFit, Goto, GotoWith, Return,
           SameBut, world, Op, Idle, AfterRecovery
<1>a. op \in Op /\ op.flags \in Flags
  BY DEF TypeOK, Op
<1>1. CASE LoadNothing
  BY <1>a, <1>1 DEF LoadNothing
<1>2. CASE LoadRefuses
  BY <1>a, <1>2 DEF LoadRefuses
<1>3. CASE LoadUncommitted
  BY <1>a, <1>3 DEF LoadUncommitted, TypeOK, Journal
<1>4. CASE LoadCommitted
  BY <1>a, <1>4 DEF LoadCommitted, TypeOK, Journal
<1>5. CASE Read
  BY <1>a, <1>5 DEF Read
<1>6. CASE Serve
  BY <1>a, <1>6 DEF Serve
<1>7. CASE Enable
  BY <1>a, <1>7 DEF Enable, Command
<1>8. CASE NoService
  BY <1>a, <1>8 DEF NoService
<1>9. CASE Start
  BY <1>a, <1>9 DEF Start, Command
<1>10. CASE NoLogin
  BY <1>a, <1>10 DEF NoLogin
<1>11. CASE Login
  BY <1>a, <1>11 DEF Login, Command
<1>12. CASE Applied
  BY <1>a, <1>12 DEF Applied
<1>13. CASE Finalize
  BY <1>a, <1>13 DEF Finalize
<1>14. CASE Forget
  BY <1>a, <1>14 DEF Forget
<1>15. CASE CannotFinalize
  BY <1>a, <1>15 DEF CannotFinalize
<1>16. CASE Quiesce
  BY <1>a, <1>16 DEF Quiesce, Command
<1>17. CASE RolledBack
  BY <1>a, <1>17 DEF RolledBack
<1>18. CASE RestoreScheduled
  BY <1>a, <1>18 DEF RestoreScheduled, Command
<1>19. CASE RestoreActive
  BY <1>a, <1>19 DEF RestoreActive, Command
<1>20. CASE Restored
  BY <1>a, <1>20 DEF Restored
<1>21. CASE CannotFinish
  BY <1>a, <1>21 DEF CannotFinish
<1>22. CASE Stop
  BY <1>a, <1>22 DEF Stop
<1>23. CASE Refuse
  BY <1>a, <1>23 DEF Refuse
<1>24. CASE Fail
  BY <1>a, <1>24 DEF Fail, Abort
<1>25. CASE WriteFails
  BY <1>a, <1>25 DEF WriteFails
<1>26. CASE QuiesceFails
  BY <1>a, <1>26 DEF QuiesceFails, CommandFails
<1>27. CASE RestoreFails
  <2>1. \/ op' = Idle
        \/ /\ op.pc = "restoreScheduled" /\ journal.manager = "brew"
           /\ op' = [op EXCEPT !.pc = "restoreActive", !.failed = TRUE]
    BY <1>a, <1>27 DEF RestoreFails, CommandFails, Brew
  <2>2. CASE op' = Idle
    BY <1>a, <1>27, <2>2 DEF RestoreFails, CommandFails
  <2>3. CASE op' = [op EXCEPT !.pc = "restoreActive", !.failed = TRUE]
    BY <1>a, <1>27, <2>1, <2>3 DEF RestoreFails, CommandFails
  <2> QED
    BY <2>1, <2>2, <2>3
<1>28. CASE AnnounceStep
  <2>1. PICK flags \in {Scheduling, Activating, LoggingIn} :
           AnnounceMove(flags) /\ flags \in Flags /\ FlagsFit(flags)
    BY <1>28, AnnouncementsMove, FlagsType
       DEF AnnounceStep, AnnounceStart, AnnounceEnable, AnnounceLogin, Announce, AnnounceFails
  <2>2. \/ UNCHANGED journal
        \/ /\ journal' # NoJournal /\ journal'.committed = journal.committed
           /\ journal'.flags = flags
           /\ journal'.manager = journal.manager /\ journal'.prior = journal.prior
    BY <2>1, WrittenFlags DEF AnnounceMove
  <2> QED
    BY <1>a, <2>1, <2>2 DEF AnnounceMove
<1>29. CASE CommandFailsStep
  BY <1>a, <1>29 DEF CommandFailsStep, CommandFails, Abort
<1>30. CASE Commit \/ CommitUnknown
  BY <1>a, <1>30, WrittenCommit DEF Commit, CommitUnknown
<1>31. ASSUME NEW p \in Target, FileStep(p) PROVE PhaseInv' /\ ManagerInv'
  BY <1>a, <1>31, FilesMove DEF FileMove
<1>32. CASE Started
  BY <1>a, <1>32 DEF Started, Begin
<1>33. ASSUME NEW kinds \in [Target -> Kind], NEW manager \in Managers, Prepare(kinds, manager)
       PROVE  PhaseInv' /\ ManagerInv'
  BY <1>a, <1>33, WrittenFirst DEF Untouched
<1>34. CASE Others
  BY <1>a, <1>34 DEF Others, Edit
<1>35. CASE UNCHANGED vars
  BY <1>a, <1>35 DEF vars
<1> QED
  BY NextCases, <1>1, <1>2, <1>3, <1>4, <1>5, <1>6, <1>7, <1>8, <1>9, <1>10, <1>11,
     <1>12, <1>13, <1>14, <1>15, <1>16, <1>17, <1>18, <1>19, <1>20, <1>21, <1>22, <1>23,
     <1>24, <1>25, <1>26, <1>27, <1>28, <1>29, <1>30, <1>31, <1>32, <1>33, <1>34, <1>35

\* and what is known of service and login.
LEMMA ServiceStep == TypeOK /\ PhaseInv /\ ManagerInv /\ ServiceInv /\ [Next]_vars => ServiceInv'
<1> SUFFICES ASSUME TypeOK, PhaseInv, ManagerInv, ServiceInv, [Next]_vars PROVE ServiceInv'
  OBVIOUS
<1> USE NoJournalAssumption DEF OpPC, FilePC, ServicePC, EntryPC, AbortPC, FinalizePC,
           Undecided, Decided, PhaseInv, ManagerInv, ServiceInv, FlagsFit, Goto, GotoWith, Return,
           SameBut, world, Op, Idle, AfterRecovery
<1>a. op \in Op /\ op.flags \in Flags
  BY DEF TypeOK, Op
<1>1. CASE LoadNothing
  BY <1>a, <1>1 DEF LoadNothing
<1>2. CASE LoadRefuses
  BY <1>a, <1>2 DEF LoadRefuses
<1>3. CASE LoadUncommitted
  BY <1>a, <1>3 DEF LoadUncommitted, TypeOK, Journal
<1>4. CASE LoadCommitted
  BY <1>a, <1>4 DEF LoadCommitted, TypeOK, Journal
<1>5. CASE Read
  BY <1>a, <1>5 DEF Read
<1>6. CASE Serve
  BY <1>a, <1>6 DEF Serve
<1>7. CASE Enable
  BY <1>a, <1>7 DEF Enable, Command, Commanded, Brew, Stopped, TypeOK, Flags
<1>8. CASE NoService
  BY <1>a, <1>8 DEF NoService
<1>9. CASE Start
  BY <1>a, <1>9 DEF Start, Command, Commanded, Brew, Stopped, TypeOK, Flags
<1>10. CASE NoLogin
  BY <1>a, <1>10 DEF NoLogin
<1>11. CASE Login
  BY <1>a, <1>11 DEF Login, Command, Commanded, Brew, Stopped, TypeOK, Flags
<1>12. CASE Applied
  BY <1>a, <1>12 DEF Applied
<1>13. CASE Finalize
  BY <1>a, <1>13 DEF Finalize
<1>14. CASE Forget
  BY <1>a, <1>14 DEF Forget
<1>15. CASE CannotFinalize
  BY <1>a, <1>15 DEF CannotFinalize
<1>16. CASE Quiesce
  BY <1>a, <1>16 DEF Quiesce, Command, Commanded, Brew, Stopped, TypeOK, Flags
<1>17. CASE RolledBack
  BY <1>a, <1>17 DEF RolledBack
<1>18. CASE RestoreScheduled
  BY <1>a, <1>18 DEF RestoreScheduled, Command, Commanded, Brew, Stopped, TypeOK, Flags
<1>19. CASE RestoreActive
  BY <1>a, <1>19 DEF RestoreActive, Command, Commanded, Brew, Stopped, TypeOK, Flags
<1>20. CASE Restored
  BY <1>a, <1>20 DEF Restored
<1>21. CASE CannotFinish
  BY <1>a, <1>21 DEF CannotFinish
<1>22. CASE Stop
  BY <1>a, <1>22 DEF Stop
<1>23. CASE Refuse
  BY <1>a, <1>23 DEF Refuse
<1>24. CASE Fail
  BY <1>a, <1>24 DEF Fail, Abort
<1>25. CASE WriteFails
  BY <1>a, <1>25 DEF WriteFails
<1>26. CASE QuiesceFails
  BY <1>a, <1>26 DEF QuiesceFails, CommandFails, Commanded, Brew, Stopped, TypeOK, Flags
<1>27. CASE RestoreFails
  <2>1. \/ op' = Idle
        \/ /\ op.pc = "restoreScheduled" /\ journal.manager = "brew"
           /\ op' = [op EXCEPT !.pc = "restoreActive", !.failed = TRUE]
    BY <1>a, <1>27 DEF RestoreFails, CommandFails, Brew
  <2>2. CASE op' = Idle
    BY <1>a, <1>27, <2>2, CommandedType DEF RestoreFails, CommandFails, TypeOK, Flags
  <2>3. CASE op' = [op EXCEPT !.pc = "restoreActive", !.failed = TRUE]
    BY <1>a, <1>27, <2>1, <2>3, CommandedType, ZenonT(40) DEF RestoreFails, CommandFails, TypeOK, Flags
  <2> QED
    BY <2>1, <2>2, <2>3
<1>28. CASE AnnounceStep
  <2>1. PICK flags \in {Scheduling, Activating, LoggingIn} :
           AnnounceMove(flags) /\ flags \in Flags /\ FlagsFit(flags)
    BY <1>28, AnnouncementsMove, FlagsType
       DEF AnnounceStep, AnnounceStart, AnnounceEnable, AnnounceLogin, Announce, AnnounceFails
  <2>2. \/ UNCHANGED journal
        \/ /\ journal' # NoJournal /\ journal'.committed = journal.committed
           /\ journal'.flags = flags
           /\ journal'.manager = journal.manager /\ journal'.prior = journal.prior
    BY <2>1, WrittenFlags DEF AnnounceMove
  <2>3. (op.flags.login => flags.login) /\ LoggingIn.login
    BY <2>1, FlagsType DEF AnnounceMove
  <2>4. op.pc \in ServicePC /\ Undecided /\ (journal.flags.login => op.flags.login)
    BY <2>1 DEF AnnounceMove
  <2>5. journal'.flags \in {journal.flags, flags} /\ UNCHANGED service
    BY <2>1, <2>2 DEF AnnounceMove
  <2>6. service.login => journal'.flags.login
    BY <2>3, <2>4, <2>5
  <2>7. /\ op'.pc \in {"quiesce", "enable", "start", "loggingIn"}
        /\ op'.pc # "quiesce" => journal'.flags = op'.flags
        /\ op'.pc = "loggingIn" => journal'.flags.login
    BY <2>1, <2>3, WrittenFlags DEF AnnounceMove
  <2> QED
    BY <1>a, <2>1, <2>2, <2>3, <2>4, <2>6, <2>7 DEF AnnounceMove
<1>29. CASE CommandFailsStep
  BY <1>a, <1>29, CommandedType DEF CommandFailsStep, CommandFails, Abort, TypeOK, Flags
<1>30. CASE Commit \/ CommitUnknown
  BY <1>a, <1>30, WrittenCommit DEF Commit, CommitUnknown, TypeOK, Flags
<1>31. ASSUME NEW p \in Target, FileStep(p) PROVE ServiceInv'
  BY <1>a, <1>31, FilesMove DEF FileMove
<1>32. CASE Started
  BY <1>a, <1>32 DEF Started, Begin
<1>33. ASSUME NEW kinds \in [Target -> Kind], NEW manager \in Managers, Prepare(kinds, manager)
       PROVE  ServiceInv'
  BY <1>a, <1>33, WrittenFirst DEF Untouched, Captured, Restorable, Prepare, Flags, TypeOK
<1>34. CASE Others
  BY <1>a, <1>34 DEF Others, Edit
<1>35. CASE UNCHANGED vars
  BY <1>a, <1>35 DEF vars
<1> QED
  BY NextCases, <1>1, <1>2, <1>3, <1>4, <1>5, <1>6, <1>7, <1>8, <1>9, <1>10, <1>11,
     <1>12, <1>13, <1>14, <1>15, <1>16, <1>17, <1>18, <1>19, <1>20, <1>21, <1>22, <1>23,
     <1>24, <1>25, <1>26, <1>27, <1>28, <1>29, <1>30, <1>31, <1>32, <1>33, <1>34, <1>35

-----------------------------------------------------------------------------
Inv == TypeOK /\ PhaseInv /\ ManagerInv /\ ServiceInv

LEMMA Initially == Init => Inv
<1> SUFFICES ASSUME Init PROVE Inv
  OBVIOUS
<1>1. Idle \in Op /\ Idle.pc = "idle"
  BY DEF Idle, Op, OpPC, Untouched, Flags
<1>2. \A f \in {"none", "before"} : At(f) \in Names
  BY DEF At, Names, File
<1>3. TypeOK
  BY <1>1, <1>2 DEF Init, TypeOK, Kind
<1>4. op.pc = "idle" /\ journal = NoJournal
  BY <1>1 DEF Init
<1> QED
  BY <1>3, <1>4 DEF Inv, PhaseInv, ManagerInv, ServiceInv, Undecided, FilePC, ServicePC,
     EntryPC, AbortPC, FinalizePC

LEMMA Inductive == Inv /\ [Next]_vars => Inv'
BY TypeStep, PhaseStep, ServiceStep DEF Inv

LEMMA Invariance == Spec => []Inv
BY Initially, Inductive, PTL DEF Spec

\* A journal goes when its setup has been undone, or finished after its commit.
LEMMA JournalEnds ==
    ASSUME Inv, [Next]_vars, journal # NoJournal, journal' = NoJournal
    PROVE  (Undecided /\ Restored) \/ (Decided /\ Forget)
<1> USE DEF Inv
<1>1. CASE AnnounceStep \/ CommandFailsStep
  <2>1. CASE AnnounceStep
    <3>1. PICK flags \in {Scheduling, Activating, LoggingIn} :
             AnnounceMove(flags) /\ flags \in Flags
      BY <2>1, AnnouncementsMove, FlagsType
         DEF AnnounceStep, AnnounceStart, AnnounceEnable, AnnounceLogin, Announce,
             AnnounceFails, PhaseInv, ManagerInv, Undecided, ServicePC
    <3> QED
      BY <3>1, WrittenFlags DEF AnnounceMove
  <2> QED
    BY <1>1, <2>1 DEF CommandFailsStep, CommandFails
<1>2. CASE Commit \/ CommitUnknown
  BY <1>2, WrittenCommit DEF Commit, CommitUnknown
<1>3. ASSUME NEW p \in Target, FileStep(p) PROVE FALSE
  BY <1>3, FilesMove DEF FileMove
<1>4. ASSUME NEW kinds \in [Target -> Kind], NEW manager \in Managers, Prepare(kinds, manager)
      PROVE  FALSE
  BY <1>4, WrittenFirst
<1>5. ~Started /\ ~Others /\ ~UNCHANGED vars
  BY DEF Started, Begin, Others, Edit, vars, world
<1>6. Restored => Undecided
  BY DEF Restored, PhaseInv, AbortPC
<1>7. Forget => Decided
  BY DEF Forget, PhaseInv, FinalizePC
<1>8. /\ ~LoadNothing /\ ~LoadRefuses /\ ~LoadUncommitted /\ ~LoadCommitted
      /\ ~Read /\ ~Serve /\ ~NoService /\ ~NoLogin /\ ~Applied /\ ~Finalize
      /\ ~CannotFinalize /\ ~RolledBack /\ ~CannotFinish /\ ~Stop /\ ~Refuse
      /\ ~Fail /\ ~WriteFails /\ ~QuiesceFails /\ ~RestoreFails
  BY DEF world, LoadNothing, LoadRefuses, LoadUncommitted, LoadCommitted, Read, Serve,
     NoService, NoLogin, Applied, Finalize, CannotFinalize, RolledBack, CannotFinish,
     Stop, Refuse, Fail, WriteFails, QuiesceFails, RestoreFails, CommandFails
<1>9. /\ ~Enable /\ ~Start /\ ~Login /\ ~Quiesce /\ ~RestoreScheduled
      /\ ~RestoreActive
  BY DEF Command, Enable, Start, Login, Quiesce, RestoreScheduled, RestoreActive
<1> QED
  BY NextCases, <1>1, <1>2, <1>3, <1>4, <1>5, <1>6, <1>7, <1>8, <1>9

-----------------------------------------------------------------------------
\* Every reachable state of a setup is well typed, its journal included.
THEOREM SetupTypeCorrect == Spec => []TypeOK
<1>1. Inv => TypeOK
  BY DEF Inv
<1> QED
  BY <1>1, Invariance, PTL

\* While files are put back, a service that setup has started does not run
\* (quiesce comes first, and its failure ends the rollback).
THEOREM RollbackQuiet == Spec => []RollbackIsQuiet
<1>1. Inv => RollbackIsQuiet
  BY DEF Inv, ServiceInv, RollbackIsQuiet
<1> QED
  BY <1>1, Invariance, PTL

\* When a setup has been undone, the service runs and is scheduled as before,
\* as far as its journal says that it was touched (preparedServiceState.restore).
THEOREM ServicePutBack == Spec => ServiceRestored
<1> DEFINE Back ==
      journal # NoJournal /\ ~journal.committed /\ journal' = NoJournal =>
          /\ journal.flags.active => service.active = journal.prior.active
          /\ journal.flags.scheduled => service.scheduled = journal.prior.scheduled
<1>1. Inv /\ [Next]_vars => [Back]_vars
  <2> SUFFICES ASSUME Inv, [Next]_vars, Undecided, journal' = NoJournal PROVE Back
    BY DEF Undecided
  <2>1. Restored
    BY JournalEnds DEF Undecided, Decided
  <2>2. /\ journal.flags.active => (service.active <=> journal.prior.active)
        /\ journal.flags.scheduled => (service.scheduled <=> journal.prior.scheduled)
    BY <2>1 DEF Restored, Inv, ServiceInv
  <2>3. service \in Flags /\ journal.prior \in Flags
    BY DEF Inv, TypeOK, Undecided, Journal
  <2> QED
    BY <2>2, <2>3 DEF Flags
<1> QED
  BY <1>1, Invariance, PTL DEF Spec, ServiceRestored

\* A setup that goes on behind a recovery does so only if no login was run that
\* it cannot undo (OAuthAttempted is on disk before the command).
THEOREM LoginTold == Spec => LoginReported
<1> DEFINE Told == op.pc = "restored" /\ op'.pc = "prepare" => ~service.login
<1>1. Inv /\ [Next]_vars => [Told]_vars
  <2> SUFFICES ASSUME Inv, [Next]_vars, op.pc = "restored", op'.pc = "prepare"
               PROVE  ~service.login
    OBVIOUS
  <2>1. Undecided /\ op \in Op /\ Idle.pc = "idle"
    BY DEF Inv, PhaseInv, AbortPC, TypeOK, Idle
  <2>2. Restored \/ CannotFinish \/ Stop \/ Others \/ UNCHANGED vars
    BY NextCases, FilesMove, <2>1
       DEF Inv, LoadNothing, LoadRefuses, LoadUncommitted, LoadCommitted, Read,
           Serve, Enable, NoService, Start, NoLogin, Login, Applied, Finalize,
           CannotFinalize, Quiesce, RolledBack, RestoreScheduled, RestoreActive,
           Refuse, Fail, WriteFails, QuiesceFails, RestoreFails, Forget, Commit,
           CommitUnknown, AnnounceStep, CommandFailsStep, Started, Begin,
           Prepare, Command, CommandFails, AnnounceEnable, AnnounceStart,
           AnnounceLogin, Announce, AnnounceFails, FilePC, ServicePC, EntryPC,
           FileMove
  <2>3. Restored
    BY <2>1, <2>2 DEF CannotFinish, Stop, Return, Others, Edit, vars
  <2>4. ~op.flags.login /\ op.flags = journal.flags
    BY <2>1, <2>3 DEF Restored, Idle
  <2> QED
    BY <2>1, <2>4 DEF Inv, ServiceInv
<1> QED
  BY <1>1, Invariance, PTL DEF Spec, LoginReported

\* After the commit no step of a setup or load changes a target, and the journal
\* goes when every target is final (finalizeSetupJournalWithRemoval).
THEOREM CommitFinal == Spec => CommittedIsFinal
<1> DEFINE Finished ==
      journal # NoJournal /\ journal.committed =>
          /\ \A p \in Target : at'[p].path # at[p].path => edit'[p] # edit[p]
          /\ journal' # journal => journal' = NoJournal /\ \A p \in Target : Final(p)
<1>1. Inv /\ [Next]_vars => [Finished]_vars
  <2> SUFFICES ASSUME Inv, [Next]_vars, Decided PROVE Finished
    BY DEF Decided
  <2>1. op.pc \in {"idle", "load"} \cup FinalizePC
    BY DEF Inv, TypeOK, Op, OpPC, PhaseInv, Decided, Undecided
  <2> USE DEF FinalizePC
  <2>2. CASE Others
    <3>1. PICK p \in Target, e \in {"replaced", "removed", "before", "after"} : Edit(p, e)
      BY <2>2 DEF Others
    <3>2. edit'[p] # edit[p] /\ UNCHANGED journal
      BY <3>1 DEF Edit, Inv, TypeOK
    <3>3. \A q \in Target \ {p} : at'[q] = at[q]
      BY <3>1 DEF Edit, Put, Inv, TypeOK
    <3> QED
      BY <3>2, <3>3
  <2>3. ASSUME NEW p \in Target, FileStep(p) PROVE Finished
    <3>1. op.pc = "discard" /\ UNCHANGED journal
      BY <2>1, <2>3, FilesMove DEF FileMove, FilePC, EntryPC, Inv
    <3>2. Discard(p) \/ Discarded(p)
      BY <2>3, <3>1 DEF FileStep, Stage, Keep, Revalidate, Backup, BackedUp,
                 BackupWrong, Mark, Exchange, Displaced, DisplacedWrong,
                 Publish, Published, AtOld, UndoReplaced, Swap, Swapped,
                 SwapBack, UndoCreated, Quarantine, Quarantined,
                 QuarantineWrong, UndoMissing, Relink, Cleanup, RemoveArtifact,
                 Removed, EntryFails, EntryPC
    <3>3. \A q \in Target : at'[q].path = at[q].path
      BY <3>2 DEF Discard, Discarded, Put, FirstArtifact, world, Inv, TypeOK, Names
    <3> QED
      BY <3>1, <3>3
  <2>4. CASE Forget
    BY <2>4 DEF Forget
  <2>5. CASE Started \/ LoadNothing \/ LoadRefuses \/ LoadUncommitted \/ LoadCommitted
            \/ Finalize \/ CannotFinalize \/ Stop \/ UNCHANGED vars
    BY <2>5 DEF Started, LoadNothing, LoadRefuses, LoadUncommitted,
                 LoadCommitted, Finalize, CannotFinalize, Stop, Begin, world,
                 vars, Decided
  <2>6. /\ ~Read /\ ~Serve /\ ~Enable /\ ~NoService /\ ~Start /\ ~NoLogin /\ ~Login
        /\ ~Applied /\ ~Quiesce /\ ~RolledBack /\ ~RestoreScheduled /\ ~RestoreActive
        /\ ~Restored /\ ~CannotFinish /\ ~Refuse /\ ~Fail /\ ~WriteFails
        /\ ~QuiesceFails /\ ~RestoreFails /\ ~AnnounceStep /\ ~CommandFailsStep
        /\ ~Commit /\ ~CommitUnknown
        /\ \A kinds \in [Target -> Kind], manager \in Managers : ~Prepare(kinds, manager)
    BY <2>1 DEF Read, Serve, Enable, NoService, Start, NoLogin, Login, Applied,
                 Quiesce, RolledBack, RestoreScheduled, RestoreActive, Restored,
                 CannotFinish, Refuse, Fail, WriteFails, QuiesceFails,
                 RestoreFails, AnnounceStep, CommandFailsStep, Commit,
                 CommitUnknown, Prepare, Command, CommandFails, AnnounceEnable,
                 AnnounceStart, AnnounceLogin, Announce, AnnounceFails, FilePC,
                 ServicePC
  <2> QED
    BY NextCases, <2>2, <2>3, <2>4, <2>5, <2>6
<1> QED
  BY <1>1, Invariance, PTL DEF Spec, CommittedIsFinal
=============================================================================
