---------------------------- MODULE SetupTransaction ----------------------------
(***************************************************************************)
(* `sclaude setup` (internal/setup/setup_transaction.go, workflow.go and   *)
(* service_transaction.go): configuration, credentials and startup files   *)
(* are exchanged for staged versions one by one, the proxy's service is    *)
(* enabled and started, its login is run, and all of it is committed in    *)
(* setup-transaction.json or undone, by this setup or by the next.         *)
(*                                                                         *)
(* The admission lock lets one setup or LoadRuntime run at a time.  Other  *)
(* programs may change a target at any moment.                             *)
(***************************************************************************)
EXTENDS Integers

CONSTANTS Targets,      \* how many files a setup changes
          Late,         \* those it changes after service and login
          Managers,     \* the service managers it may meet
          NoJournal

Target == 1 .. Targets  \* in the order of the journal

ASSUME TargetsAssumption == Targets \in Nat /\ Late \subseteq Target
ASSUME LateAssumption == \A p \in Late, q \in Target : p <= q => q \in Late
ASSUME ManagersAssumption == Managers \subseteq {"systemd", "brew", "none"}

VARIABLES
    at,         \* the file under each of the four names of a target
    kind,       \* what the last transaction found there
    edit,       \* what others have done to a target since
    journal,    \* setup-transaction.json
    service,    \* of the proxy: runs, starts with the host; and its login was run
    op          \* the operation in progress

world == <<at, kind, edit, journal, service>>
vars == <<at, kind, edit, journal, service, op>>

Artifact == {"backup", "stage", "replacement"}
File == {"none", "before", "after", "user"}
Names == [path : File, backup : File, stage : File, replacement : File]
Kind == {"created", "replaced", "same"}
Flags == [active : BOOLEAN, scheduled : BOOLEAN, login : BOOLEAN]
Journal == [committed : BOOLEAN, manager : Managers, prior : Flags,
            flags : Flags]                          \* what setup has touched
ASSUME NoJournalAssumption == NoJournal \notin Journal

\* validateSetupJournalState: there is nothing to touch without a manager.
ValidJournal(j) == j.manager = "none" => ~j.flags.active /\ ~j.flags.scheduled

FilePC == {"stage", "revalidate", "backup", "verify", "mark", "exchange", "displaced",
           "publish", "published"}
ServicePC == {"service", "enable", "action", "start", "login", "loggingIn"}
EntryPC == {"rollback", "swap", "swapped", "quarantine", "quarantined", "relink",
            "cleanup", "remove"}
AbortPC == {"quiesce", "restoreScheduled", "restoreActive", "restored"} \cup EntryPC
FinalizePC == {"finalize", "discard", "forget"}
OpPC == {"idle", "load", "read", "prepare", "commit"}
            \cup FilePC \cup ServicePC \cup AbortPC \cup FinalizePC

Op == [pc : OpPC, kind : {"setup", "load"}, todo : SUBSET Target,
       served : BOOLEAN,            \* service and login are behind it
       recovering : BOOLEAN,        \* what an earlier setup left
       failed : BOOLEAN,            \* a step of the rollback did
       unsaved : BOOLEAN,           \* a write of its journal did
       flags : Flags]

\* In place, a write changes the file under all its names: `edit` then says
\* which file it was.
TypeOK ==
    /\ at \in [Target -> Names]
    /\ kind \in [Target -> Kind]
    /\ edit \in [Target -> {"none", "replaced", "removed", "before", "after"}]
    /\ journal \in Journal \cup {NoJournal}
    /\ journal # NoJournal => ValidJournal(journal)
    /\ service \in Flags
    /\ op \in Op
    /\ op.pc \notin {"idle", "load", "read", "prepare"} => journal # NoJournal

Untouched == [active |-> FALSE, scheduled |-> FALSE, login |-> FALSE]
At(f) == [path |-> f, backup |-> "none", stage |-> "none", replacement |-> "none"]
Idle == [pc |-> "idle", kind |-> "setup", todo |-> {}, served |-> FALSE,
         recovering |-> FALSE, failed |-> FALSE, unsaved |-> FALSE, flags |-> Untouched]

Init ==
    /\ at \in [Target -> {At("none"), At("before")}]
    /\ kind = [p \in Target |-> IF at[p].path = "none" THEN "created" ELSE "same"]
    /\ edit = [p \in Target |-> "none"]
    /\ journal = NoJournal
    /\ service \in {s \in Flags : ~s.login}
    /\ op = Idle

\* The file has the content, mode and identity that were recorded.
Intact(p, n, f) == at[p][n] = f /\ edit[p] # f
Prepared(p) == IF kind[p] = "created" THEN at[p].path = "none" ELSE Intact(p, "path", "before")
Final(p) == Intact(p, "path", IF kind[p] = "same" THEN "before" ELSE "after")

Goto(pc) == op' = [op EXCEPT !.pc = pc]
GotoWith(pc, todo) == op' = [op EXCEPT !.pc = pc, !.todo = todo]
First(p) == p \in op.todo /\ \A q \in op.todo : p <= q
Last(p) == p \in op.todo /\ \A q \in op.todo : q <= p
Return == op' = Idle
Put(p, n, f) == at' = [at EXCEPT ![p][n] = f]
Exchanged(p) == [at EXCEPT ![p] = [@ EXCEPT !.path = at[p].replacement,
                                            !.replacement = at[p].path]]
SameBut == UNCHANGED <<kind, edit, journal, service>>

Begin(k) ==
    /\ op.pc = "idle"
    /\ op' = [op EXCEPT !.pc = "load", !.kind = k]
    /\ UNCHANGED world

\* The process dies, or a step fails and the rest is left to the next setup.
Stop == op.pc # "idle" /\ Return /\ UNCHANGED world

LoadNothing ==
    /\ op.pc = "load" /\ journal = NoJournal
    /\ Goto(IF op.kind = "setup" THEN "prepare" ELSE "read")
    /\ UNCHANGED world

\* LoadRuntime leaves an interrupted setup to the next setup.
LoadRefuses ==
    /\ op.pc = "load" /\ op.kind = "load" /\ journal # NoJournal /\ ~journal.committed
    /\ Return
    /\ UNCHANGED world

\* Mutant: it is undone whether it is committed or not.
LoadUncommittedAlways ==
    /\ op.pc = "load" /\ op.kind = "setup" /\ journal # NoJournal
    /\ op' = [op EXCEPT !.pc = "quiesce", !.todo = Target, !.recovering = TRUE,
                        !.flags = journal.flags]
    /\ UNCHANGED world

LoadUncommitted ==
    /\ op.pc = "load" /\ op.kind = "setup" /\ journal # NoJournal /\ ~journal.committed
    /\ op' = [op EXCEPT !.pc = "quiesce", !.todo = Target, !.recovering = TRUE,
                        !.flags = journal.flags]
    /\ UNCHANGED world

LoadCommitted ==
    /\ op.pc = "load" /\ journal # NoJournal /\ journal.committed
    /\ op' = [op EXCEPT !.pc = "finalize", !.recovering = TRUE, !.flags = journal.flags]
    /\ UNCHANGED world

Read == op.pc = "read" /\ Return /\ UNCHANGED world

-----------------------------------------------------------------------------
\* prepareServiceState: what is to be restored.  Homebrew cannot schedule a
\* service without starting it.
Captured(manager) == IF manager = "none" THEN Untouched ELSE [service EXCEPT !.login = FALSE]
Restorable(manager) == manager = "brew" => (service.scheduled => service.active)

\* A new transaction takes what it finds for the state before, also what others
\* have put there.
Prepare(k, manager) ==
    /\ op.pc = "prepare"
    /\ \A p \in Target : k[p] = "created" <=> at[p].path = "none"
    /\ Restorable(manager)
    /\ at' = [p \in Target |-> At(IF k[p] = "created" THEN "none" ELSE "before")]
    /\ kind' = k
    /\ edit' = [p \in Target |-> "none"]
    /\ service' = [service EXCEPT !.login = FALSE]
    /\ journal' = [committed |-> FALSE, manager |-> manager, prior |-> Captured(manager),
                   flags |-> Untouched]
    /\ op' \in {[Idle EXCEPT !.pc = "stage", !.todo = Target],
                Idle}                               \* its write reports an error

Refuse == op.pc = "prepare" /\ Return /\ UNCHANGED world

\* applyPreparedFile
Stage(p) ==
    /\ op.pc = "stage" /\ First(p) /\ (p \in Late => op.served)
    /\ kind[p] # "same" /\ Prepared(p)
    /\ Put(p, "stage", "after")
    /\ Goto("revalidate")
    /\ SameBut

Keep(p) ==
    /\ op.pc = "stage" /\ First(p) /\ (p \in Late => op.served)
    /\ kind[p] = "same" /\ Prepared(p)
    /\ GotoWith("stage", op.todo \ {p})
    /\ UNCHANGED world

Revalidate(p) ==
    /\ op.pc = "revalidate" /\ First(p) /\ Prepared(p)
    /\ Goto(IF kind[p] = "created" THEN "publish" ELSE "backup")
    /\ UNCHANGED world

\* Links whatever is there by now.
Backup(p) ==
    /\ op.pc = "backup" /\ First(p) /\ at[p].path # "none"
    /\ Put(p, "backup", at[p].path)
    /\ Goto("verify")
    /\ SameBut

BackedUp(p) ==
    /\ op.pc = "verify" /\ First(p) /\ Intact(p, "backup", "before")
    /\ Goto("mark")
    /\ UNCHANGED world

Mark(p) ==
    /\ op.pc = "mark" /\ First(p)
    /\ Put(p, "replacement", "after")
    /\ Goto("exchange")
    /\ SameBut

Exchange(p) ==
    /\ op.pc = "exchange" /\ First(p) /\ at[p].path # "none"
    /\ at' = Exchanged(p)
    /\ Goto("displaced")
    /\ SameBut

Displaced(p) ==
    /\ op.pc = "displaced" /\ First(p) /\ Intact(p, "replacement", "before")
    /\ Goto("published")
    /\ UNCHANGED world

Publish(p) ==
    /\ op.pc = "publish" /\ First(p) /\ at[p].path = "none"
    /\ Put(p, "path", "after")
    /\ Goto("published")
    /\ SameBut

Published(p) ==
    /\ op.pc = "published" /\ First(p) /\ Intact(p, "path", "after")
    /\ GotoWith("stage", op.todo \ {p})
    /\ UNCHANGED world

Abort == op' = [op EXCEPT !.pc = "quiesce", !.todo = Target]

\* What came between is put back where it was.
BackupWrong(p) ==
    /\ op.pc = "verify" /\ First(p) /\ ~Intact(p, "backup", "before")
    /\ Put(p, "backup", "none")
    /\ Abort
    /\ SameBut

DisplacedWrong(p) ==
    /\ op.pc = "displaced" /\ First(p) /\ ~Intact(p, "replacement", "before")
    /\ at' = IF at[p].path = "none" THEN at ELSE Exchanged(p)
    /\ Abort
    /\ SameBut

\* A step finds something changed, or fails before or after its effect.
Fail == op.pc \in FilePC \cup ServicePC \cup {"commit"} /\ Abort /\ UNCHANGED world

\* The journal's new version, with the identity of a file or the result of the
\* login, does not get to the disk.
WriteFails ==
    /\ op.pc \in {"stage", "published"}
    /\ op' = [op EXCEPT !.pc = "quiesce", !.todo = Target, !.unsaved = TRUE]
    /\ UNCHANGED world

-----------------------------------------------------------------------------
\* What a command of the service manager, or the login, does when it works.
Brew == journal.manager = "brew"
Stopped == [service EXCEPT !.active = FALSE, !.scheduled = @ /\ ~Brew]

Commanded(pc) ==
    CASE pc = "enable" -> [service EXCEPT !.scheduled = TRUE]
      [] pc = "start" -> [service EXCEPT !.active = TRUE, !.scheduled = @ \/ Brew]
      [] pc = "loggingIn" -> [service EXCEPT !.login = TRUE]
      [] pc = "quiesce" -> IF op.flags.active THEN Stopped ELSE service
      [] pc = "restoreScheduled" /\ ~Brew ->
            IF op.flags.scheduled
            THEN [service EXCEPT !.scheduled = journal.prior.scheduled] ELSE service
      [] pc = "restoreScheduled" /\ Brew ->
            IF op.flags.scheduled /\ ~journal.prior.scheduled THEN Stopped ELSE service
      [] pc = "restoreActive" ->
            IF op.flags.active /\ journal.prior.active
            THEN [service EXCEPT !.active = TRUE,
                                 !.scheduled = @ \/ (Brew /\ journal.prior.scheduled)]
            ELSE service

Command(pc) == op.pc = pc /\ service' = Commanded(pc) /\ UNCHANGED <<at, kind, edit, journal>>

\* It may fail before or after its effect, and a restart between.
CommandFails(pc) ==
    /\ op.pc = pc /\ (Commanded(pc) # service \/ pc \in {"enable", "start", "loggingIn"})
    /\ \/ service' \in {service, Commanded(pc)}
       \/ pc \in {"start", "restoreActive"} /\ service' = [service EXCEPT !.active = FALSE]
    /\ UNCHANGED <<at, kind, edit, journal>>

\* updateServiceState: what is about to be touched is on disk first.
Announce(pc, flags, next) ==
    /\ op.pc = pc
    /\ journal' = [journal EXCEPT !.flags = flags]
    /\ op' = [op EXCEPT !.pc = next, !.flags = flags]
    /\ UNCHANGED <<at, kind, edit, service>>

AnnounceFails(pc, flags) ==
    /\ op.pc = pc
    /\ journal' \in {journal, [journal EXCEPT !.flags = flags]}
    /\ op' = [op EXCEPT !.pc = "quiesce", !.todo = Target, !.flags = flags]
    /\ UNCHANGED <<at, kind, edit, service>>

Scheduling == [op.flags EXCEPT !.scheduled = TRUE]
Activating == [op.flags EXCEPT !.active = TRUE, !.scheduled = @ \/ Brew]
LoggingIn == [op.flags EXCEPT !.login = TRUE]

Serve ==
    /\ op.pc = "stage" /\ ~op.served /\ op.todo \subseteq Late
    /\ Goto(IF journal.manager = "systemd" THEN "service" ELSE "action")
    /\ UNCHANGED world

AnnounceEnable == Announce("service", Scheduling, "enable")
Enable == Command("enable") /\ Goto("action")
\* Mutant: also for a service that no manager of the host has.
AnnounceStartAlways == Announce("action", Activating, "start")

AnnounceStart ==
    op.pc = "action" /\ journal.manager # "none" /\ Announce("action", Activating, "start")
NoService == op.pc = "action" /\ journal.manager = "none" /\ Goto("login") /\ UNCHANGED world
Start == Command("start") /\ Goto("login")

\* Left to the user, or nothing that needs one.
NoLogin ==
    /\ op.pc = "login"
    /\ op' = [op EXCEPT !.pc = "stage", !.served = TRUE]
    /\ UNCHANGED world
\* Mutant: recorded only in memory before the command.
AnnounceLoginLate ==
    /\ op.pc = "login"
    /\ op' = [op EXCEPT !.pc = "loggingIn", !.flags = LoggingIn]
    /\ UNCHANGED world

AnnounceLogin == Announce("login", LoggingIn, "loggingIn")
Login == Command("loggingIn") /\ op' = [op EXCEPT !.pc = "stage", !.served = TRUE]

ServiceFails ==
    \/ AnnounceFails("service", Scheduling)
    \/ op.pc = "action" /\ journal.manager # "none" /\ AnnounceFails("action", Activating)
    \/ AnnounceFails("login", LoggingIn)
    \/ \E pc \in {"enable", "start", "loggingIn"} : CommandFails(pc) /\ Abort

-----------------------------------------------------------------------------
\* validateSetupTargetsForCommit, again when the journal is written
Applied ==
    /\ op.pc = "stage" /\ op.served /\ op.todo = {}
    /\ Goto("commit")
    /\ UNCHANGED world

\* A write that reports an error but reads back as committed counts.
Commit ==
    /\ op.pc = "commit" /\ \A p \in Target : Final(p)
    /\ journal' = [journal EXCEPT !.committed = TRUE]
    /\ Goto("finalize")
    /\ UNCHANGED <<at, kind, edit, service>>

\* It reports an error and cannot be read back.
CommitUnknown ==
    /\ op.pc = "commit" /\ \A p \in Target : Final(p)
    /\ journal' \in {journal, [journal EXCEPT !.committed = TRUE]}
    /\ Return
    /\ UNCHANGED <<at, kind, edit, service>>

\* validateSetupArtifactsInParent: every artifact is the transaction's own.
ArtifactsValid(p, replacement) ==
    /\ at[p].backup = "none" \/ (kind[p] # "created" /\ Intact(p, "backup", "before"))
    /\ at[p].stage = "none" \/ Intact(p, "stage", "after")
    /\ at[p].replacement = "none" \/ Intact(p, "replacement", replacement)

\* One at a time, in the order of setupEntryArtifacts.
FirstArtifact(p) ==
    CASE at[p].backup # "none" -> "backup"
      [] at[p].backup = "none" /\ at[p].stage # "none" -> "stage"
      [] at[p].backup = "none" /\ at[p].stage = "none" -> "replacement"
Clean(p) == \A n \in Artifact : at[p][n] = "none"

\* Mutant: every target must still have its publication marker.
FinalizableMarked ==
    \A p \in Target : Final(p) /\ (kind[p] # "same" => at[p].stage = "after")

Finalizable ==
    \A p \in Target :
        Final(p) /\ ArtifactsValid(p, IF kind[p] = "created" THEN "after" ELSE "before")

\* finalizeSetupJournalWithRemoval
Finalize ==
    /\ op.pc = "finalize" /\ Finalizable
    /\ GotoWith("discard", Target)
    /\ UNCHANGED world

Discard(p) ==
    /\ op.pc = "discard" /\ First(p) /\ ~Clean(p)
    /\ Put(p, FirstArtifact(p), "none")
    /\ UNCHANGED op
    /\ SameBut

Discarded(p) ==
    /\ op.pc = "discard" /\ First(p) /\ Clean(p)
    /\ GotoWith(IF op.todo = {p} THEN "forget" ELSE "discard", op.todo \ {p})
    /\ UNCHANGED world

\* The next setup goes on once an earlier one is finished.
AfterRecovery(pc) == [Idle EXCEPT !.pc = pc, !.kind = op.kind]
Forget ==
    /\ op.pc = "forget" /\ \A p \in Target : Final(p)
    /\ journal' = NoJournal
    /\ op' = IF ~op.recovering THEN Idle
             ELSE AfterRecovery(IF op.kind = "setup" THEN "prepare" ELSE "read")
    /\ UNCHANGED <<at, kind, edit, service>>

CannotFinalize ==
    /\ op.pc \in {"finalize", "forget"} /\ \E p \in Target : ~Final(p)
    /\ Return
    /\ UNCHANGED world

-----------------------------------------------------------------------------
\* abortSetupWorkflow and rollbackRecoveredSetupJournalWithRemoval: the service
\* is stopped, the targets are put back in reverse order, the service restored.
Quiesce == Command("quiesce") /\ Goto("rollback")
\* Mutant: the files are rolled back all the same.
QuiesceFailsOn == CommandFails("quiesce") /\ Goto("rollback")

QuiesceFails == CommandFails("quiesce") /\ Return

\* rollbackSetupEntry: what it finds, and undoes, at a target it has changed.
Overwritten(p) ==
    /\ kind[p] = "replaced" /\ Intact(p, "path", "after") /\ at[p].stage = "after"
    /\ Intact(p, "replacement", "before") /\ Intact(p, "backup", "before")
Created(p) == kind[p] = "created" /\ Intact(p, "path", "after") /\ at[p].stage = "after"
Vanished(p) ==
    /\ kind[p] # "created" /\ at[p].path = "none"
    /\ Intact(p, "replacement", "before") /\ Intact(p, "backup", "before")

AtOld(p) ==
    /\ op.pc = "rollback" /\ Last(p) /\ Prepared(p)
    /\ Goto("cleanup")
    /\ UNCHANGED world

UndoReplaced(p) ==
    /\ op.pc = "rollback" /\ Last(p) /\ Overwritten(p)
    /\ Goto("swap")
    /\ UNCHANGED world

Swap(p) ==
    /\ op.pc = "swap" /\ Last(p) /\ at[p].path # "none"
    /\ at' = Exchanged(p)
    /\ Goto("swapped")
    /\ SameBut

Swapped(p) ==
    /\ op.pc = "swapped" /\ Last(p)
    /\ Intact(p, "replacement", "after") /\ at[p].path = "before"
    /\ Goto("cleanup")
    /\ UNCHANGED world

UndoCreated(p) ==
    /\ op.pc = "rollback" /\ Last(p) /\ Created(p)
    /\ Goto("quarantine")
    /\ UNCHANGED world

Quarantine(p) ==
    /\ op.pc = "quarantine" /\ Last(p) /\ at[p].path # "none" /\ at[p].replacement = "none"
    /\ at' = Exchanged(p)
    /\ Goto("quarantined")
    /\ SameBut

Quarantined(p) ==
    /\ op.pc = "quarantined" /\ Last(p)
    /\ Intact(p, "replacement", "after") /\ at[p].path = "none"
    /\ Goto("cleanup")
    /\ UNCHANGED world

UndoMissing(p) ==
    /\ op.pc = "rollback" /\ Last(p) /\ Vanished(p)
    /\ Goto("relink")
    /\ UNCHANGED world

Relink(p) ==
    /\ op.pc = "relink" /\ Last(p) /\ at[p].path = "none"
    /\ Put(p, "path", "before")
    /\ Goto("cleanup")
    /\ SameBut

\* Mutant: the artifacts are removed by their names.
CleanupByName(p) ==
    /\ op.pc = "cleanup" /\ Last(p)
    /\ Goto("remove")
    /\ UNCHANGED world

Cleanup(p) ==
    /\ op.pc = "cleanup" /\ Last(p) /\ ArtifactsValid(p, "after")
    /\ Goto("remove")
    /\ UNCHANGED world

RemoveArtifact(p) ==
    /\ op.pc = "remove" /\ Last(p) /\ ~Clean(p)
    /\ Put(p, FirstArtifact(p), "none")
    /\ UNCHANGED op
    /\ SameBut

Removed(p) ==
    /\ op.pc = "remove" /\ Last(p) /\ Clean(p) /\ Prepared(p)
    /\ GotoWith("rollback", op.todo \ {p})
    /\ UNCHANGED world

\* Mutant: a target that could not be put back or cleaned up is forgotten.
ForgetEntry(p) == op' = [op EXCEPT !.pc = "rollback", !.todo = @ \ {p}]

\* A target that cannot be put back does not keep the others from it.
NextEntry(p) == op' = [op EXCEPT !.pc = "rollback", !.todo = @ \ {p}, !.failed = TRUE]

SwapBack(p) ==
    /\ op.pc = "swapped" /\ Last(p) /\ ~Intact(p, "replacement", "after")
    /\ at' = IF at[p].path = "none" THEN at ELSE Exchanged(p)
    /\ NextEntry(p)
    /\ SameBut

QuarantineWrong(p) ==
    /\ op.pc = "quarantined" /\ Last(p) /\ ~Intact(p, "replacement", "after")
    /\ at' = IF at[p].path = "none" THEN Exchanged(p) ELSE at
    /\ NextEntry(p)
    /\ SameBut

\* It changed outside the transaction, or a step fails.
EntryFails(p) == op.pc \in EntryPC /\ Last(p) /\ NextEntry(p) /\ UNCHANGED world

RolledBack ==
    /\ op.pc = "rollback" /\ op.todo = {}
    /\ IF op.failed THEN Return ELSE Goto("restoreScheduled")
    /\ UNCHANGED world

RestoreScheduled == Command("restoreScheduled") /\ Goto("restoreActive")

RestoreActive ==
    Command("restoreActive") /\ IF op.failed THEN Return ELSE Goto("restored")

\* Mutant: a service that does not come back is only reported.
RestoreFailsOn ==
    \E pc \in {"restoreScheduled", "restoreActive"} :
        CommandFails(pc) /\ Goto(IF pc = "restoreActive" THEN "restored" ELSE "restoreActive")

RestoreFails ==
    \/ /\ CommandFails("restoreScheduled")
       /\ IF Brew THEN op' = [op EXCEPT !.pc = "restoreActive", !.failed = TRUE] ELSE Return
    \/ CommandFails("restoreActive") /\ Return

\* The journal goes if it is the one in memory.  A login cannot be undone: the
\* setup that finds one says so and ends.
Restored ==
    /\ op.pc = "restored" /\ \A p \in Target : Prepared(p)
    /\ ~op.unsaved /\ op.flags = journal.flags
    /\ journal' = NoJournal
    /\ op' = IF op.recovering /\ ~op.flags.login THEN AfterRecovery("prepare") ELSE Idle
    /\ UNCHANGED <<at, kind, edit, service>>

CannotFinish ==
    /\ op.pc = "restored"
    /\ op.unsaved \/ op.flags # journal.flags \/ \E p \in Target : ~Prepared(p)
    /\ Return
    /\ UNCHANGED world

-----------------------------------------------------------------------------
\* Other programs, once for each target and transaction: a file is put in its
\* place, it is removed, or written to in place.
Edit(p, e) ==
    /\ journal # NoJournal /\ edit[p] = "none"
    /\ CASE e = "replaced" -> Put(p, "path", "user")
         [] e = "removed" -> at[p].path # "none" /\ Put(p, "path", "none")
         [] e \in {"before", "after"} -> at[p].path = e /\ UNCHANGED at
    /\ edit' = [edit EXCEPT ![p] = e]
    /\ UNCHANGED <<kind, journal, service, op>>

Started == \E k \in {"setup", "load"} : Begin(k)

Work ==
    \/ LoadNothing \/ LoadRefuses \/ LoadUncommitted \/ LoadCommitted \/ Read
    \/ \E k \in [Target -> Kind], manager \in Managers : Prepare(k, manager)
    \/ Serve \/ AnnounceEnable \/ Enable \/ AnnounceStart \/ NoService \/ Start
    \/ NoLogin \/ AnnounceLogin \/ Login
    \/ Applied \/ Commit \/ Finalize \/ Forget \/ CannotFinalize
    \/ Quiesce \/ RolledBack \/ RestoreScheduled \/ RestoreActive \/ Restored \/ CannotFinish
    \/ \E p \in Target :
          \/ Stage(p) \/ Keep(p) \/ Revalidate(p) \/ Backup(p) \/ BackedUp(p) \/ BackupWrong(p)
          \/ Mark(p) \/ Exchange(p) \/ Displaced(p) \/ DisplacedWrong(p)
          \/ Publish(p) \/ Published(p) \/ Discard(p) \/ Discarded(p)
          \/ AtOld(p) \/ UndoReplaced(p) \/ Swap(p) \/ Swapped(p) \/ SwapBack(p)
          \/ UndoCreated(p) \/ Quarantine(p) \/ Quarantined(p) \/ QuarantineWrong(p)
          \/ UndoMissing(p) \/ Relink(p) \/ Cleanup(p) \/ RemoveArtifact(p) \/ Removed(p)

Failure ==
    \/ Stop \/ Refuse \/ Fail \/ WriteFails \/ ServiceFails \/ CommitUnknown
    \/ QuiesceFails \/ RestoreFails
    \/ \E p \in Target : EntryFails(p)

Others == \E p \in Target, e \in {"replaced", "removed", "before", "after"} : Edit(p, e)

Next == Started \/ Work \/ Failure \/ Others

Spec == Init /\ [][Next]_vars

=============================================================================
