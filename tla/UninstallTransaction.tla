------------------------- MODULE UninstallTransaction -------------------------
(***************************************************************************)
(* Uninstalling the program (internal/setup/uninstall.go): everything the  *)
(* ledger owns is renamed to a backup beside it, the journal uninstall.json*)
(* is committed, then ledger and backups are removed.  What was cut off is *)
(* restored or finalized by the next uninstall or install.                 *)
(*                                                                         *)
(* The install lock lets one operation run at a time.  The recovery of     *)
(* transaction.json and a whole installation, InstallTransaction's subject,*)
(* are single steps here.                                                  *)
(***************************************************************************)
EXTENDS Integers

CONSTANTS Entries,      \* how many paths an uninstall with purge may list
          Shell,        \* startup files, which get a version without our block
          Optional,     \* may be missing: older releases and private files
          Private,      \* configuration, credential, settings: purged only
          NoRemoval

Entry == 1 .. Entries   \* in the order of prepareUninstall
Required == Entry \ Optional

ASSUME EntriesAssumption == Entries \in Nat
ASSUME KindsAssumption ==
    /\ Shell \subseteq Required /\ Optional \subseteq Entry /\ Private \subseteq Optional

Removal == [entries : SUBSET Entry, purge : BOOLEAN, committed : BOOLEAN]
ASSUME NoRemovalAssumption == NoRemoval \notin Removal

\* A journal lists whatever must be there, and private files for a purge only.
ValidJournal(j) == Required \subseteq j.entries /\ (j.entries \cap Private # {} => j.purge)

VARIABLES
    at,         \* what is at each path: nothing, the original, its replacement
    backup,     \* the paths whose original is at its backup name
    installed,  \* ledger.json is there
    sessions,   \* the session and launch directories are there
    removal,    \* uninstall.json
    task        \* the operation in progress

uninstallDisk == <<at, backup, installed, sessions, removal>>
uninstallVars == <<at, backup, installed, sessions, removal, task>>

RenamePC == {"rename", "replace", "commit"}
RestoringPC == {"restore", "putBack", "restored"}
FinalizePC == {"finalize", "discard", "purge", "forget"}
TaskPC == {"idle", "install", "load", "recoverInstall", "preflight"}
            \cup RenamePC \cup RestoringPC \cup FinalizePC

Task == [pc : TaskPC, kind : {"install", "uninstall"}, purge : BOOLEAN,
         recovering : BOOLEAN,          \* what an earlier operation left
         todo : SUBSET Entry]

UninstallTypeOK ==
    /\ at \in [Entry -> {"none", "original", "replaced"}]
    /\ backup \in SUBSET Entry
    /\ installed \in BOOLEAN /\ sessions \in BOOLEAN
    /\ removal \in Removal \cup {NoRemoval}
    /\ removal # NoRemoval => ValidJournal(removal)
    /\ task \in Task

UninstallInit ==
    /\ installed = TRUE /\ sessions = TRUE
    /\ at \in [Entry -> {"none", "original"}]
    /\ \A e \in Required : at[e] = "original"
    /\ backup = {}
    /\ removal = NoRemoval
    /\ task = [pc |-> "idle", kind |-> "install", purge |-> FALSE, recovering |-> FALSE, todo |-> {}]

Proceed(pc) == task' = [task EXCEPT !.pc = pc]
ProceedWith(pc, todo) == task' = [task EXCEPT !.pc = pc, !.todo = todo]
FirstEntry(e) == e \in task.todo /\ \A d \in task.todo : e <= d
Last(e) == e \in task.todo /\ \A d \in task.todo : d <= e
EndTask == task' = [task EXCEPT !.pc = "idle", !.recovering = FALSE, !.todo = {}]

\* Uninstall looks for its own journal first, install for that of an
\* installation.
BeginTask(kind, purge) ==
    /\ task.pc = "idle"
    /\ task' = [pc |-> IF kind = "uninstall" THEN "load" ELSE "recoverInstall",
              kind |-> kind, purge |-> purge, recovering |-> FALSE, todo |-> {}]
    /\ UNCHANGED uninstallDisk

\* The process dies, or a step fails and the rest is left to the next operation.
StopTask == task.pc # "idle" /\ EndTask /\ UNCHANGED uninstallDisk

AfterLoad == IF task.kind = "uninstall" THEN "recoverInstall" ELSE "install"

RecoverInstall ==
    /\ task.pc = "recoverInstall"
    /\ Proceed(IF task.kind = "uninstall" THEN "preflight" ELSE "load")
    /\ UNCHANGED uninstallDisk

LoadNothing ==
    /\ task.pc = "load" /\ removal = NoRemoval
    /\ Proceed(AfterLoad)
    /\ UNCHANGED uninstallDisk

\* Mutant: the journal is undone whether it is committed or not.
LoadUncommittedAlways ==
    /\ task.pc = "load" /\ removal # NoRemoval
    /\ task' = [task EXCEPT !.pc = "restore", !.todo = removal.entries, !.recovering = TRUE]
    /\ UNCHANGED uninstallDisk

LoadUncommitted ==
    /\ task.pc = "load" /\ removal # NoRemoval /\ ~removal.committed
    /\ task' = [task EXCEPT !.pc = "restore", !.todo = removal.entries, !.recovering = TRUE]
    /\ UNCHANGED uninstallDisk

LoadCommitted ==
    /\ task.pc = "load" /\ removal # NoRemoval /\ removal.committed
    /\ task' = [task EXCEPT !.pc = "finalize", !.recovering = TRUE]
    /\ UNCHANGED uninstallDisk

-----------------------------------------------------------------------------
\* Mutant: private files are listed in any case.
PreparedPrivate(purge) ==
    [entries |-> {e \in Entry : at[e] = "original"}, purge |-> purge, committed |-> FALSE]

\* preflightLedger and prepareUninstall.
Prepared(purge) ==
    [entries |-> {e \in Entry : at[e] = "original" /\ (e \in Private => purge)},
     purge |-> purge, committed |-> FALSE]
CanPrepare == installed /\ \A e \in Required : at[e] = "original"

Prepare ==
    /\ task.pc = "preflight" /\ CanPrepare
    /\ removal' = Prepared(task.purge)
    /\ ProceedWith("rename", removal'.entries)
    /\ UNCHANGED <<at, backup, installed, sessions>>

\* The journal's write reports an error and yet the journal is there.
PrepareFails ==
    /\ task.pc = "preflight" /\ CanPrepare
    /\ removal' = Prepared(task.purge)
    /\ EndTask
    /\ UNCHANGED <<at, backup, installed, sessions>>

\* Sessions that are active, a pending setup or something that was modified.
RefuseTask == task.pc = "preflight" /\ EndTask /\ UNCHANGED uninstallDisk

\* Mutant: startup files are rewritten without a backup.
RenameButShell(e) ==
    /\ task.pc = "rename" /\ FirstEntry(e) /\ at[e] # "none"
    /\ at' = [at EXCEPT ![e] = "none"]
    /\ backup' = IF e \in Shell THEN backup ELSE backup \cup {e}
    /\ IF e \in Shell THEN Proceed("replace") ELSE ProceedWith("rename", task.todo \ {e})
    /\ UNCHANGED <<installed, sessions, removal>>

Rename(e) ==
    /\ task.pc = "rename" /\ FirstEntry(e) /\ at[e] # "none"
    /\ at' = [at EXCEPT ![e] = "none"]
    /\ backup' = backup \cup {e}
    /\ IF e \in Shell THEN Proceed("replace") ELSE ProceedWith("rename", task.todo \ {e})
    /\ UNCHANGED <<installed, sessions, removal>>

Replace(e) ==
    /\ task.pc = "replace" /\ FirstEntry(e)
    /\ at' = [at EXCEPT ![e] = "replaced"]
    /\ ProceedWith("rename", task.todo \ {e})
    /\ UNCHANGED <<backup, installed, sessions, removal>>

Applied ==
    /\ task.pc = "rename" /\ task.todo = {}
    /\ Proceed("commit")
    /\ UNCHANGED uninstallDisk

\* A write that reports an error but reads back as committed counts.
CommitRemoval ==
    /\ task.pc = "commit"
    /\ removal' = [removal EXCEPT !.committed = TRUE]
    /\ Proceed("finalize")
    /\ UNCHANGED <<at, backup, installed, sessions>>

\* It reports an error and cannot be read back.
CommitUnknown ==
    /\ task.pc = "commit"
    /\ removal' \in {removal, [removal EXCEPT !.committed = TRUE]}
    /\ EndTask
    /\ UNCHANGED <<at, backup, installed, sessions>>

\* A step fails before or after its effect, or the commit is not on disk.
FailRemoval ==
    /\ task.pc \in RenamePC
    /\ ProceedWith("restore", removal.entries)
    /\ UNCHANGED uninstallDisk

-----------------------------------------------------------------------------
\* restoreUninstallJournal, in reverse order.  Its refusals, that original and
\* backup are both missing or that the path is taken, never arise here (NothingLost).
AlreadyBack(e) ==
    /\ task.pc = "restore" /\ Last(e) /\ e \notin backup /\ at[e] # "none"
    /\ ProceedWith("restore", task.todo \ {e})
    /\ UNCHANGED uninstallDisk

\* Mutant: a path that is taken is an error, the replacement included.
RemoveReplacementNever(e) ==
    /\ task.pc = "restore" /\ Last(e) /\ e \in backup /\ at[e] = "none"
    /\ Proceed("putBack")
    /\ UNCHANGED uninstallDisk

RemoveReplacement(e) ==
    /\ task.pc = "restore" /\ Last(e) /\ e \in backup
    /\ at[e] # "none" => e \in Shell /\ at[e] = "replaced"
    /\ at' = [at EXCEPT ![e] = "none"]
    /\ Proceed("putBack")
    /\ UNCHANGED <<backup, installed, sessions, removal>>

PutBack(e) ==
    /\ task.pc = "putBack" /\ Last(e)
    /\ at' = [at EXCEPT ![e] = "original"]
    /\ backup' = backup \ {e}
    /\ ProceedWith("restore", task.todo \ {e})
    /\ UNCHANGED <<installed, sessions, removal>>

AllBack ==
    /\ task.pc = "restore" /\ task.todo = {}
    /\ Proceed("restored")
    /\ UNCHANGED uninstallDisk

\* The removal of the journal; then the operation goes on, if it was not the
\* one that failed.
Restored ==
    /\ task.pc = "restored"
    /\ removal' = NoRemoval
    /\ task' = [task EXCEPT !.pc = IF task.recovering THEN AfterLoad ELSE "idle",
                        !.recovering = FALSE]
    /\ UNCHANGED <<at, backup, installed, sessions>>

-----------------------------------------------------------------------------
\* finalizeUninstallJournal
RemoveLedger ==
    /\ task.pc = "finalize"
    /\ installed' = FALSE
    /\ ProceedWith("discard", removal.entries)
    /\ UNCHANGED <<at, backup, sessions, removal>>

Discard(e) ==
    /\ task.pc = "discard" /\ FirstEntry(e)
    /\ backup' = backup \ {e}
    /\ ProceedWith("discard", task.todo \ {e})
    /\ UNCHANGED <<at, installed, sessions, removal>>

\* Mutant: a backup that cannot be removed is left behind.
DiscardedRegardless ==
    /\ task.pc = "discard"
    /\ removal.purge => task.kind = "uninstall"
    /\ Proceed(IF removal.purge THEN "purge" ELSE "forget")
    /\ UNCHANGED uninstallDisk

\* A purge needs the admission lock, which an install does not have.
Discarded ==
    /\ task.pc = "discard" /\ task.todo = {}
    /\ removal.purge => task.kind = "uninstall"
    /\ Proceed(IF removal.purge THEN "purge" ELSE "forget")
    /\ UNCHANGED uninstallDisk

CannotPurge ==
    /\ task.pc = "discard" /\ task.todo = {} /\ removal.purge /\ task.kind = "install"
    /\ EndTask
    /\ UNCHANGED uninstallDisk

Purge ==
    /\ task.pc = "purge"
    /\ sessions' = FALSE
    /\ Proceed("forget")
    /\ UNCHANGED <<at, backup, installed, removal>>

\* The journal goes by itself or with the whole install state.  An uninstall
\* that only finished an earlier one returns; an install goes on.
Forget ==
    /\ task.pc = "forget"
    /\ removal' = NoRemoval
    /\ task' = [task EXCEPT !.pc = IF task.kind = "install" THEN "install" ELSE "idle",
                        !.recovering = FALSE]
    /\ UNCHANGED <<at, backup, installed, sessions>>

-----------------------------------------------------------------------------
\* A whole installation or upgrade, and setup and use of the program after it.
Install ==
    /\ task.pc = "install"
    /\ \A e \in Required \ Shell : at[e] = IF installed THEN "original" ELSE "none"
    /\ installed' = TRUE /\ sessions' = TRUE
    /\ \E optional \in SUBSET Optional :
          at' = [e \in Entry |-> IF e \in Required \cup optional THEN "original" ELSE at[e]]
    /\ EndTask
    /\ UNCHANGED <<backup, removal>>

TaskStarted ==
    \/ BeginTask("install", FALSE)
    \/ \E purge \in BOOLEAN : BeginTask("uninstall", purge)

Work ==
    \/ RecoverInstall \/ LoadNothing \/ LoadUncommitted \/ LoadCommitted
    \/ Prepare \/ Applied \/ CommitRemoval
    \/ AllBack \/ Restored
    \/ RemoveLedger \/ Discarded \/ CannotPurge \/ Purge \/ Forget \/ Install
    \/ \E e \in Entry :
          \/ Rename(e) \/ Replace(e) \/ AlreadyBack(e) \/ RemoveReplacement(e)
          \/ PutBack(e) \/ Discard(e)

RemovalFailure == StopTask \/ FailRemoval \/ PrepareFails \/ CommitUnknown

UninstallNext == TaskStarted \/ Work \/ RefuseTask \/ RemovalFailure

UninstallSpec == UninstallInit /\ [][UninstallNext]_uninstallVars

\* An operation goes on, and the user runs uninstall again.
RemovalFairness ==
    /\ WF_uninstallVars(Work \/ RefuseTask)
    /\ SF_uninstallVars(\E purge \in BOOLEAN : BeginTask("uninstall", purge))

UninstallLiveSpec == UninstallSpec /\ RemovalFairness
=============================================================================
