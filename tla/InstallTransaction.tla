-------------------------- MODULE InstallTransaction --------------------------
(***************************************************************************)
(* Install, upgrade and rollback of the program (internal/setup/install.go)*)
(* as steps on the file system: releases/<tag>, the link `current`, the    *)
(* launchers in the bin directory, ledger.json and transaction.json.       *)
(*                                                                         *)
(* Operations exclude each other by the install lock, which the kernel     *)
(* releases when a process dies, so one operation is in progress at most.  *)
(* Every step may fail, before or after it took effect, and the process    *)
(* may die between any two; somebody else may meanwhile change a launcher  *)
(* or put a directory where a release would go.                            *)
(***************************************************************************)
EXTENDS Naturals

CONSTANTS Release,          \* release tags
          NoRelease,
          Staging,          \* the private .staging- directory of an operation
          Launchers,        \* how many launchers schema 3 installs
          OldLaunchers,     \* how many schema 2 installed
          NoLedger, NoJournal,
          EditedLaunchers,  \* the launchers somebody else changes
          EditedReleases    \* the tags somebody else makes directories for

Launcher == 1 .. Launchers          \* in the order of launcherPathsForSchema
LauncherOf(schema) == IF schema = 3 THEN Launcher ELSE 1 .. OldLaunchers
Place == Release \cup {Staging}       \* where a release directory may be

ASSUME LaunchersAssumption ==
    Launchers \in Nat /\ OldLaunchers \in Nat /\ OldLaunchers <= Launchers
ASSUME ReleaseAssumption ==
    /\ NoRelease \notin Release /\ Staging \notin Release /\ Staging # NoRelease
    /\ Place \cap Launcher = {}
ASSUME EditsAssumption ==
    EditedLaunchers \subseteq Launcher /\ EditedReleases \subseteq Release

VARIABLES
    dir,        \* what is at each place: nothing, a verified release or neither
    trash,      \* what is at its .rollback- name: "stale" if no journal knows it
    current,    \* the release the link `current` names
    launcher,   \* each launcher: absent, our link, a file, somebody's link
    ledger,     \* ledger.json
    journal,    \* transaction.json
    op          \* the operation in progress and its local state

disk == <<dir, trash, current, launcher, ledger, journal>>
vars == <<dir, trash, current, launcher, ledger, journal, op>>

Ledger == [schema : {2, 3},
           current : Release,
           previous : Release \cup {NoRelease},
           releases : SUBSET Release,     \* the tags recorded as owned
           codex : SUBSET Release,        \* those that know native Codex
           files : SUBSET Launcher]       \* the launchers recorded as owned

ASSUME NoneAssumption == NoLedger \notin Ledger

LauncherState == {"none", "ours", "file", "link"}

Journal == [prior : Ledger \cup {NoLedger},
            priorCurrent : Release \cup {NoRelease},
            priorLauncher : [Launcher -> LauncherState \ {"file"}],
            next : Ledger,              \* known on disk by its digest
            created : BOOLEAN,          \* the release is staged, not reused
            pruned : SUBSET Release]

ASSUME NoJournalAssumption == NoJournal \notin Journal

ApplyPC == {"publish", "switch", "link", "ledger", "commit"}
RestorePC == {"restoreCurrent", "restoreLaunchers", "restoreLedger", "removeNew", "restored"}
ForwardPC == {"prune", "clear"}
OpPC == {"idle", "recover", "preflight", "stage", "plan"} \cup ApplyPC \cup RestorePC \cup ForwardPC

Op == [pc : OpPC, kind : {"install", "rollback"}, tag : Release,
       recovering : BOOLEAN,            \* on behalf of an earlier operation
       warned : BOOLEAN,                \* an artifact could not be removed
       todo : SUBSET (Launcher \cup Place)]

TypeOK ==
    /\ dir \in [Place -> {"none", "ours", "foreign"}]
    /\ trash \in [Place -> {"none", "ours", "stale"}]
    /\ current \in Release \cup {NoRelease}
    /\ launcher \in [Launcher -> LauncherState]
    /\ ledger \in Ledger \cup {NoLedger}
    /\ journal \in Journal \cup {NoJournal}
    /\ op \in Op

-----------------------------------------------------------------------------
\* Nothing installed, or what a release before schema 3 left.
FreshInit ==
    /\ ledger = NoLedger /\ current = NoRelease
    /\ dir = [p \in Place |-> "none"]
    /\ launcher = [l \in Launcher |-> "none"]

OldInit ==
    /\ ledger \in [schema : {2}, current : Release, previous : Release \cup {NoRelease},
                   releases : SUBSET Release, codex : {{}}, files : {LauncherOf(2)}]
    /\ ledger.previous # ledger.current
    /\ ledger.releases = {ledger.current, ledger.previous} \ {NoRelease}
    /\ current = ledger.current
    /\ dir = [p \in Place |-> IF p \in ledger.releases THEN "ours" ELSE "none"]
    /\ launcher = [l \in Launcher |-> IF l \in ledger.files THEN "ours" ELSE "none"]

Init ==
    /\ FreshInit \/ OldInit
    /\ trash = [p \in Place |-> "none"]
    /\ journal = NoJournal
    /\ op \in [pc : {"idle"}, kind : {"install"}, tag : Release, recovering : {FALSE},
               warned : {FALSE}, todo : {{}}]

Goto(pc) == op' = [op EXCEPT !.pc = pc]
GotoWith(pc, todo) == op' = [op EXCEPT !.pc = pc, !.todo = todo]

\* The operation returns.  A stage no journal names stays behind under its
\* random name and is never looked at again.
Return ==
    /\ op' = [op EXCEPT !.pc = "idle", !.todo = {}]
    /\ dir' = IF journal = NoJournal THEN [dir EXCEPT ![Staging] = "none"] ELSE dir

Begin(kind, tag) ==
    /\ op.pc = "idle"
    /\ op' = [pc |-> "recover", kind |-> kind, tag |-> tag, recovering |-> FALSE,
              warned |-> FALSE, todo |-> {}]
    /\ UNCHANGED disk

\* The process dies, or a step that is not undone fails before or after its
\* effect: what the steps so far did to the disk stays.
Stop ==
    /\ op.pc # "idle"
    /\ Return
    /\ UNCHANGED <<trash, current, launcher, ledger, journal>>

-----------------------------------------------------------------------------
\* preflightLedger
Intact(l) ==
    /\ \A t \in {l.current, l.previous} \ {NoRelease} : t \in l.releases /\ dir[t] = "ours"
    /\ current = l.current
    /\ \A p \in LauncherOf(l.schema) : p \in l.files /\ launcher[p] = "ours"

\* preflightFreshInstall
Unoccupied == current = NoRelease /\ \A p \in Launcher : launcher[p] = "none"

\* preflightLauncherUpgrade
Upgradable(l) == \A p \in Launcher \ LauncherOf(l.schema) : launcher[p] = "none"

CanInstall ==
    /\ op.kind = "install"
    /\ IF ledger = NoLedger THEN Unoccupied ELSE Intact(ledger) /\ Upgradable(ledger)

\* The tag is installed already and nothing is to be migrated.
UpToDate == ledger # NoLedger /\ ledger.current = op.tag /\ ledger.schema = 3

\* Across the native Codex boundary there is no way back.
CanRollBack ==
    /\ op.kind = "rollback"
    /\ ledger # NoLedger /\ Intact(ledger)
    /\ ledger.previous \in ledger.codex \cap ledger.releases

PreflightInstall ==
    /\ op.pc = "preflight" /\ CanInstall /\ ~UpToDate
    /\ Goto("stage")
    /\ UNCHANGED disk

PreflightRollback ==
    /\ op.pc = "preflight" /\ CanRollBack
    /\ op' = [op EXCEPT !.pc = "plan", !.tag = ledger.previous]
    /\ UNCHANGED disk

\* A release directory that is there is used if it is ours and recorded; the
\* staged copy is then discarded.
Recorded(t) == ledger # NoLedger /\ t \in ledger.releases
CanStage(t) == dir[t] = "none" \/ (dir[t] = "ours" /\ Recorded(t))

StageRelease ==
    /\ op.pc = "stage" /\ CanStage(op.tag)
    /\ dir' = IF dir[op.tag] = "none" THEN [dir EXCEPT ![Staging] = "ours"] ELSE dir
    /\ Goto("plan")
    /\ UNCHANGED <<trash, current, launcher, ledger, journal>>

\* A failed check, or nothing to do.
Refuse ==
    /\ \/ op.pc = "preflight" /\ ~CanRollBack /\ (CanInstall => UpToDate)
       \/ op.pc = "stage" /\ ~CanStage(op.tag)
    /\ Return
    /\ UNCHANGED <<trash, current, launcher, ledger, journal>>

-----------------------------------------------------------------------------
OwnedReleases == IF ledger = NoLedger THEN {} ELSE ledger.releases
OwnedFiles(l) == IF l = NoLedger THEN {} ELSE l.files

PreviousOf(t) == IF ledger = NoLedger THEN NoRelease
                 ELSE IF ledger.current # t THEN ledger.current ELSE ledger.previous

\* Recorded releases that are neither the current nor the previous one.  A
\* missing one is forgotten, a modified one stays recorded (planOwnedReleasePrune).
Superseded(t) == OwnedReleases \ {t, PreviousOf(t)}
Prunable(t) == {r \in Superseded(t) : dir[r] = "ours"}

NextLedger(t) ==
    LET gone == {r \in Superseded(t) : dir[r] # "foreign"}
    IN  [schema |-> 3, current |-> t, previous |-> PreviousOf(t),
         releases |-> (OwnedReleases \cup {t}) \ gone,
         codex |-> ((IF ledger = NoLedger THEN {} ELSE ledger.codex) \cup {t}) \ gone,
         files |-> Launcher]

\* captureJournal
Capture(t) == [prior |-> ledger, priorCurrent |-> current, priorLauncher |-> launcher,
               next |-> NextLedger(t), created |-> dir[Staging] = "ours",
               pruned |-> Prunable(t)]

CanCapture == \A l \in Launcher : launcher[l] # "file"

WriteJournal ==
    /\ op.pc = "plan" /\ CanCapture
    /\ journal' = Capture(op.tag)
    /\ Goto(IF dir[Staging] = "ours" THEN "publish" ELSE "switch")
    /\ UNCHANGED <<dir, trash, current, launcher, ledger>>

\* The write reports an error, but may have renamed the journal into place; the
\* removal of the staged release may stop at any of its steps.
WriteJournalFails ==
    /\ op.pc = "plan"
    /\ Goto("idle")
    /\ \/ UNCHANGED journal /\ dir' = [dir EXCEPT ![Staging] = "none"] /\ UNCHANGED trash
       \/ /\ CanCapture
          /\ journal' = Capture(op.tag)
          /\ \/ UNCHANGED <<dir, trash>>
             \/ /\ dir[Staging] = "ours"
                /\ dir' = [dir EXCEPT ![Staging] = "none"]
                /\ trash' \in {trash, [trash EXCEPT ![Staging] = "ours"]}
    /\ UNCHANGED <<current, launcher, ledger>>

\* RenameNoReplace of the staged directory.
Publish ==
    /\ op.pc = "publish" /\ dir[op.tag] = "none"
    /\ dir' = [dir EXCEPT ![Staging] = "none", ![op.tag] = "ours"]
    /\ Goto("switch")
    /\ UNCHANGED <<trash, current, launcher, ledger, journal>>

NewLaunchers == Launcher \ OwnedFiles(journal.prior)

SwitchCurrent ==
    /\ op.pc = "switch"
    /\ current' = op.tag
    /\ GotoWith("link", NewLaunchers)
    /\ UNCHANGED <<dir, trash, launcher, ledger, journal>>

First(l) == l \in op.todo /\ \A k \in op.todo : l <= k
Visited(l) == op' = [op EXCEPT !.todo = @ \ {l}]

\* Mutant: the new launcher replaces what is there (ln -sf).
LinkLauncherForced(l) ==
    /\ op.pc = "link" /\ First(l)
    /\ launcher' = [launcher EXCEPT ![l] = "ours"]
    /\ Visited(l)
    /\ UNCHANGED <<dir, trash, current, ledger, journal>>

\* os.Symlink replaces nothing.
LinkLauncher(l) ==
    /\ op.pc = "link" /\ First(l) /\ launcher[l] = "none"
    /\ launcher' = [launcher EXCEPT ![l] = "ours"]
    /\ Visited(l)
    /\ UNCHANGED <<dir, trash, current, ledger, journal>>

Linked ==
    /\ op.pc = "link" /\ op.todo = {}
    /\ Goto("ledger")
    /\ UNCHANGED disk

WriteLedger ==
    /\ op.pc = "ledger"
    /\ ledger' = journal.next
    /\ Goto("commit")
    /\ UNCHANGED <<dir, trash, current, launcher, journal>>

\* The state directory is synced: from here on failures are only reported.
Commit ==
    /\ op.pc = "commit"
    /\ GotoWith("prune", journal.pruned)
    /\ UNCHANGED disk

\* A step of the activation fails, before or after its effect, and the prior
\* state is restored.
Fail ==
    /\ op.pc \in ApplyPC
    /\ GotoWith("restoreCurrent", {})
    /\ UNCHANGED disk

\* The two that others can make fail.
Obstructed ==
    \/ op.pc = "publish" /\ dir[op.tag] # "none"
    \/ op.pc = "link" /\ \E l \in Launcher : First(l) /\ launcher[l] # "none"

-----------------------------------------------------------------------------
\* Mutant: the ledger alone decides whether the transaction was completed.
CompleteByLedger(j) == ledger = j.next

\* installJournalComplete
Complete(j) ==
    /\ ledger = j.next
    /\ current = j.next.current
    /\ \A l \in Launcher : launcher[l] = "ours"
    /\ dir[j.next.current] = "ours"

NothingToRecover ==
    /\ op.pc = "recover" /\ journal = NoJournal
    /\ Goto("preflight")
    /\ UNCHANGED disk

RecoverForward ==
    /\ op.pc = "recover" /\ journal # NoJournal /\ Complete(journal)
    /\ op' = [op EXCEPT !.pc = "prune", !.todo = journal.pruned, !.recovering = TRUE]
    /\ UNCHANGED disk

\* Mutant: recovery restores the prior state even if the new one is complete.
RecoverBackAlways ==
    /\ op.pc = "recover" /\ journal # NoJournal
    /\ op' = [op EXCEPT !.pc = "restoreCurrent", !.recovering = TRUE]
    /\ UNCHANGED disk

RecoverBack ==
    /\ op.pc = "recover" /\ journal # NoJournal /\ ~Complete(journal)
    /\ op' = [op EXCEPT !.pc = "restoreCurrent", !.recovering = TRUE]
    /\ UNCHANGED disk

\* Mutant: the link is left as it is while the new release is taken away.
RestoreCurrentNever ==
    /\ op.pc = "restoreCurrent"
    /\ GotoWith("restoreLaunchers", Launcher)
    /\ UNCHANGED disk

RestoreCurrent ==
    /\ op.pc = "restoreCurrent"
    /\ current' = journal.priorCurrent
    /\ GotoWith("restoreLaunchers", Launcher)
    /\ UNCHANGED <<dir, trash, launcher, ledger, journal>>

\* restoreLauncher gives up on an entry that is neither the old nor our link.
Restorable(l) == launcher[l] \in {"none", "ours", journal.priorLauncher[l]}

RestoreLauncher(l) ==
    /\ op.pc = "restoreLaunchers" /\ First(l) /\ Restorable(l)
    /\ launcher' = [launcher EXCEPT ![l] = journal.priorLauncher[l]]
    /\ Visited(l)
    /\ UNCHANGED <<dir, trash, current, ledger, journal>>

LaunchersRestored ==
    /\ op.pc = "restoreLaunchers" /\ op.todo = {}
    /\ Goto("restoreLedger")
    /\ UNCHANGED disk

RestoreLedger ==
    /\ op.pc = "restoreLedger"
    /\ ledger' = journal.prior
    /\ GotoWith("removeNew", IF journal.created THEN {Staging, journal.next.current} ELSE {})
    /\ UNCHANGED <<dir, trash, current, launcher, journal>>

-----------------------------------------------------------------------------
\* removeOwnedReleaseDirectory: rename to .rollback-, then remove that.  The
\* new release is removed stage first; superseded ones in any order.
NextArtifact(p) ==
    /\ op.pc \in {"removeNew", "prune"}
    /\ p \in op.todo
    /\ (op.pc = "removeNew" /\ Staging \in op.todo) => p = Staging

MoveToTrash(p) ==
    /\ NextArtifact(p) /\ dir[p] = "ours" /\ trash[p] = "none"
    /\ dir' = [dir EXCEPT ![p] = "none"]
    /\ trash' = [trash EXCEPT ![p] = "ours"]
    /\ UNCHANGED <<current, launcher, ledger, journal, op>>

\* Mutant: an artifact that is gone already is an error.
EmptyTrashPresent(p) ==
    /\ NextArtifact(p) /\ dir[p] = "none" /\ trash[p] = "ours"
    /\ trash' = [trash EXCEPT ![p] = "none"]
    /\ Visited(p)
    /\ UNCHANGED <<dir, current, launcher, ledger, journal>>

EmptyTrash(p) ==
    /\ NextArtifact(p) /\ dir[p] = "none" /\ trash[p] \in {"none", "ours"}
    /\ trash' = [trash EXCEPT ![p] = "none"]
    /\ Visited(p)
    /\ UNCHANGED <<dir, current, launcher, ledger, journal>>

\* Both names taken, or one of them by something this journal does not own.
Irremovable(p) ==
    \/ dir[p] = "foreign" \/ trash[p] = "stale"
    \/ dir[p] # "none" /\ trash[p] # "none"

\* A superseded release that cannot be removed, for that or another reason, is
\* reported; the others are still removed.
PruneFails(p) ==
    /\ op.pc = "prune" /\ NextArtifact(p)
    /\ op' = [op EXCEPT !.todo = @ \ {p}, !.warned = TRUE]
    /\ UNCHANGED disk

CannotRemoveNew ==
    /\ op.pc = "removeNew" /\ \E p \in Place : NextArtifact(p) /\ Irremovable(p)
    /\ Return
    /\ UNCHANGED <<trash, current, launcher, ledger, journal>>

CannotRestoreLauncher ==
    /\ op.pc = "restoreLaunchers" /\ \E l \in Launcher : First(l) /\ ~Restorable(l)
    /\ Return
    /\ UNCHANGED <<trash, current, launcher, ledger, journal>>

\* Mutant: the journal is removed although an artifact is left.
PrunedRegardless ==
    /\ op.pc = "prune" /\ op.todo = {}
    /\ Goto("clear")
    /\ UNCHANGED disk

\* The journal stays for the next operation if something was reported.
Pruned ==
    /\ op.pc = "prune" /\ op.todo = {}
    /\ Goto(IF op.warned THEN "idle" ELSE "clear")
    /\ UNCHANGED disk

NewRemoved ==
    /\ op.pc = "removeNew" /\ op.todo = {}
    /\ Goto("restored")
    /\ UNCHANGED disk

\* What is left under a .rollback- name is from now on nobody's.
ClearJournal ==
    /\ op.pc \in {"clear", "restored"}
    /\ journal' = NoJournal
    /\ trash' = [p \in Place |-> IF trash[p] = "ours" THEN "stale" ELSE trash[p]]
    /\ op' = [op EXCEPT !.pc = IF op.recovering THEN "preflight" ELSE "idle",
                        !.recovering = FALSE]
    /\ UNCHANGED <<dir, current, launcher, ledger>>

-----------------------------------------------------------------------------
\* Somebody else removes, replaces or restores a launcher, or makes and removes
\* a directory of their own where a release would go.
EditLauncher(l) ==
    /\ launcher' \in {[launcher EXCEPT ![l] = v] : v \in LauncherState}
    /\ UNCHANGED <<dir, trash, current, ledger, journal, op>>

EditRelease(t) ==
    /\ \/ dir[t] = "none" /\ dir' = [dir EXCEPT ![t] = "foreign"]
       \/ dir[t] = "foreign" /\ dir' = [dir EXCEPT ![t] = "none"]
    /\ UNCHANGED <<trash, current, launcher, ledger, journal, op>>

Activate ==
    \/ PreflightInstall \/ PreflightRollback \/ StageRelease \/ Refuse
    \/ WriteJournal \/ Publish \/ SwitchCurrent \/ Linked \/ WriteLedger \/ Commit
    \/ \E l \in Launcher : LinkLauncher(l)

Recover ==
    \/ NothingToRecover \/ RecoverForward \/ RecoverBack
    \/ RestoreCurrent \/ LaunchersRestored \/ RestoreLedger \/ NewRemoved
    \/ Pruned \/ ClearJournal \/ CannotRemoveNew \/ CannotRestoreLauncher
    \/ \E l \in Launcher : RestoreLauncher(l)
    \/ \E p \in Place : MoveToTrash(p) \/ EmptyTrash(p)
    \/ \E p \in Place : PruneFails(p) /\ Irremovable(p)
    \/ Fail /\ Obstructed

Started == \E kind \in {"install", "rollback"}, tag \in Release : Begin(kind, tag)

Failure ==
    \/ Stop \/ Fail \/ WriteJournalFails
    \/ \E p \in Place : PruneFails(p)

Others ==
    \/ \E l \in EditedLaunchers : EditLauncher(l)
    \/ \E t \in EditedReleases : EditRelease(t)

Next == Started \/ Activate \/ Recover \/ Failure \/ Others

Spec == Init /\ [][Next]_vars

\* An operation goes on, and the user runs another one after it.
Fairness == WF_vars(Activate \/ Recover) /\ WF_vars(Started)

LiveSpec == Spec /\ Fairness
=============================================================================
