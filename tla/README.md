# Shellmates, specified

TLA+ models of `sclaude` (the Shellmates session manager), checked with TLC and
in part proved with TLAPS.  Paths below are relative to the repository root
(`src/` in the module comments and in `PROJECT.json`).

## 1. The system and what is hard about it

| component | state it keeps | operations | interacts with |
|---|---|---|---|
| session record and store (`internal/session/model.go`, `store.go`, `storage_security.go`) | `sessions/<id>.json`, `launch/<id>.json`, the store's flock | Save, FailLaunch, ClaimRunner, MarkStarted, Finish, requestStop, stop, Update, Delete, SaveLaunch, ConsumeLaunch, CleanupLaunches, List | every process of the program, through files |
| session manager (`internal/session/manager.go`) | none of its own; snapshots of records and sockets | Create, List (with reconcile), Stop, Prune, Attach | store, Screen, admission lock |
| session runner (`internal/app/dispatch.go` `runSession`, `shutdown.go`) | the child process it started | load, consume, claim, start, mark, supervise, acknowledge | store, Screen, the backend child |
| GNU Screen (external) and its client (`internal/screen`) | one server per session | `-dmS`, `-ls`, `-X quit` | starts the runner, answers late or not at all |
| state-root admission lock (`internal/stateroot`) | a flock on the state root | Acquire, Release | create, setup, uninstall, LoadRuntime |
| runtime configuration (`internal/config`) | one file | Load, Save | setup writes it, creation is admitted under it |
| setup workflow (`internal/setup/workflow.go`, `setup_transaction.go`, `setup_shell_transaction.go`, `service_transaction.go`) | journal, staged files, backups, service state | prepare, apply, commit, abort, recover | admission lock, configuration, shell files, service manager |
| install, rollback (`install.go`) and update (`update.go`) | releases, `current`, launchers, ledger, journal | stage, publish, activate, prune, recover | uninstall |
| uninstall (`uninstall.go`) | journal, renamed artifacts | prepare, apply, commit, restore, finalize | all of the above |
| shell blocks (`shell.go`), file operations (`internal/fssecure`) | startup files | add, replace, remove a block; atomic replacement | setup, uninstall |
| harness installer (`internal/harness`) | installed skills and their manifest | install, remove | files of other tools |
| backend command, managed settings, proxy, dependencies, executable trust, doctor, menu, scripts | none, or that of other programs | | |

The difficult behaviour is not in any single function.  It is that

* four kinds of processes (creating manager, listing or stopping manager,
  runner, uninstall) change one record, each with its own idea of its state;
  most reads happen outside the store's lock;
* any of them may die between two steps, and Screen may do what it was asked to
  although it reported an error;
* the only proof that a backend ended is the acknowledgement of the one runner
  that waited for it, and everything that discards a session must rest on it;
* installation, setup and uninstall are sequences of renames that a crash may
  cut anywhere and the next process must complete or undo.

What makes each component correct, in a sentence:

* *record*: a lifecycle only goes forward, and no acknowledgement is lost;
* *manager and runner*: a live backend always has a record that names its
  runner and says that its exit is unconfirmed; `stop` succeeds only after the
  end; a request for a backend is used once;
* *admission*: nothing is created under a configuration that is not in force
  or while uninstall proves inactivity; the lock is always given back;
* *store files*: a reader sees an old or a new document, never a torn one;
  arguments do not outlive their consumption;
* *install, setup, uninstall*: after recovery all of the new state or all of
  the old one, whatever step the crash or the failure hit, and no file of
  somebody else is touched.

`PROJECT.json` lists every component with its status and every hazard with the
line where it bites and the properties that watch it.

## 2. Modules

| module | models |
|---|---|
| `SessionStore` | the record and the pure part of each `Store` operation: `CanX(d)` is when it returns no error, `X(d)` what it writes |
| `SessionLifecycle` | managers, runners, Screen servers, backends, the admission lock, the configuration and the installation, over `SessionStore` |
| `SessionContract` | the abstract promise: claim, spawn, exit, acknowledge, end, remove; no processes, files or locks |
| `SessionProperties` | the properties, the fairness and the refinement mapping from `SessionLifecycle` to `SessionContract` |
| `SessionTypeProofs` | type correctness, by kind of step |
| `SessionLifecycleProofs` | the inductive invariants and the safety theorems |
| `MCSessionLifecycle` | the small instances that TLC checks; the `.cfg` files choose among its definitions |
| `InstallTransaction` | install, upgrade and rollback as steps on releases, the link `current`, launchers, ledger and journal |
| `InstallContract` | the abstract promise: one release is active, the one before it is kept, a change happens at once |
| `InstallProperties` | the properties and the refinement mapping from `InstallTransaction` to `InstallContract` |
| `InstallProofs` | the inductive invariant and the theorems about installation |
| `MCInstall` | the instance of finding 2 |
| `UninstallTransaction` | uninstall and purge as steps on the owned paths, their backups, the ledger and the journal; what the next uninstall or install makes of it |
| `UninstallProperties` | the properties of uninstall |
| `UninstallProofs` | the inductive invariant and the theorems about uninstall |
| `SetupTransaction` | setup: the targets under their four names, the journal, the proxy's service and its login; abort, commit and recovery by the next setup or load |
| `SetupProperties` | the properties of setup |
| `SetupProofs` | the inductive invariant and the theorems about setup's journal and service |
| `SetupFilesProofs` | the inductive invariant and the theorems about its files |
| `SessionFiles` | the session store's files, system call by system call, with what a power failure leaves of them |
| `StoreContract` | the abstract promise: documents under public names that change one at a time and at once, by the operation in progress; no temporary files, claims, sweeps or syncs |
| `SessionFilesProofs` | the inductive invariant and the theorems about the store's files, and that they implement `StoreContract` |
| `PrivateFile` | one private file that is replaced while any other program changes it: `writeAtomic`, `WriteNewVerified`, `savePrivateAtomic` |
| `StartupFile` | the PATH block in a startup file and its record in the install ledger, through setup, update, uninstall and the user's editor |
| `ProxyConfig` | the proxy's configuration file: what setup merges into it, checks and puts back |
| `SeqFilter` | the filter loop that the last two share |
| `UserFilesProofs` | the inductive invariants and the theorems about the private file, the startup file and the proxy's file |
| `MCRecovery` | the small instances of installation, uninstall and store files with failures and crashes |
| `MCFiles` | the small instances of everything that shares files with its user: setup, installation, private file, startup file, proxy |

### How `SessionLifecycle` reads

*Granularity.*  A store operation runs under the store's flock from its read to
its write and is one action.  Everything else is its own action: an unlocked
read, a directory listing, a `screen` command, a wait.  So `reconcile` works on
a snapshot (`mgr[m].snap`) that may be arbitrarily old, record by record, and on
a socket list (`mgr[m].socks`) that is older still.

*Data.*  A PID is the runner it belongs to, or only its presence; topics,
directories, reasons and arguments are left out.  Time is `age[s]`: whether
`CreatedAt` lies more than `startingGrace` back.

*Managers.*  `mgr[m].pc` is the place in `Create`, `List`, `Stop`, `Prune` or
the uninstall branch of `runSubcommand`; a manager that is done is idle again
and may be given any command of `CommandsOf[m]`.

*Failures.*  `Save` and `SaveLaunch` may fail before or after their rename;
`screen -dmS`, `-ls` and `-X quit` may fail, the first and last of them after
they took effect; preparing or starting the backend may fail; `Wait` may
return something that is no exit status.  The managers in `Crashable` may be killed anywhere, which frees
their admission lock, and so may every runner, whose child may live on.  The
other store operations are taken to succeed in their I/O.

*Installation.*  `inst` and `purge` abstract the uninstall transaction to its
commit and its finalization; `StartFinalize` is the rerun after a crash between
them.  A server started after the commit runs no runner, for the binary is gone.

*Old releases.*  `Legacy` is a set of sets of runners, one of which an older
release left alive.  Such a runner has no shutdown protocol: its record names
a runner and a backend from the start and is ended by an exit code only.

*By hand.*  A runner in `ByHand` is a repeated `_run-session <id>` for a listed
session.

### How `InstallTransaction` reads

*Disk.*  Six variables are on disk, `op` is the memory of the process.  A
release directory is nothing, `ours` (it has the recorded digest and identity)
or `foreign`.  Besides the tags there is one more place, `Staging`, the private
copy of the running operation.  `trash[p]` is the `.rollback-` name to which
`removeOwnedReleaseDirectory` moves a directory before it removes it; once the
journal that knows its identity is gone, what is left there is `stale` and
nobody may touch it.  `journal.next` is in the code only the digest of the new
ledger.

*Operations.*  The install lock is a flock, so one operation runs at a time and
a crash frees it.  `op.pc` follows `installBinaryWithOps` or `rollbackWithOps`:
recover, preflight, stage, plan, then the steps of `activateRelease`, and from
any of these the steps of `restoreInstallJournal`.  A recovery on behalf of an
earlier operation (`recovering`) goes on with the new one.

*Failures.*  `Stop` is a crash at any point, and also every failure after which
the code returns and leaves the rest to the next operation.  `Fail` is one in
`activateRelease` that restores the prior state; since it does not ask whether
the step it replaces took effect before, it covers a rename that happened and a
directory sync that failed.  A write of the journal may report an error and yet
be on disk.  A stage that no journal names is forgotten: its name is random.

*Others.*  `EditLauncher` and `EditRelease` are other programs in the bin
directory and under `releases`.  The code can only refuse to touch what is
theirs; several properties say so, others are claimed without such edits.

### How `UninstallTransaction` reads

*Disk.*  The paths that `prepareUninstall` may list are the numbers `1 ..
Entries`, in its order: startup files (`Shell`, which get a version without our
block), launchers, `current` and the two releases in use, older releases that
may be gone (`Optional`), and the files that only a purge lists (`Private`).  At
a path is nothing, the original or the replacement; `backup` says whose original
is at its backup name.  `installed` is the ledger, `removal` the journal, `task` the
operation.  `sessions` stands for the session and launch directories.

*Operations.*  `task.pc` follows `uninstallWithOps` and the three functions it
calls, one rename, write or removal at a time.  An install (and with it a
rollback and the shell part of setup, which recover in the same way) is the
recovery that it begins with and one step for the rest.  So is the recovery of
`transaction.json`, which `InstallTransaction` has in detail, and the inactivity
proof, which `SessionLifecycle` has.

*Failures.*  `StopTask` is a crash anywhere, or a failure after which the code
returns; `FailRemoval` one after which it restores what it renamed, whether or not the
failing step took effect.  Either write of the journal may report an error and
be on disk; the code reads the second one back, which may fail too.  Nobody else
changes the listed paths, so a restoration never refuses.

`inst` and `purge` of `SessionLifecycle` are this transaction seen from outside:
`CommitUninstall` is `CommitRemoval`, `FinalizeUninstall` the steps from
`RemoveLedger` to `Forget`.  The correspondence is by reading, no run checks it.

### How `SetupTransaction` reads

*Disk.*  A target is a number; setup takes them in order, those in `Late` after
service and login (the runtime configuration is the last).  `at[p]` is the file
under each of the target's four names: `path`, `.backup`, `.stage`,
`.replacement`.  A file is the one found (`before`), the one to be installed
(`after`) or somebody else's (`user`); two names with the same value are hard
links.  `kind[p]` is what the transaction found: nothing (`created`), something
to be replaced, or already what it wants (`same`).  `Intact` is the comparison
with a recorded digest, mode and identity.

*Others.*  `Edit` lets another program put a file in place of a target, remove
it, or write to it in place, once for each target and transaction.  A write in
place changes the file under all its linked names, so `edit[p]` says which file
it was.  A new file with the recorded content counts as somebody else's.

*Journal.*  Snapshot and first write are one action, and so are the journal's
record of a staged or published identity and the link or rename it goes with.
What the process holds in memory may be newer than the disk after a write that
failed: `unsaved`, and `op.flags` against `journal.flags`.  A journal is removed
only if it is the one in memory.

*Service.*  `Commanded(pc)` is what a command does that works; `CommandFails`
lets it have its effect or not, or leave the service stopped in the middle of a
restart.  Manager `none` stands for docker, an external proxy and a system
service: no command is run.  Under Homebrew starting and scheduling are one
thing.

*Operations.*  `op.pc` follows `runWorkflow`, `applyPreparedFile`, `commit`,
`finalizeSetupJournal`, `rollbackSetupEntry` and the service calls around them.
`LoadRuntime` finishes a committed setup and refuses an uncommitted one.  When
the same process tries a failed finalization again, that is the next
operation's finalization in the model.  The admission lock lets one operation
run; a crash frees it.

*Left out.*  Journals of schema 2 and 3, modes of parent directories, and names
that the journal does not know: preparing a file may leave an unpublished
`.sclaude-` temporary beside the target, which `AllOrNothing` does not count.  A dry
run only reads.

### How `SessionFiles` reads

*Granularity.*  Where `SessionLifecycle` takes a store operation as one step,
`call` walks through it one system call at a time: the sweep of `withLock`
(`Sweep`, `SweepSync`, once for each directory), then for a write the temporary
file, its fsync, the rename and the directory's fsync; for a consume the rename
to the claim, its reading and removal, the fsync; for the rest removals with an
fsync each.

*Disk.*  `visible` is what a process finds under a name, `durable` what is there
after a power failure.  A directory's fsync makes them equal for its names, and
any name may get there before by itself (`WriteBack`).  A file that was renamed
into place without its own fsync may come back torn.

*Failures.*  `GivesUp` is an error of any call, or the death of the process,
`GivesUpWriting` the removal of the temporary file on an error of a write,
`PowerFailure` what it says.  The creation of the two directories, whose entry
in the state root is not synced, lies before the model begins.

`reported` remembers what an operation that returned without error has made of
the names that it changed.  An update that leaves the record as it is after the
fsync of an earlier one failed returns success without a sync; it changed
nothing, and nothing is claimed of it.

*Contract.*  `StoreContract` is the store as it looks to those who keep to the
public names: another process that reads without the lock, the next operation,
and whoever comes after a restart.  `doc` and `kept` are the documents that
they find now and after a power failure, `task` the operation in progress.  A
document changes at once and only as its operation may: `Update` never brings
an ended session back, `Withdraw` takes a request only when asked, with the end
of its session or when cleaning finds the session gone, `Remove` takes a record
only when the session has ended and its request is gone.  An operation is `Complete` only
once it has done what it was asked (`Done`) and each name it changed is durable;
only then does it `Report`, and a consumer gets the arguments of a session once.
Two things are weaker than one might expect, because the code promises no more:
an operation that finds nothing to change reports without a sync, and
`CleanupLaunches` goes on behind a request it could not remove (`Tolerate`).
`Store` in `SessionFiles` is the refinement mapping, `Doing` its `task`.

### How `PrivateFile` reads

A file is its inode.  `save` follows one write through its inspections, the
prepared file, the exchange or rename without replacement, and the comparisons
behind it; between any two of them another program may put a new file under the
name, remove the one there or write to it.  Others do not move a file that was
there before back under the name: that would defeat an inspection by identity,
and no program does it to this file.  Nothing is ever removed by the code: what
is displaced or not published is `retained` under a `.sclaude-` name.

### How `StartupFile` reads

A text is a sequence of lines and whether the last lacks its newline; markers
are on lines of their own.  The file is any text of at most `MaxLines` lines to
begin with, damaged blocks included, or absent.  `plan` is the setup journal as far as the startup
file and the ledger are targets of it, `record` the ledger.  Setup takes the
lines of `shell.go` in one step each, because how a file is exchanged is the
subject of `SetupTransaction`; what `StartupFile` adds is the two targets that
must agree, an update of the ledger while a setup is pending, and an editor.

*Updates.*  An update holds the install lock from its journal to its end and
touches the ledger alone of the two targets, so one step is exact as long as it
ends in every way it can: `Activate` is done, `CutOff` leaves `transaction.json`
behind a ledger that is the old one or the new one (a crash, a failed rollback,
a failed pruning).  `update` is that journal: a copy of the whole ledger from
before, and the new ledger, which the code knows by its digest.
`RecoverUpdate` is what install, rollback, uninstall and, where there is a
ledger, setup begin with: the journal of a complete update is removed, any other
ledger is replaced by the copy without being looked at (`install.go:1017`).
What else makes an update complete, its links and its release, is in
`InstallTransaction`; here a ledger that is the new one may go either way.

*The one order left out.*  Setup's rollback takes the install lock, but does not
recover that journal (`setup_transaction.go:1498-1512`).  `crossed` remembers that
a setup was undone in the ledger while one was there, and `RecordMatches` claims nothing
from then on, for it would be false.  A setup is cut off before its commit, an
update between its journal and its ledger; the next setup undoes the first and
goes no further; the next install or uninstall puts back the copy, which records a
block that is no longer in the file, and uninstall refuses until somebody puts
the block back or runs setup again.  Without `~crossed` TLC finds these nine states.

An uninstall is one step.  One that was cut off before its commit is put back,
file and all, by whichever of install, rollback, uninstall and setup comes next,
before it looks at the file or the ledger (`UninstallTransaction`), and it does not begin
while a setup is pending.

### How `ProxyConfig` reads

A document is what setup looks at: whether it is a plain mapping, where it
listens, its keys, its aliases.  The `Aliases` aliases that setup requires are
numbers, one to either side stands for all others; `Without` is the loop that
drops the required ones before they are appended.  The retained private backup of the whole file
is left out: setup never reads it.

## 3. Runs

| run | instance | shows |
|---|---|---|
| `race` | 1 session, new or left by an older release; 2 managers (new and stop, which may crash; prune with its list) | `TypeOK`, `NoOrphan`, `LifecycleForward`, `StopMeansEnded`, `ImplementsContract` |
| `by_hand` | 1 session, 2 runners, a manager with every session command | `LaunchUsedOnce`, `StartsUnderClaim`, `StopEndsBackend`, `StoppingSettles` |
| `uninstall` | 2 sessions, one of an older release; 2 configurations; a creator and an uninstaller that may crash | `UninstallEndsBackends`, `PurgeIsFinal`, `AdmittedCreation` |
| `live` | a creator that may crash, a lister that may uninstall | `AdmissionFreed`, `LaunchGoesAway` |
| `unconfirmed_exit` | creator that may crash, uninstaller | finding 1 (violation) |
| `recovery` | installation over 3 tags and 2 launchers, and apart from it uninstall of 5 paths (2 startup files, a required, an optional and a private one), and apart from both the store files of 1 session; failures and crashes everywhere | `UninstallTypeOK`, `AllOrNothing`, `NothingLost`, `CommittedIsFinal` (uninstall); `Consistent`, `NothingForgotten`, `CurrentNeverDangles`, `ImplementsContract` (installation); `BothRecover`; `ImplementsStore`, `AcknowledgedSurvives`, `ArgumentsGone` (store files) |
| `files` | one at a time: setup with 2 targets under three managers, installation with somebody who changes `scodex` and one release directory, 4 files under a private name, a startup file with 1 edit, the proxy's file with 2 changes | `TypeOK`, `AllOrNothing`, `NothingLost`, `RollbackIsQuiet`, `Recoverable`, `CommittedIsFinal`, `ServiceRestored`, `LoginReported` (setup); `ForeignUntouched` (installation); `ContentRetained`, `NoBlindOverwrite` (private file); `RecordMatches`, `UserTextKept` (startup file); `SetupSettles` (proxy) |
| `install_retained` | somebody who changes the first launcher | finding 2 (violation) |
| `uninstall_purge` | the uninstall of `recovery` | finding 3 (violation) |
| `setup_missing` | setup with 2 targets and a user who edits them | finding 4 (violation) |
| `setup_updated` | a startup file, two releases, no edits | finding 5 (violation) |
| `proxy_edited` | the proxy's file with 1 change | finding 6 (violation) |

*Parts.*  `MCRecovery` and `MCFiles` put several components beside each other
that share nothing.  The variable `part` says which of them takes steps; it is
chosen in the initial state and never changes, and what belongs to the others
stays in one of its initial states.  The behaviours of the run are therefore
those of each component by itself, and so are its invariants and action
properties: nothing is assumed of one component for the sake of another.

*Bounds.*  An ID is created once, so a session's record appears at most once
and the state space is finite without a constraint.  One session is enough for
most runs because store operations touch one record; the listing and the
inactivity proof visit several, which `uninstall` covers.  Two managers are
enough for a creation or a stop to race the reconciliation and the deletion of
another process; two stops do not race in the runs.  One
runner is what Screen starts for an ID; a second one appears in `by_hand`.  Two
configurations tell the one loaded from the one in force.
Three tags are a current release, a previous one and one to install, after which
the oldest is superseded; launcher 1 stands for the two of schema 2, launcher 2
for `scodex`, which an upgrade adds.  Operations follow each other without
bound, and so do failures: the states are finite by themselves.  Uninstall
treats all paths of a kind alike and one after the other, so one of each kind is
enough, and a second startup file shows a restoration with a replaced path
before and behind the one it is at.
Setup treats its targets alike too; with one before and one after service and
login every step of the workflow meets a target that is done and one that is
not, in either order of apply and rollback, and each may be created, replaced or
left as it is.  One edit for each target and transaction is enough for every
window between a check and the step it guards; two edits of the same target,
or of both targets at a time (`OneTarget`), are not explored.
In `files` installation comes twice: with launchers that somebody changes it has
two tags, with release directories that somebody makes it has three and
launchers of its own, for a launcher and a release are never looked at by the
same step.  One session is enough for the store's files, since an operation is
about one record, except for `CleanupLaunches`, whose requests it visits
independently.  Four files are what the target was, what a save prepares, and
two that others put there in its course.  A startup file has up to two
lines to begin with (`MaxLines = 2`), which gives every order of a marker and a
line of the user's, a lone marker, and a last line without its newline (a
directory is one of them only behind the start of a block, `StartsShort`); two
aliases (`Aliases = 2`) can be in the right order, in the wrong one, or of which
only one is there.  One edit of a startup file comes at
any point of a setup, an update that is done or an uninstall; a cut-off update
and an edit are not explored in the same behaviour (`UpdateOrEdit`), since
`RecordMatches` is about files that nobody edits and no step of an update touches
the file.  The proofs have no such bound.  Two changes of the proxy's file
let a user add and remove what an earlier setup had put there.

*Deadlock* is checked where the system goes on.  Once the program is removed,
or its configuration purged, nothing need happen: the runs with uninstall say
`CHECK_DEADLOCK FALSE`.

*Fairness* (`Fairness`).  A process that runs is scheduled (weak fairness of
each manager's and each runner's next step); every wait in the code has a
timeout, so each of these steps is one the process takes by itself.  A child
that got SIGKILL exits; a Screen server whose window's process is gone, or that
accepted `quit`, leaves; the grace period passes.  Nothing is assumed of a
backend that was only asked to terminate, of crashes, or of the user, except in
`ListingSpec`: there the user runs `list` again and again and `screen -ls`
succeeds now and then, for `StoppingSettles` and `LaunchGoesAway` are promises
about what a later list repairs.  For installation it is the same with
`LiveSpec`: an operation goes on, and the user runs another one after it;
`RecoveryCompletes` only speaks of behaviours in which failures cease
(`BothRecover` is that and the same for uninstall).  For uninstall the user runs `uninstall` again whenever nothing else runs (strong
fairness, as an install may come in between); an install alone would not do, for
it cannot finish a purge.
Setup has more states than liveness can be checked on; that recovery does not
get stuck is the invariant `Recoverable` instead, which says that the checks in
front of a recovery's calls accept what they find at every target, and those at
its end too, when nobody else has changed a target.

*Findings.*

1. `SECURITY.md:23` says that unconfirmed exits block prune and uninstall.
   `reconcile` decides on its warning from the snapshot; when the socket is
   listed and the snapshot runnable it takes over the record that `Update`
   re-read, whatever that says.  If the runner's `cmd.Start` failed in between,
   the record is `failed` and not yet acknowledged, no warning is added, and
   uninstall commits.  Prune is protected by the second look in `Store.Delete`.
   With only the runner that Screen started the backend does not exist in that
   case (`UninstallEndsBackends` holds); with a repeated `_run-session`, one
   process failing the launch can hide the live backend of the other.
2. `docs/USAGE.md:109` says that the current and the previous release are
   retained and that pending cleanup is reported without undoing a successful
   activation.  If a superseded release could not be removed, the journal of the
   successful upgrade stays.  When a launcher is removed or changed before the
   next operation, `installJournalComplete` is false, and recovery undoes the
   upgrade: the ledger it restores may name a previous release that the upgrade
   already pruned.  `preflightLedger` then refuses to install, to roll back and
   to uninstall.
3. `docs/USAGE.md:115` says what `--purge-state` additionally removes.  If a
   plain uninstall is cut off between its commit and the removal of its journal,
   `uninstall --purge-state` finds that journal, finalizes it with the journal's
   own purge flag and returns success (`uninstall.go:109`): configuration,
   credential and sessions are still there, and another attempt fails because
   the ledger is gone.
4. `internal/setup/setup_transaction.go:1957` says of an artifact that it is not
   transaction-owned.  When a target that setup had exchanged is removed before
   the rollback, `rollbackSetupEntry` links the original back from
   `.replacement` (line 1648) and then validates `.replacement` as if it held the
   new version (line 1659).  It holds the original, the validation fails, and so
   does every later one: `rerun sclaude setup` (line 1146) does not clear the
   journal.  Nothing is lost; the file has to be removed by hand.

5. `internal/setup/setup_transaction.go:1146` says to rerun `sclaude setup`.
   Setup lists the install ledger as a target when it records the shell block.
   An update, a rollback or an install does not look at the setup journal and
   writes the ledger anew (`install.go:182`).  If a setup was cut off before, the
   ledger is then neither what that setup found nor what it wrote: every rerun
   refuses, and the journal has to be dealt with by hand.  The model compares
   contents only; the code compares the identity of the file too, so that even
   an update that fails and writes the old ledger back is one too many.
6. `docs/PROXY.md` promises to preserve unrelated configuration.  What setup is
   going to write is computed from the file as it is at the beginning; what it
   replaces is taken as the file is when the targets are listed, after the
   service was inspected and the user answered (`workflow.go:329`).  A key that
   the user or the proxy adds in between is overwritten, and the retained backup
   holds the version that was read first.

Noticed without a run of its own:

* The comment at `internal/app/dispatch.go:490` says that the creating manager
  holds the admission lock until the runner marks the backend started.  A `list`
  that loaded its configuration before the creation sees the socket, reconciles
  the record to `running`, and `waitForStart` is satisfied: the lock is free
  before the claim.  Nothing else breaks by it.
* An abort stops a service that is marked as touched in memory although the
  journal write that should record it failed (`setup_transaction.go:331`,
  `service_transaction.go:353`).  If the abort is then cut off, or its rollback
  or restoration fails, the next setup believes the journal and does not start
  the service again.
* An update that was cut off keeps a copy of the ledger, and setup's rollback
  does not look at it: the one order in which the ledger comes to record a block
  that is not in the file although nobody edited it (see *How `StartupFile`
  reads*; `RecordMatches` leaves it out).
* An exchange that is cut off right behind a change by somebody else leaves
  their file under `.replacement`; recovery refuses to touch it, as it should,
  and so cannot end before somebody moves it.
* A recovery that has undone an interrupted setup with a login in it reports an
  error although everything else is back; the next setup goes on normally.
* `CreatedAt` is taken before the admission lock is awaited (`manager.go:71`), so a
  creation that waited long starts with an `old` record.
* After a failed `MarkStarted` the error of `Wait` is ignored
  (`dispatch.go:918`) and the exit acknowledged.
* After an uninstall that keeps user state a `new` that loaded its configuration
  earlier still publishes a record and starts a Screen server that has no
  program to run.

## 4. Proofs

### Sessions

Everything in this part is proved for every set of sessions, runners, managers and
configurations, every choice of `ByHand`, `Legacy`, `Crashable` and `CommandsOf`,
from the named assumptions of `SessionStore` and `SessionLifecycle` only: the
special values are not elements of their sets, a runner serves one session, and
a session had at most one runner of an older release.

| theorem | states | rests on |
|---|---|---|
| `TypeCorrect` | `[]TypeOK`, with `ValidRecord` of every record | itself |
| `CreationAdmitted` | `[]AdmittedCreation` | `AdmissionInv` |
| `LaunchConsumedOnce` | `[]LaunchUsedOnce` | `OnceInv` |
| `BackendOwned` | `[](~Purged => NoOrphan)` | `OwnerInv`, and both of the above |
| `PurgedForGood` | `[]PurgeIsFinal` | `PurgeInv`, `AdmissionInv` |
| `NothingOutlivesUninstall` | `[]UninstallEndsBackends`, if `ByHand` is empty | `KnownInv`, `AdmissionInv`, `OwnerInv` |
| `RecordsGoForward` | `LifecycleForward` | `OnceInv` |
| `StopEndsSession` | `StopMeansEnded` | `OwnerInv`, and `PurgeIsFinal` once purged |
| `BackendClaimed` | `StartsUnderClaim`, while nothing is purged | `OwnerInv` |
| `ClaimedWithoutHand` | `StartsUnderClaim`, if `ByHand` is empty | `OwnerInv`, `KnownInv` |
| `ContractImplemented` | `ImplementsContract`, while nothing is purged | `OnceInv`, `OwnerInv`, `ChildOfInv` |

`TypeOK` is inductive as it stands.  The proof splits it into the records, the
managers and the rest; each store operation has a lemma that what it writes is
a valid record.

None of the other invariants is inductive by itself.

* *Admission.*  That a creation runs alone says nothing of who may release the
  lock.  `LockInv` adds that uninstall and finalize hold it throughout,
  `InstInv` which of them is where while the program is installed, committed or
  removed; then setup and the commit, which change the configuration, exclude
  every creation (`ConfigInv`).
* *One use.*  That two runners never hold a request at once depends on no
  request being published again.  `UnbornInv`, `MintedInv` and `RequestInv` say
  where a session is: not born, minted by one manager and not yet requested,
  requested and held by nobody, or held by one runner; the records of sessions
  that have not been saved are absent.
* *Ownership.*  `NoOrphan` speaks of live children only, but the record must
  name the runner before there is a child and until the acknowledgement.
  `ClaimInv` says it of every runner from its claim to its acknowledgement,
  alive or crashed with a live child; `ChildInv` says where there is no child,
  so that an acknowledgement never hides one; `ProtocolInv` that a record with
  the protocol has a runner, so that a claimable record was never acknowledged.
  `MintedInv` is needed where `Save` overwrites a record, `InstInv` where an
  uninstall commits.

List, stop and prune steps are summed up once (`LocallyQuiet`, `GloballyQuiet`):
they move a record only as `RecordMove` says and take no lock, which is all the
three invariants need of them.

* *Purge.*  After a purge the configuration is gone, so that no creation that
  waited for the lock is admitted; a creation that was admitted held the lock,
  so the purge could not run (`PurgeInv`, `AdmissionInv`).
* *Uninstall.*  The listing reads one record after another while stops, prunes
  and runners go on, and its snapshot is stale when it commits.  What counts is
  that it is stale on the right side.  `Over(s)` says that a session has no live
  backend and will have none: no runner is about to start one, and a record
  that could still be claimed belongs to a runner that never started.  `Known`
  says what a record read under the lock tells: an active one may have ended
  since, another one is `Over` unless it says that its exit is unconfirmed;
  `Checked` what is left after the reconciliation.  `ListingInv` gives one of
  them for each place of the listing, and `EndedInv` keeps `Over` of every
  session from the commit on.  `SingleInv` is where `ByHand = {}` is needed: a
  session has one runner at most, so the runner whose end the record tells is
  the only one.
* *Single steps.*  Which record a step may write follows from who may be where:
  a record is saved when it is not there yet (`OnceInv`), it is acknowledged by
  the runner it names (`OwnerInv`), and every other write is one of the manager's
  record operations, each of which only goes forward.  A stop that succeeds has
  read an end from the record, and `OwnerInv` turns that into the end of the
  backend.
* *Contract.*  The claim that `SessionContract` speaks of is the runner on the
  record, its backend that runner's child.  `ChildOfInv` says that there is no
  child before the runner spawns it and that a runner is named by its own
  session's record only, so that a step changes the phase or the claim of one
  session (`Keeps` for the steps that leave both) and no other (`ContractMove`).
  The premise is needed: a purge removes records whatever is claimed on them,
  for instance that of a start that failed after the listing and whose runner
  has not acknowledged it, and the contract has no such removal.

`NoOrphan` without the premise `~Purged` is false in general: finding 1 lets an
uninstall with purge remove the record of a live backend when `_run-session` is
repeated by hand, and so is `UninstallEndsBackends` without the premise on
`ByHand`.

### Installation

Proved for every set of tags and every number of launchers,
from the assumptions of `InstallTransaction` (special values are not elements
of their sets, schema 2 has no more launchers than schema 3), with every
failure, crash and edit of others in it.

| theorem | states | rests on |
|---|---|---|
| `InstallTypeCorrect` | `[]TypeOK` | `TypeInv` |
| `CurrentPublished` | `[]CurrentNeverDangles` | `LinkedInv` |
| `InstallConsistent` | `EditedLaunchers = {} => []Consistent` | `LinkedInv`, `DiskInv`, `ProgressInv` |
| `ReleasesAccounted` | `EditedLaunchers = {} => []NothingForgotten` | the same |
| `ForeignLeftAlone` | `ForeignUntouched` | `TypeOK` |
| `InstallIsAtomic` | `EditedLaunchers = {} => ImplementsContract` | the same as `InstallConsistent`, and `CapturedInv` |

That the link never dangles is not inductive: it must be known of every
directory that is removed that the link does not name it.  Only two kinds are
removed.  A superseded release is in the journal (`JournalInv`: the journal
never lists the release that the link names or is to name), and pruning starts
only when the link is switched.  The new release is removed when the prior
state is restored, and by then the link has left it (`LinkInv`, `RemovalInv`).
`PlanInv` says what the journal is captured from: no journal, the link where
the ledger has it, and the new release either staged or in place.

The conditional ones assume that nobody else changes a launcher, as the `recovery` run
does: a user who removes a launcher makes the installation inconsistent without
any operation.  Others may make and remove release directories as they like.
`SettledInv` says what there is when no journal is left, and it survives because
of what a journal means while it is there: it is complete, or what was before
can be put back (`Undoable`: both earlier releases are in place and nothing that
is to be pruned has begun to go).  `PriorInv` and `NextInv` say that the two
states it names are each well formed, so that whichever is reached passes the
check; `OwnedInv` that all that is ours is in one of them.  `ProgressInv`
follows the loops: what they no longer have in `todo` is linked, put back or
gone.  Recovery needs no invariant of its own, since it starts from a journal
and finds it complete or undoable.

The installation of `InstallContract` is `Effective`, what a recovery would make
of the disk: the prior ledger until the journal is complete, the next one from
then on.  `ChangedOnce` says of every step that it leaves this or turns it from
the one into the other.  The hard half is that it does not turn back: a complete
journal that no activation or restoration is at work on stays complete, since
what pruning removes is not what the link names (`CompleteStays`), and the
journal goes when the ledger is the one it stood for.  `CapturedInv` adds that
the release to go back to is the one that was current.

Only model-checked for installation, being liveness: `RecoveryCompletes`.

### Uninstall

Proved for every number of paths and every division of them into kinds, from
the assumptions of `UninstallTransaction` (startup files are required, private
files optional), with every failure and crash in it.

| theorem | states |
|---|---|
| `UninstallTypeCorrect` | `[]TypeOK` |
| `OriginalsKept` | `[]NothingLost` |
| `UninstallAtomic` | `[]AllOrNothing` |
| `CommitFinal` | `CommittedIsFinal` |

All of them follow from one inductive invariant, `Inv`.  `PhaseInv` says which
journal is there at which place of an operation.  `ApplyInv`, `RestoreInv` and
`FinalizeInv` say what the loop has done to the paths it no longer has in
`todo`: renamed, put back, discarded.  They are needed because the promise is
about the end of a loop and a crash is in its midst: a restoration begins with
any mixture of renamed and untouched paths, which is `NothingLost`, and ends
with all of them back, which is `RestoreInv` when `todo` is empty.
`BackupInv` adds that there are no backups but those the journal lists.

Only model-checked for uninstall: `RecoveryCompletes`.

### Setup

Proved for every number of targets, every division into early and late ones and
every set of managers, from the assumptions of `SetupTransaction` (late targets
come last, the managers are the three), with every failure, crash and edit.

| theorem | states |
|---|---|
| `SetupTypeCorrect` | `[]TypeOK` |
| `CommitFinal` | `CommittedIsFinal` |
| `RollbackQuiet` | `[]RollbackIsQuiet` |
| `ServicePutBack` | `ServiceRestored` |
| `LoginTold` | `LoginReported` |
| `FilesKept` | `[]NothingLost` |
| `SetupAtomic` | `[]AllOrNothing` |
| `NeverRefused` | `[]Recoverable` |

The first five follow from `Inv`.  `PhaseInv` says which journal is there at which place
of an operation; with it a committed journal meets only `finalize`, `discard`
and `forget`, none of which touches a target.  `ManagerInv` says what flags a
manager allows: without it `TypeOK`, which holds `ValidJournal`, is not
inductive, for a flag may be announced that the manager does not have.
`ServiceInv` follows the service through the abort.  That the service is back is
a fact about the last step, but each command on the way may have failed, been
repeated by a later setup, or worked although it reported an error; so the
invariant says for each place what is already true: not running while files are
put back, scheduled as before once the schedule is restored, both at the end.
It needs that the journal on disk knows of every login, and that a Homebrew
service that was scheduled was running.

`FilesMove` and `AnnouncementsMove` sum up the 29 steps on files and the steps
that write flags, so that the invariants look at each of them once.

The two about files rest on `FilesInv`, which adds what each of a target's four
names can hold.  `FreshInv`: until its turn a target has no artifact, and at
each call only those made so far.  `BackupInv`: a backup was linked to what is
at the path, or is the original that somebody else has meanwhile replaced; so
the exchange never displaces the only copy.  `RemovalInv`: where artifacts are
removed, the original or the user's file is at the path, by its own name.
`CleanInv`: a target that rollback is done with has no artifact unless a failure
was noted, and a rollback that noted one does not remove the journal.  It is the
last step that needs it, for only the removal of the journal makes
`AllOrNothing` say anything.

That a recovery is never refused (`NeverRefused`) is the most demanding one, for
it speaks of a recovery of a recovery: what a rollback finds is what any earlier
call, cut off or failed, has left.  `RecoveryInv` says of every target that
nobody else has changed: while there is a journal it is `Undoable`, or
`Finishable` once it is committed (`StandInv`); the operation that applies has
its current target in the state its next call needs and the later ones
untouched (`ForwardInv`), a rollback the same from the other end (`BackwardInv`);
behind it the targets are as they were prepared unless a failure was noted
(`BackInv`); and a recovery works with the journal it has read, flags included
(`AgreedInv`).  The conclusion follows because each call of the rollback accepts
exactly what `Undoable` allows.

### Store files

Proved for every set of sessions with every failed call, crash and power failure.

| theorem | states | rests on |
|---|---|---|
| `FilesTypeCorrect` | `[]FilesTypeOK` | itself |
| `NeverTorn` | `[]WholeDocuments` | `WholeInv` |
| `ReportedIsDurable` | `[]AcknowledgedSurvives` | `AckInv`, `WholeInv` |
| `ArgumentsOnce` | `[]ArgumentsGone` | `SweptInv`, `ConsumeInv`, `OnceInv` |
| `StoreImplemented` | `ImplementsStore` | `WholeInv`, `AckInv`, `OnceInv`, `OrderInv`, `DoneInv` |

A public name gets a file only by a rename, so `WholeInv` adds that the
temporary file is flushed when it is about to be renamed.  `AckInv` says of every
name that the operation has changed that it is durable or the very one (`Pending`)
whose sync comes next; at the end there is none, and what is reported is durable.
That arguments are gone after a consume depends on the sweep before it
(`SweptInv`: no other copy is visible), on one fsync for the whole directory
(`ConsumeInv`: what is not visible is then not durable either) and on a request
being written once (`OnceInv`).

`StoreImplemented` says that every call is a step of `StoreContract` or none.
Most calls leave the documents alone (`QuietCalls`) and at most make some
durable; what they must get right is when the operation is over (`QuietWorks`).
For that `OrderInv` says which operation may be at which call and what it has
changed by then, and `DoneInv` what it has found or done there: an update has a
record that decodes and does not bring back an ended session, a delete has one
of an ended session until it removes it, and the request is gone where the
operation was to remove it.  That what is reported is durable comes from
`AckInv`, that arguments are handed out once from `OnceInv`; the rename puts a
whole document under its name because of `WholeInv`, and so a power failure
brings back what was durable and not a part of it.  `ImplementsStore` therefore
leaves no torn document, which `NeverTorn` says by itself.

### Private file

Proved for any number of files and any changes by others.

| theorem | states |
|---|---|
| `PrivateTypeCorrect` | `[]PrivateTypeOK` |
| `NothingDestroyed` | `[]ContentRetained` |
| `PublishedOverFirst` | `[]NoBlindOverwrite` |

`PreparedInv` says that what a save prepared is nobody else's until it is
published, which is why an exchange keeps what others put there.  `FirstInv`
follows the file that a configuration began with: of the two looks before the
exchange either both saw it or the exchange displaces something else than the
second saw, since a file that has lost its name does not come back (`SeenInv`).

### Startup file and proxy

Proved for texts and documents of any length, any set of releases, any number of
edits and of required aliases.

| theorem | states | rests on |
|---|---|---|
| `StartupTypeCorrect` | `[]StartupTypeOK` | `StartupTyped` |
| `BlockAsRecorded` | `[]RecordMatches` | `Matching` |
| `UserLinesSurvive` | `UserTextKept` | `KeepsLines` |
| `NextSetupSettles` | `[]SetupSettles` | `ProxyTyped` |

They are about texts that are cut, joined and filtered, so their lemmas are
about sequences.  The filter is the recursive function `Without`.  What it does
to a concatenation (`FilterConcat`), what it keeps and what it drops is proved
by induction over the length of the sequence, carried out on a set: the lengths
for which the statement holds are all of them, or there is a least one among the
others (`LeastNat`, from the well-foundedness of `Nat`).

A text that is not damaged is the user's lines with at most one block between
them (`BlockBetween`, `OutsidePlain`); so what setup writes in its place has one
block, intact, and the same lines around it (`ReplacedIs`, `ReplacedIntact`).
`Matching` says, of a file that nobody edits and as long as no setup was undone
over a cut-off update (`crossed`), two things.  `Fitting`: the file fits the
ledger when no setup is pending, and otherwise both versions of the plan fit
theirs and the file is one of the two.  An update may change the ledger
meanwhile but not its block (`ActivateIs`), which is why a rollback that finds
the ledger changed still leaves a file that fits.  `CopyCurrent`: the copy that a
cut-off update keeps records the same block as the ledger, so that it may come
back at any time.  Setup writes another block only where there is no copy: it
recovers the update first, under the lock that it then holds until the ledger is
written.  Its rollback is the one exception, and what `crossed` is for.
`KeepsLines` says that both versions of the plan hold the same lines of the
user's.  For the proxy, a second merge finds the aliases where the first put them:
the filter drops exactly those that are appended again (`FilteredTwice`,
`MutatedTwice`).

### What stays with TLC

Every invariant and every action property of the passing runs is stated by a
theorem.  Only what holds under fairness is left to TLC, for liveness is out of this
prover's reach: `StopEndsBackend`, `AdmissionFreed`, `StoppingSettles` and
`LaunchGoesAway` for sessions, `RecoveryCompletes` for installation and
uninstall (`BothRecover`).

## 5. Not modelled

`PROJECT.json` gives the reason for each component.  In short: what has no state
of its own (backend command, menu, doctor, managed settings), what belongs to
other programs (package managers, the proxy's protocol, Screen itself beyond
its three commands), and what the plan below has not reached.

## 6. Plan

In this order; all but the last are done.

1. `SessionStore`, `SessionLifecycle`, `SessionContract` (done).
2. `SessionFiles`, `StoreContract` (done).  Left: to tie the contract's documents
   to the records of `SessionStore`.
3. `InstallTransaction`, `InstallContract` (done).  Left: schema-1 ledgers.
4. `UninstallTransaction` (done).  Left: that it refines the `inst` of
   `SessionLifecycle`.
5. `SetupTransaction` with the workflow's service and login (done).  Left: an
   abstract specification in which all targets change at once, and the older
   journal schemas.
6. `PrivateFile`, `StartupFile`, `ProxyConfig` (done).
7. `HarnessInstall`, the order of checks in `update.go`, and the pure algorithms:
   `Classify`, `Select`, the Screen listing, checksum manifests, each against a
   reference definition.

Theorems worth proving next: that uninstall refines the `inst` of
`SessionLifecycle`, and that setup changes its targets at once.
