--------------------------- MODULE SessionLifecycle ---------------------------
(***************************************************************************)
(* The life of managed sessions: `sclaude` processes (Manager) that create,*)
(* list, stop and prune sessions or uninstall the program, the             *)
(* `_run-session` process inside each GNU Screen (Runner) that owns one    *)
(* backend child, and the Screen servers.  They share the durable records  *)
(* and one-use launch requests of SessionStore, the state-root admission   *)
(* lock and the runtime configuration.                                     *)
(*                                                                         *)
(* A store operation is one action (it runs under the store's flock); an   *)
(* unlocked read, a Screen command and a wait are each actions of their    *)
(* own, so whatever another process can do in between is in the model.     *)
(* Any process may crash between two of its actions; the kernel then       *)
(* releases the admission lock it held.                                    *)
(***************************************************************************)
EXTENDS SessionStore, FiniteSets

CONSTANTS Session,      \* session IDs
          SessionOf,    \* the session a runner is invoked for
          ByHand,       \* runners invoked by hand, not by Screen
          Legacy,       \* each a set of runners an older release may have left alive
          Manager,      \* sclaude processes
          Crashable,    \* the managers that may crash
          NoManager,
          Config,       \* contents the runtime configuration may have
          NoConfig,     \* no configuration file
          CommandsOf    \* the commands each manager may be given

Operations == {"new", "list", "stop", "prune", "uninstall", "finalize"}

ASSUME SessionOfAssumption == SessionOf \in [Runner -> Session]
ASSUME LegacyAssumption ==
    /\ Legacy \subseteq SUBSET Runner
    /\ \A old \in Legacy : \A q, r \in old : SessionOf[q] = SessionOf[r] => q = r
ASSUME NoManagerAssumption == NoManager \notin Manager
ASSUME ConfigAssumption == NoConfig \notin Config /\ Config # {}
ASSUME ByHandAssumption == ByHand \subseteq Runner \ UNION Legacy
ASSUME CommandsAssumption == CommandsOf \in [Manager -> SUBSET Operations]
ASSUME CrashableAssumption == Crashable \subseteq Manager

VARIABLES
    rec,        \* the record of each session
    launch,     \* the sessions with a launch request on disk
    sock,       \* the Screen server of each session
    age,        \* CreatedAt of each session against startingGrace
    config,     \* the runtime configuration file
    inst,       \* the installation: "installed", "committed" or "removed"
    purge,      \* whether the committed uninstall removes user state
    lock,       \* the holder of the state-root admission lock
    mgr,        \* the managers' local state
    rpc,        \* the runners' program counters
    backend     \* the child of each runner

store == <<rec, launch>>
admin == <<config, inst, purge>>
vars == <<rec, launch, sock, age, config, inst, purge, lock, mgr, rpc, backend>>

RunnerPC == {"idle", "load", "consume", "failLaunch", "claim", "spawn",
             "startFailed", "mark", "unmarked", "watch", "term", "killed",
             "finish", "legacy", "exited", "crashed"}

CreatePC == {"mint", "acquire", "admit", "save", "saveLaunch", "failPrepare",
             "screenStart", "failStart", "wait", "failWait", "quit", "release"}
ListPC == {"list", "read", "cleanup", "sockets", "reconcile", "listed"}
StopPC == {"request", "probe", "legacyQuit", "await", "check", "quitStopped",
           "confirm", "final"}
ManagerPC == {"idle", "delete", "commit", "finalize"} \cup CreatePC \cup ListPC \cup StopPC

\* After AdmitCreate and until admission.Release.
CreatingPC == CreatePC \ {"mint", "acquire", "admit"}

IdleManager == [pc |-> "idle", op |-> "list", sel |-> {}, todo |-> {},
                snap |-> [s \in Session |-> Absent], socks |-> {},
                warn |-> FALSE, cfg |-> NoConfig]

ManagerState == [pc : ManagerPC, op : Operations,
                 sel : SUBSET Session,              \* the selected session, if any
                 todo : SUBSET Session,             \* records still to be visited
                 snap : [Session -> Record],        \* the records as read
                 socks : SUBSET Session,            \* the sockets as listed
                 warn : BOOLEAN,                    \* a warning, or stopErr # nil
                 cfg : Config \cup {NoConfig}]      \* runtimeConfig

TypeOK ==
    /\ rec \in [Session -> Record] /\ \A s \in Session : ValidRecord(rec[s])
    /\ launch \subseteq Session
    /\ sock \in [Session -> {"none", "up", "quitting"}]
    /\ age \in [Session -> {"unborn", "fresh", "old"}]
    /\ config \in Config \cup {NoConfig}
    /\ inst \in {"installed", "committed", "removed"}
    /\ purge \in BOOLEAN
    /\ lock \in Manager \cup {NoManager}
    /\ mgr \in [Manager -> ManagerState]
    /\ rpc \in [Runner -> RunnerPC]
    /\ backend \in [Runner -> {"none", "alive", "dead"}]

SessionsOf(old) == {SessionOf[r] : r \in old}

\* Where the runners in old have live sessions.
InitWith(old) ==
    /\ \E state \in {"running", "stopping"} :
          rec = [s \in Session |->
                   IF s \in SessionsOf(old)
                   THEN LegacyRecord(CHOOSE r \in old : SessionOf[r] = s, state)
                   ELSE Absent]
    /\ launch = {}
    /\ sock = [s \in Session |-> IF s \in SessionsOf(old) THEN "up" ELSE "none"]
    /\ age = [s \in Session |-> IF s \in SessionsOf(old) THEN "old" ELSE "unborn"]
    /\ config \in Config
    /\ inst = "installed"
    /\ purge = FALSE
    /\ lock = NoManager
    /\ mgr = [m \in Manager |-> IdleManager]
    /\ rpc = [r \in Runner |-> IF r \in old THEN "legacy" ELSE "idle"]
    /\ backend = [r \in Runner |-> IF r \in old THEN "alive" ELSE "none"]

Init == \E old \in Legacy : InitWith(old)

-----------------------------------------------------------------------------
At(m, pc) == mgr[m].pc = pc
Goto(m, pc) == mgr' = [mgr EXCEPT ![m].pc = pc]
Done(m) == mgr' = [mgr EXCEPT ![m] = IdleManager]

\* The flock on the state root ends with the process that holds it.
Unlocked(m) == IF lock = m THEN NoManager ELSE lock
Release(m) == lock' = Unlocked(m)

\* The sockets a successful `screen -ls` shows.
Sockets == {s \in Session : sock[s] # "none"}

\* `screen -S name -X quit`: the server leaves at once or after a while.
ScreenStop(s) ==
    /\ sock[s] # "none"
    /\ \E left \in {"none", "quitting"} : sock' = [sock EXCEPT ![s] = left]

-----------------------------------------------------------------------------
\* runSubcommand: LoadRuntime waits for the admission lock and frees it again.
StartCommand(m, op) ==
    /\ At(m, "idle") /\ op \in {"new", "list", "stop", "prune"}
    /\ inst = "installed" /\ config # NoConfig /\ lock = NoManager
    /\ mgr' = [mgr EXCEPT ![m] = [IdleManager EXCEPT
                 !.pc = IF op = "new" THEN "mint" ELSE "list",
                 !.op = op, !.cfg = config]]
    /\ UNCHANGED <<store, sock, age, admin, lock, rpc, backend>>

\* UninstallInstalled keeps the admission lock while it proves inactivity.
StartUninstall(m) ==
    /\ At(m, "idle")
    /\ inst = "installed" /\ config # NoConfig /\ lock = NoManager
    /\ lock' = m
    /\ mgr' = [mgr EXCEPT ![m] = [IdleManager EXCEPT !.pc = "list", !.op = "uninstall"]]
    /\ UNCHANGED <<store, sock, age, admin, rpc, backend>>

\* A rerun finds the committed journal and only finalizes it.
StartFinalize(m) ==
    /\ At(m, "idle") /\ inst = "committed" /\ lock = NoManager
    /\ lock' = m
    /\ mgr' = [mgr EXCEPT ![m] = [IdleManager EXCEPT !.pc = "finalize", !.op = "finalize"]]
    /\ UNCHANGED <<store, sock, age, admin, rpc, backend>>

\* Mutant: setup does not wait for the admission lock.
SetupUnlocked ==
    /\ inst = "installed"
    /\ config' \in Config \ {config}
    /\ UNCHANGED <<store, sock, age, inst, purge, lock, mgr, rpc, backend>>

\* `sclaude setup` rewrites the configuration under the admission lock.
Setup ==
    /\ inst = "installed" /\ lock = NoManager
    /\ config' \in Config \ {config}
    /\ UNCHANGED <<store, sock, age, inst, purge, lock, mgr, rpc, backend>>

ManagerCrash(m) ==
    /\ m \in Crashable /\ ~At(m, "idle")
    /\ Release(m) /\ Done(m)
    /\ UNCHANGED <<store, sock, age, admin, rpc, backend>>

-----------------------------------------------------------------------------
\* Manager.Create.  CreatedAt is taken before the admission lock is awaited.
MintRecord(m, s) ==
    /\ At(m, "mint") /\ age[s] = "unborn"
    /\ age' = [age EXCEPT ![s] = "fresh"]
    /\ mgr' = [mgr EXCEPT ![m].pc = "acquire", ![m].sel = {s}]
    /\ UNCHANGED <<store, sock, admin, lock, rpc, backend>>

\* NewRecord or Prepare refuses; also where the finite set of IDs is used up.
MintFails(m) ==
    /\ At(m, "mint")
    /\ Done(m)
    /\ UNCHANGED <<store, sock, age, admin, lock, rpc, backend>>

AcquireAdmission(m) ==
    /\ At(m, "acquire") /\ lock = NoManager
    /\ lock' = m
    /\ Goto(m, "admit")
    /\ UNCHANGED <<store, sock, age, admin, rpc, backend>>

\* Mutant: the configuration loaded before the lock was awaited is trusted.
AdmitStale(m) ==
    /\ At(m, "admit") /\ Goto(m, "save")
    /\ UNCHANGED <<store, sock, age, admin, lock, rpc, backend>>

AdmitCreate(m) ==
    /\ At(m, "admit")
    /\ \/ config = mgr[m].cfg /\ Goto(m, "save") /\ UNCHANGED lock
       \/ config # mgr[m].cfg /\ Done(m) /\ Release(m)
    /\ UNCHANGED <<store, sock, age, admin, rpc, backend>>

\* Save may fail before its rename or only after it.
SaveRecord(m, s) ==
    /\ At(m, "save") /\ s \in mgr[m].sel
    /\ \/ rec' = [rec EXCEPT ![s] = NewRecord] /\ Goto(m, "saveLaunch") /\ UNCHANGED lock
       \/ rec' \in {rec, [rec EXCEPT ![s] = NewRecord]} /\ Done(m) /\ Release(m)
    /\ UNCHANGED <<launch, sock, age, admin, rpc, backend>>

SaveLaunch(m, s) ==
    /\ At(m, "saveLaunch") /\ s \in mgr[m].sel
    /\ \/ launch' = launch \cup {s} /\ Goto(m, "screenStart")
       \/ launch' \in {launch, launch \cup {s}} /\ Goto(m, "failPrepare")
    /\ UNCHANGED <<rec, sock, age, admin, lock, rpc, backend>>

\* Screen.Start.  The server may be up although the command failed (a timeout,
\* a kill); its window runs the installed binary, if there still is one.
ScreenStart(m, s) ==
    /\ At(m, "screenStart") /\ s \in mgr[m].sel
    /\ \E next \in {"wait", "failStart"} : Goto(m, next)
    /\ \/ /\ sock' = [sock EXCEPT ![s] = "up"]
          /\ \/ \E r \in Runner \ ByHand :
                   /\ SessionOf[r] = s /\ rpc[r] = "idle" /\ inst = "installed"
                   /\ rpc' = [rpc EXCEPT ![r] = "load"]
             \/ inst # "installed" /\ UNCHANGED rpc
       \/ mgr'[m].pc = "failStart" /\ UNCHANGED <<sock, rpc>>
    /\ UNCHANGED <<store, age, admin, lock, backend>>

\* waitForStart: one Load of the polling loop, or its timeout.
StartSeen(m, s) ==
    /\ At(m, "wait") /\ s \in mgr[m].sel /\ rec[s].state = "running"
    /\ Goto(m, "release")
    /\ UNCHANGED <<store, sock, age, admin, lock, rpc, backend>>

StartNotSeen(m, s) ==
    /\ At(m, "wait") /\ s \in mgr[m].sel /\ rec[s].state # "running"
    /\ Goto(m, "failWait")
    /\ UNCHANGED <<store, sock, age, admin, lock, rpc, backend>>

\* Mutant: the early return after SaveLaunch forgets admission.Release.
FailCreateLocked(m, s) ==
    /\ mgr[m].pc \in {"failPrepare", "failStart", "failWait"} /\ s \in mgr[m].sel
    /\ rec' = [rec EXCEPT ![s] = FailLaunch(@)]
    /\ launch' = IF Present(rec[s]) THEN launch \ {s} ELSE launch
    /\ Goto(m, CASE At(m, "failPrepare") -> "idle"
                 [] At(m, "failWait") /\ rec[s].state = "running" -> "release"
                 [] OTHER -> "quit")
    /\ UNCHANGED <<sock, age, admin, lock, rpc, backend>>

\* FailLaunch from each of Create's error paths and what follows it there.
FailCreate(m, s) ==
    /\ mgr[m].pc \in {"failPrepare", "failStart", "failWait"} /\ s \in mgr[m].sel
    /\ rec' = [rec EXCEPT ![s] = FailLaunch(@)]
    /\ launch' = IF Present(rec[s]) THEN launch \ {s} ELSE launch
    /\ \/ At(m, "failPrepare") /\ Done(m) /\ Release(m)
       \/ At(m, "failStart") /\ Goto(m, "quit") /\ UNCHANGED lock
       \/ /\ At(m, "failWait") /\ UNCHANGED lock
          /\ Goto(m, IF rec[s].state = "running" THEN "release" ELSE "quit")
    /\ UNCHANGED <<sock, age, admin, rpc, backend>>

\* bestEffortStop, whose error is ignored.
QuitFailedStart(m, s) ==
    /\ At(m, "quit") /\ s \in mgr[m].sel
    /\ ScreenStop(s) \/ UNCHANGED sock
    /\ Done(m) /\ Release(m)
    /\ UNCHANGED <<store, age, admin, rpc, backend>>

ReleaseAdmission(m) ==
    /\ At(m, "release")
    /\ Done(m) /\ Release(m)
    /\ UNCHANGED <<store, age, sock, admin, rpc, backend>>

-----------------------------------------------------------------------------
\* Manager.List: unlocked reads of the directory and of each record in it.
ReadDir(m) ==
    /\ At(m, "list")
    /\ LET found == {s \in Session : Present(rec[s])} IN
       mgr' = [mgr EXCEPT ![m].todo = found,
                          ![m].pc = IF found = {} THEN "cleanup" ELSE "read"]
    /\ UNCHANGED <<store, sock, age, admin, lock, rpc, backend>>

ReadRecord(m, s) ==
    /\ At(m, "read") /\ s \in mgr[m].todo
    /\ mgr' = [mgr EXCEPT ![m].todo = @ \ {s},
                          ![m].snap[s] = rec[s],
                          ![m].warn = @ \/ ~Present(rec[s]),
                          ![m].pc = IF mgr[m].todo = {s} THEN "cleanup" ELSE @]
    /\ UNCHANGED <<store, sock, age, admin, lock, rpc, backend>>

\* Mutant: only requests without a record are cleaned up.
CleanupMissing(m) ==
    /\ At(m, "cleanup")
    /\ launch' = {s \in launch : Present(rec[s])}
    /\ Goto(m, "sockets")
    /\ UNCHANGED <<rec, sock, age, admin, lock, rpc, backend>>

CleanupLaunches(m) ==
    /\ At(m, "cleanup")
    /\ launch' = {s \in launch : Active(rec[s])}
    /\ Goto(m, "sockets")
    /\ UNCHANGED <<rec, sock, age, admin, lock, rpc, backend>>

InSnapshot(m) == {s \in Session : Present(mgr[m].snap[s])}

ListSockets(m) ==
    /\ At(m, "sockets")
    /\ mgr' = [mgr EXCEPT ![m].socks = Sockets,
                          ![m].todo = InSnapshot(m),
                          ![m].pc = IF InSnapshot(m) = {} THEN "listed" ELSE "reconcile"]
    /\ UNCHANGED <<store, sock, age, admin, lock, rpc, backend>>

ListSocketsFails(m) ==
    /\ At(m, "sockets")
    /\ mgr' = [mgr EXCEPT ![m].warn = TRUE, ![m].pc = "listed"]
    /\ UNCHANGED <<store, sock, age, admin, lock, rpc, backend>>

\* What reconcile does for session s: the record it keeps in the returned list,
\* whether it warns, and the store operation it ran on the current record.
Reconciled(m, s, kept, warn) ==
    mgr' = [mgr EXCEPT ![m].todo = @ \ {s},
                       ![m].snap[s] = kept,
                       ![m].warn = @ \/ warn,
                       ![m].pc = IF mgr[m].todo = {s} THEN "listed" ELSE @]

ReconcileUpdates(m, s) ==
    /\ s \in mgr[m].socks /\ Runnable(mgr[m].snap[s])
    /\ rec' = [rec EXCEPT ![s] = SeenRunning(@)]
    /\ IF Present(rec[s]) THEN Reconciled(m, s, rec'[s], FALSE)
                          ELSE Reconciled(m, s, mgr[m].snap[s], TRUE)
    /\ UNCHANGED launch

ReconcileStops(m, s) ==
    /\ s \notin mgr[m].socks /\ ~ExitUnconfirmed(mgr[m].snap[s])
    /\ Active(mgr[m].snap[s]) /\ age[s] = "old"
    /\ IF CanStop(rec[s])
       THEN /\ rec' = [rec EXCEPT ![s] = Stop(@)]
            /\ launch' = launch \ {s}
            /\ Reconciled(m, s, rec'[s], FALSE)
       ELSE UNCHANGED store /\ Reconciled(m, s, mgr[m].snap[s], TRUE)

\* Mutant: a missing socket is taken for the end of the backend.
ReconcileWithoutWarning(m, s) ==
    /\ \/ s \in mgr[m].socks /\ mgr[m].snap[s].state # "starting"
       \/ s \notin mgr[m].socks /\ (~Active(mgr[m].snap[s]) \/ age[s] # "old"
                                    \/ ExitUnconfirmed(mgr[m].snap[s]))
    /\ Reconciled(m, s, mgr[m].snap[s], s \in mgr[m].socks /\ ~Active(mgr[m].snap[s]))
    /\ UNCHANGED store

\* No store operation: a stopping session keeps its intent, a running one was
\* written recently, a terminal one with a socket and one whose exit is
\* unconfirmed are warned about, a young one is left to start.
ReconcileLeaves(m, s) ==
    LET d == mgr[m].snap[s]
        seen == s \in mgr[m].socks
    IN  /\ \/ seen /\ d.state # "starting"
           \/ ~seen /\ (ExitUnconfirmed(d) \/ ~Active(d) \/ age[s] # "old")
        /\ Reconciled(m, s, d, IF seen THEN ~Active(d) ELSE ExitUnconfirmed(d))
        /\ UNCHANGED store

Reconcile(m, s) ==
    /\ At(m, "reconcile") /\ s \in mgr[m].todo
    /\ ReconcileUpdates(m, s) \/ ReconcileStops(m, s) \/ ReconcileLeaves(m, s)
    /\ UNCHANGED <<sock, age, admin, lock, rpc, backend>>

ListReturns(m) ==
    /\ At(m, "listed") /\ mgr[m].op = "list"
    /\ Done(m)
    /\ UNCHANGED <<store, sock, age, admin, lock, rpc, backend>>

-----------------------------------------------------------------------------
\* Manager.Stop: Select one of the listed records, or none for an unknown
\* selector.
SelectForStop(m) ==
    /\ At(m, "listed") /\ mgr[m].op = "stop"
    /\ \/ \E s \in InSnapshot(m) :
            mgr' = [mgr EXCEPT ![m] = [IdleManager EXCEPT
                      !.op = "stop", !.sel = {s}, !.snap[s] = mgr[m].snap[s],
                      !.pc = IF Active(mgr[m].snap[s]) THEN "request" ELSE "probe"]]
       \/ Done(m)
    /\ UNCHANGED <<store, sock, age, admin, lock, rpc, backend>>

BeginShutdown(m, s, d) ==
    mgr' = [mgr EXCEPT ![m].snap[s] = d,
                       ![m].pc = IF d.proto = 1 THEN "await" ELSE "legacyQuit"]

\* An ended record is stopped again only for a surviving socket or an exit
\* that was never confirmed.
ProbeEnded(m, s) ==
    /\ At(m, "probe") /\ s \in mgr[m].sel
    /\ \/ /\ s \in Sockets \/ ExitUnconfirmed(mgr[m].snap[s])
          /\ BeginShutdown(m, s, mgr[m].snap[s])
       \/ Done(m)                        \* already stopped, or the probe failed
    /\ UNCHANGED <<store, sock, age, admin, lock, rpc, backend>>

RequestStopOf(m, s) ==
    /\ At(m, "request") /\ s \in mgr[m].sel
    /\ IF CanRequestStop(rec[s])
       THEN /\ rec' = [rec EXCEPT ![s] = RequestStop(@)]
            /\ launch' = launch \ {s}
            /\ BeginShutdown(m, s, rec'[s])
       ELSE UNCHANGED store /\ Done(m)
    /\ UNCHANGED <<sock, age, admin, lock, rpc, backend>>

\* Screen.Stop; warn keeps stopErr # nil.
LegacyQuit(m, s) ==
    /\ At(m, "legacyQuit") /\ s \in mgr[m].sel
    /\ \/ ScreenStop(s) /\ mgr' = [mgr EXCEPT ![m].pc = "await"]
       \/ UNCHANGED sock /\ mgr' = [mgr EXCEPT ![m].pc = "await", ![m].warn = TRUE]
    /\ UNCHANGED <<store, age, admin, lock, rpc, backend>>

\* waitForBackendExit polls the record; it gives up on a timeout or when the
\* record is gone.
AwaitBackendExit(m, s) ==
    /\ At(m, "await") /\ s \in mgr[m].sel
    /\ \/ /\ Present(rec[s]) /\ ~ExitUnconfirmed(rec[s])
          /\ Goto(m, IF mgr[m].snap[s].proto = 1 THEN "check" ELSE "confirm")
       \/ ExitUnconfirmed(rec[s]) /\ Done(m)
       \/ ~Present(rec[s]) /\ Done(m)
    /\ UNCHANGED <<store, sock, age, admin, lock, rpc, backend>>

CheckSocket(m, s) ==
    /\ At(m, "check") /\ s \in mgr[m].sel
    /\ \/ s \in Sockets /\ Goto(m, "quitStopped")
       \/ s \notin Sockets /\ Goto(m, "confirm")
       \/ Done(m)                                        \* screen -ls failed
    /\ UNCHANGED <<store, sock, age, admin, lock, rpc, backend>>

QuitStopped(m, s) ==
    /\ At(m, "quitStopped") /\ s \in mgr[m].sel
    /\ \/ ScreenStop(s) /\ mgr' = [mgr EXCEPT ![m].pc = "confirm"]
       \/ UNCHANGED sock /\ mgr' = [mgr EXCEPT ![m].pc = "confirm", ![m].warn = TRUE]
    /\ UNCHANGED <<store, age, admin, lock, rpc, backend>>

\* confirmStopped; while the socket is there it polls again or gives up.
ConfirmStopped(m, s) ==
    /\ At(m, "confirm") /\ s \in mgr[m].sel
    /\ \/ s \notin Sockets /\ Goto(m, "final")
       \/ Done(m)
    /\ UNCHANGED <<store, sock, age, admin, lock, rpc, backend>>

FinalizeStop(m, s) ==
    /\ At(m, "final") /\ s \in mgr[m].sel
    /\ IF CanStop(rec[s])
       THEN rec' = [rec EXCEPT ![s] = Stop(@)] /\ launch' = launch \ {s}
       ELSE UNCHANGED store
    /\ Done(m)
    /\ UNCHANGED <<sock, age, admin, lock, rpc, backend>>

-----------------------------------------------------------------------------
\* Manager.Prune: refuse on any warning, else delete the chosen ended records.
SelectForPrune(m) ==
    /\ At(m, "listed") /\ mgr[m].op = "prune"
    /\ \/ /\ ~mgr[m].warn
          /\ \E chosen \in (SUBSET {s \in InSnapshot(m) : ~Active(mgr[m].snap[s])}) \ {{}} :
               mgr' = [mgr EXCEPT ![m] = [IdleManager EXCEPT
                         !.op = "prune", !.pc = "delete", !.todo = chosen]]
       \/ Done(m)
    /\ UNCHANGED <<store, sock, age, admin, lock, rpc, backend>>

DeleteRecord(m, s) ==
    /\ At(m, "delete") /\ s \in mgr[m].todo
    /\ \/ /\ CanDelete(rec[s])
          /\ rec' = [rec EXCEPT ![s] = Absent]
          /\ launch' = launch \ {s}
       \/ ~CanDelete(rec[s]) /\ UNCHANGED store
    /\ IF mgr[m].todo = {s} \/ (Present(rec[s]) /\ ~CanDelete(rec[s]))
       THEN Done(m)
       ELSE mgr' = [mgr EXCEPT ![m].todo = @ \ {s}]
    /\ UNCHANGED <<sock, age, admin, lock, rpc, backend>>

-----------------------------------------------------------------------------
\* The inactivity check of uninstall on the list it just read.
ProveInactive(m) ==
    /\ At(m, "listed") /\ mgr[m].op = "uninstall"
    /\ IF mgr[m].warn \/ \E s \in Session : Active(mgr[m].snap[s])
       THEN Done(m) /\ Release(m)
       ELSE Goto(m, "commit") /\ UNCHANGED lock
    /\ UNCHANGED <<store, sock, age, admin, rpc, backend>>

\* The installed artifacts are staged away and the journal is committed.
CommitUninstall(m) ==
    /\ At(m, "commit")
    /\ inst' = "committed"
    /\ purge' \in BOOLEAN
    /\ config' = IF purge' THEN NoConfig ELSE config
    /\ Goto(m, "finalize")
    /\ UNCHANGED <<store, sock, age, lock, rpc, backend>>

FinalizeUninstall(m) ==
    /\ At(m, "finalize")
    /\ inst' = "removed"
    /\ IF purge
       THEN rec' = [s \in Session |-> Absent] /\ launch' = {}
       ELSE UNCHANGED store
    /\ Done(m) /\ Release(m)
    /\ UNCHANGED <<sock, age, config, purge, rpc, backend>>

-----------------------------------------------------------------------------
\* The runner: runSession and waitManagedBackend.
RunnerGoto(r, pc) == rpc' = [rpc EXCEPT ![r] = pc]
RecordOf(r) == rec[SessionOf[r]]

\* Somebody who knows the ID of a listed session repeats its hidden command.
RunByHand(r) ==
    /\ r \in ByHand /\ rpc[r] = "idle" /\ inst = "installed"
    /\ Present(RecordOf(r))
    /\ RunnerGoto(r, "load")
    /\ UNCHANGED <<store, sock, age, admin, lock, mgr, backend>>

LoadRecord(r) ==
    /\ rpc[r] = "load"
    /\ RunnerGoto(r, IF Present(RecordOf(r)) THEN "consume" ELSE "exited")
    /\ UNCHANGED <<store, sock, age, admin, lock, mgr, backend>>

\* Mutant: the request is read in place.
ReadLaunch(r) ==
    /\ rpc[r] = "consume"
    /\ RunnerGoto(r, IF SessionOf[r] \in launch THEN "claim" ELSE "failLaunch")
    /\ UNCHANGED <<store, sock, age, admin, lock, mgr, backend>>

ConsumeLaunch(r) ==
    /\ rpc[r] = "consume"
    /\ RunnerGoto(r, IF SessionOf[r] \in launch THEN "claim" ELSE "failLaunch")
    /\ launch' = launch \ {SessionOf[r]}
    /\ UNCHANGED <<rec, sock, age, admin, lock, mgr, backend>>

\* The working directory or the backend command is unavailable.
PrepareFails(r) ==
    /\ rpc[r] = "claim"
    /\ RunnerGoto(r, "failLaunch")
    /\ UNCHANGED <<store, sock, age, admin, lock, mgr, backend>>

FailRunner(r) ==
    /\ rpc[r] \in {"failLaunch", "startFailed"}
    /\ rec' = [rec EXCEPT ![SessionOf[r]] = FailLaunch(@)]
    /\ launch' = IF Present(RecordOf(r)) THEN launch \ {SessionOf[r]} ELSE launch
    /\ RunnerGoto(r, IF rpc[r] = "startFailed" THEN "finish" ELSE "exited")
    /\ UNCHANGED <<sock, age, admin, lock, mgr, backend>>

ClaimSession(r) ==
    /\ rpc[r] = "claim"
    /\ IF CanClaimRunner(RecordOf(r))
       THEN /\ rec' = [rec EXCEPT ![SessionOf[r]] = ClaimRunner(@, r)]
            /\ RunnerGoto(r, "spawn")
       ELSE UNCHANGED rec /\ RunnerGoto(r, "exited")
    /\ UNCHANGED <<launch, sock, age, admin, lock, mgr, backend>>

StartBackend(r) ==
    /\ rpc[r] = "spawn"
    /\ \/ /\ backend' = [backend EXCEPT ![r] = "alive"]
          /\ RunnerGoto(r, "mark")
       \/ UNCHANGED backend /\ RunnerGoto(r, "startFailed")
    /\ UNCHANGED <<store, sock, age, admin, lock, mgr>>

\* When the record is not runnable any more the child is killed at once.
MarkSessionStarted(r) ==
    /\ rpc[r] = "mark"
    /\ IF CanMarkStarted(RecordOf(r), r)
       THEN /\ rec' = [rec EXCEPT ![SessionOf[r]] = MarkStarted(@, r)]
            /\ RunnerGoto(r, "watch")
       ELSE UNCHANGED rec /\ RunnerGoto(r, "unmarked")
    /\ UNCHANGED <<launch, sock, age, admin, lock, mgr, backend>>

\* Mutant: the end is taken from Screen alone, the record is not read.
StopOnScreenOnly(r) ==
    /\ rpc[r] = "watch" /\ sock[SessionOf[r]] = "none"
    /\ RunnerGoto(r, "term")
    /\ UNCHANGED <<store, sock, age, admin, lock, mgr, backend>>

\* requested(): the record asks for the end, or Screen is confirmed gone.
StopRequested(r) ==
    /\ rpc[r] = "watch"
    /\ ~Runnable(RecordOf(r)) \/ sock[SessionOf[r]] = "none"
    /\ RunnerGoto(r, "term")
    /\ UNCHANGED <<store, sock, age, admin, lock, mgr, backend>>

\* SIGHUP or SIGTERM from anywhere.
RunnerSignaled(r) ==
    /\ rpc[r] = "watch"
    /\ RunnerGoto(r, "term")
    /\ UNCHANGED <<store, sock, age, admin, lock, mgr, backend>>

\* The grace period after SIGTERM is over.
Escalate(r) ==
    /\ rpc[r] = "term" /\ backend[r] = "alive"
    /\ RunnerGoto(r, "killed")
    /\ UNCHANGED <<store, sock, age, admin, lock, mgr, backend>>

BackendExits(r) ==
    /\ backend[r] = "alive"
    /\ backend' = [backend EXCEPT ![r] = "dead"]
    /\ UNCHANGED <<store, sock, age, admin, lock, mgr, rpc>>

\* cmd.Wait returns.  In the supervision loop an error that is not an exit
\* status ends the runner without an acknowledgement.
Reap(r) ==
    /\ backend[r] = "dead"
    /\ rpc[r] \in {"watch", "term", "killed", "unmarked", "legacy"}
    /\ \/ RunnerGoto(r, "finish")
       \/ rpc[r] \in {"watch", "term", "killed"} /\ RunnerGoto(r, "exited")
    /\ UNCHANGED <<store, sock, age, admin, lock, mgr, backend>>

FinishSession(r) ==
    /\ rpc[r] = "finish"
    /\ IF Present(RecordOf(r))
       THEN /\ rec' = [rec EXCEPT ![SessionOf[r]] = Finish(@)]
            /\ launch' = launch \ {SessionOf[r]}
       ELSE UNCHANGED store
    /\ RunnerGoto(r, "exited")
    /\ UNCHANGED <<sock, age, admin, lock, mgr, backend>>

\* SIGKILL, or a hangup before runnerSignals; the child may survive.
RunnerCrash(r) ==
    /\ rpc[r] \notin {"idle", "exited", "crashed"}
    /\ RunnerGoto(r, "crashed")
    /\ UNCHANGED <<store, sock, age, admin, lock, mgr, backend>>

-----------------------------------------------------------------------------
\* The Screen server leaves by itself, killed, or because its window ended.
ScreenDies(s) ==
    /\ sock[s] # "none"
    /\ sock' = [sock EXCEPT ![s] = "none"]
    /\ UNCHANGED <<store, age, admin, lock, mgr, rpc, backend>>

\* startingGrace passes.
GraceEnds(s) ==
    /\ age[s] = "fresh"
    /\ age' = [age EXCEPT ![s] = "old"]
    /\ UNCHANGED <<store, sock, admin, lock, mgr, rpc, backend>>

-----------------------------------------------------------------------------
CreateStep(m) ==
    \/ \E s \in Session : MintRecord(m, s)
    \/ MintFails(m) \/ AcquireAdmission(m) \/ AdmitCreate(m)
    \/ \E s \in Session :
         \/ SaveRecord(m, s) \/ SaveLaunch(m, s) \/ ScreenStart(m, s)
         \/ StartSeen(m, s) \/ StartNotSeen(m, s)
         \/ FailCreate(m, s) \/ QuitFailedStart(m, s)
    \/ ReleaseAdmission(m)

ListStep(m) ==
    \/ ReadDir(m) \/ CleanupLaunches(m)
    \/ ListSockets(m) \/ ListSocketsFails(m) \/ ListReturns(m)
    \/ \E s \in Session : ReadRecord(m, s) \/ Reconcile(m, s)

StopStep(m) ==
    \/ SelectForStop(m)
    \/ \E s \in Session :
         \/ ProbeEnded(m, s) \/ RequestStopOf(m, s) \/ LegacyQuit(m, s)
         \/ AwaitBackendExit(m, s) \/ CheckSocket(m, s) \/ QuitStopped(m, s)
         \/ ConfirmStopped(m, s) \/ FinalizeStop(m, s)

PruneStep(m) == SelectForPrune(m) \/ \E s \in Session : DeleteRecord(m, s)

UninstallStep(m) == ProveInactive(m) \/ CommitUninstall(m) \/ FinalizeUninstall(m)

Invoke(m) ==
    \/ \E op \in CommandsOf[m] : StartCommand(m, op)
    \/ "uninstall" \in CommandsOf[m] /\ StartUninstall(m)
    \/ "finalize" \in CommandsOf[m] /\ StartFinalize(m)

ManagerStep(m) ==
    CreateStep(m) \/ ListStep(m) \/ StopStep(m) \/ PruneStep(m) \/ UninstallStep(m)

RunnerStep(r) ==
    \/ LoadRecord(r) \/ ConsumeLaunch(r) \/ PrepareFails(r) \/ FailRunner(r)
    \/ ClaimSession(r) \/ StartBackend(r) \/ MarkSessionStarted(r)
    \/ StopRequested(r) \/ Escalate(r) \/ Reap(r) \/ FinishSession(r)

Environment ==
    \/ Setup
    \/ \E m \in Manager : ManagerCrash(m)
    \/ \E r \in Runner : RunByHand(r) \/ RunnerSignaled(r) \/ BackendExits(r) \/ RunnerCrash(r)
    \/ \E s \in Session : ScreenDies(s) \/ GraceEnds(s)

Next ==
    \/ \E m \in Manager : Invoke(m) \/ ManagerStep(m)
    \/ \E r \in Runner : RunnerStep(r)
    \/ Environment

Spec == Init /\ [][Next]_vars
=============================================================================
