------------------------- MODULE SessionTypeProofs -------------------------
(***************************************************************************)
(* Type correctness of SessionLifecycle for every set of sessions, runners *)
(* and managers.  TypeOK is inductive; it is proved in three parts, the    *)
(* records, the managers and the rest, for each kind of step.              *)
(***************************************************************************)
EXTENDS SessionProperties, TLAPS

\* What each store operation writes is a record that validateRecord accepts.
LEMMA StoreTypes ==
    ASSUME NEW d \in Record, ValidRecord(d)
    PROVE  /\ FailLaunch(d) \in Record /\ ValidRecord(FailLaunch(d))
           /\ Finish(d) \in Record /\ ValidRecord(Finish(d))
           /\ RequestStop(d) \in Record /\ ValidRecord(RequestStop(d))
           /\ Stop(d) \in Record /\ ValidRecord(Stop(d))
           /\ SeenRunning(d) \in Record /\ ValidRecord(SeenRunning(d))
<1>1. FailLaunch(d) \in Record /\ ValidRecord(FailLaunch(d))
  BY DEF Record, State, ValidRecord, FailLaunch
<1>2. Finish(d) \in Record /\ ValidRecord(Finish(d))
  BY DEF Record, State, ValidRecord, Finish, FinishAcknowledged, FinishLegacy, Runnable
<1>3. RequestStop(d) \in Record /\ ValidRecord(RequestStop(d))
  BY DEF Record, State, ValidRecord, RequestStop
<1>4. Stop(d) \in Record /\ ValidRecord(Stop(d))
  BY DEF Record, State, ValidRecord, Stop, Active
<1>5. SeenRunning(d) \in Record /\ ValidRecord(SeenRunning(d))
  BY DEF Record, State, ValidRecord, SeenRunning, Runnable
<1> QED
  BY <1>1, <1>2, <1>3, <1>4, <1>5

LEMMA ClaimTypes ==
    ASSUME NEW d \in Record, ValidRecord(d), NEW r \in Runner
    PROVE  /\ ClaimRunner(d, r) \in Record /\ ValidRecord(ClaimRunner(d, r))
           /\ MarkStarted(d, r) \in Record /\ ValidRecord(MarkStarted(d, r))
<1>1. ClaimRunner(d, r) \in Record /\ ValidRecord(ClaimRunner(d, r))
  BY DEF Record, State, ValidRecord, ClaimRunner
<1>2. MarkStarted(d, r) \in Record /\ ValidRecord(MarkStarted(d, r))
  BY DEF Record, State, ValidRecord, MarkStarted
<1> QED
  BY <1>1, <1>2

LEMMA BlankTypes ==
    /\ Absent \in Record /\ ValidRecord(Absent)
    /\ NewRecord \in Record /\ ValidRecord(NewRecord)
    /\ IdleManager \in ManagerState
BY DEF Absent, NewRecord, Record, State, ValidRecord, IdleManager, ManagerState,
       ManagerPC, Operations

LEMMA InitType == Init => TypeOK
<1> SUFFICES ASSUME NEW old \in Legacy, InitWith(old) PROVE TypeOK
    BY DEF Init
<1>1. rec \in [Session -> Record] /\ \A s \in Session : ValidRecord(rec[s])
  <2>1. PICK state \in {"running", "stopping"} :
           rec = [s \in Session |->
                    IF s \in SessionsOf(old)
                    THEN LegacyRecord(CHOOSE r \in old : SessionOf[r] = s, state)
                    ELSE Absent]
    BY DEF InitWith
  <2>2. ASSUME NEW s \in SessionsOf(old)
        PROVE  (CHOOSE r \in old : SessionOf[r] = s) \in Runner
    BY LegacyAssumption DEF SessionsOf
  <2>3. ASSUME NEW r \in Runner
        PROVE  LegacyRecord(r, state) \in Record /\ ValidRecord(LegacyRecord(r, state))
    BY DEF LegacyRecord, Absent, Record, State, ValidRecord
  <2> QED
    BY <2>1, <2>2, <2>3, BlankTypes
<1>2. mgr \in [Manager -> ManagerState]
  BY BlankTypes DEF InitWith
<1>3. sock \in [Session -> {"none", "up", "quitting"}] /\ age \in [Session -> {"unborn", "fresh", "old"}]
  BY DEF InitWith
<1>4. rpc \in [Runner -> RunnerPC] /\ backend \in [Runner -> {"none", "alive", "dead"}]
  BY DEF InitWith, RunnerPC
<1> QED
  BY <1>1, <1>2, <1>3, <1>4 DEF InitWith, TypeOK
\* The places of a manager, one by one.
LEMMA Places ==
    /\ "idle" \in ManagerPC /\ "delete" \in ManagerPC /\ "commit" \in ManagerPC
    /\ "finalize" \in ManagerPC /\ "mint" \in ManagerPC /\ "acquire" \in ManagerPC
    /\ "admit" \in ManagerPC /\ "save" \in ManagerPC /\ "saveLaunch" \in ManagerPC
    /\ "failPrepare" \in ManagerPC /\ "screenStart" \in ManagerPC /\ "failStart" \in ManagerPC
    /\ "wait" \in ManagerPC /\ "failWait" \in ManagerPC /\ "quit" \in ManagerPC
    /\ "release" \in ManagerPC /\ "list" \in ManagerPC /\ "read" \in ManagerPC
    /\ "cleanup" \in ManagerPC /\ "sockets" \in ManagerPC /\ "reconcile" \in ManagerPC
    /\ "listed" \in ManagerPC /\ "request" \in ManagerPC /\ "probe" \in ManagerPC
    /\ "legacyQuit" \in ManagerPC /\ "await" \in ManagerPC /\ "check" \in ManagerPC
    /\ "quitStopped" \in ManagerPC /\ "confirm" \in ManagerPC /\ "final" \in ManagerPC
BY DEF ManagerPC, CreatePC, ListPC, StopPC

StoreOK == rec \in [Session -> Record] /\ \A s \in Session : ValidRecord(rec[s])
MgrOK == mgr \in [Manager -> ManagerState]
RestOK ==
    /\ launch \subseteq Session
    /\ sock \in [Session -> {"none", "up", "quitting"}]
    /\ age \in [Session -> {"unborn", "fresh", "old"}]
    /\ config \in Config \cup {NoConfig}
    /\ inst \in {"installed", "committed", "removed"}
    /\ purge \in BOOLEAN
    /\ lock \in Manager \cup {NoManager}
    /\ rpc \in [Runner -> RunnerPC]
    /\ backend \in [Runner -> {"none", "alive", "dead"}]

LEMMA TypeParts == /\ TypeOK <=> StoreOK /\ MgrOK /\ RestOK
                   /\ TypeOK' <=> StoreOK' /\ MgrOK' /\ RestOK'
BY DEF TypeOK, StoreOK, MgrOK, RestOK

\* How records and managers are updated.
LEMMA StoreUpdate ==
    ASSUME StoreOK, NEW s \in Session, NEW d \in Record, ValidRecord(d),
           rec' = [rec EXCEPT ![s] = d]
    PROVE  StoreOK'
BY DEF StoreOK

LEMMA Become ==
    ASSUME MgrOK, NEW m \in Manager, NEW x \in ManagerState,
           mgr' = [mgr EXCEPT ![m] = x]
    PROVE  MgrOK'
BY DEF MgrOK

LEMMA GotoOK ==
    ASSUME MgrOK, NEW m \in Manager, NEW pc \in ManagerPC, Goto(m, pc)
    PROVE  MgrOK'
BY ZenonT(40) DEF MgrOK, Goto, ManagerState

LEMMA DoneOK ==
    ASSUME MgrOK, NEW m \in Manager, Done(m)
    PROVE  MgrOK'
BY BlankTypes DEF MgrOK, Done

LEMMA CreateMgr ==
    ASSUME MgrOK, NEW m \in Manager, CreateStep(m)
    PROVE  MgrOK'
<1>1. ASSUME NEW s \in Session, MintRecord(m, s)
      PROVE  MgrOK'
  <2>1. mgr' = [mgr EXCEPT ![m] = [mgr[m] EXCEPT !.pc = "acquire", !.sel = {s}]]
    BY <1>1 DEF MintRecord
  <2>2. [mgr[m] EXCEPT !.pc = "acquire", !.sel = {s}] \in ManagerState
    BY Places DEF MgrOK, ManagerState
  <2> QED
    BY <2>1, <2>2, Become
<1>2. CASE MintFails(m) \/ AcquireAdmission(m) \/ AdmitCreate(m) \/ ReleaseAdmission(m)
  BY <1>2, Places, GotoOK, DoneOK DEF MintFails, AcquireAdmission, AdmitCreate, ReleaseAdmission
<1>3. ASSUME NEW s \in Session, SaveRecord(m, s) \/ SaveLaunch(m, s)
      PROVE  MgrOK'
  BY <1>3, Places, GotoOK, DoneOK DEF SaveRecord, SaveLaunch
<1>4. ASSUME NEW s \in Session, ScreenStart(m, s)
      PROVE  MgrOK'
  BY <1>4, Places, GotoOK DEF ScreenStart
<1>5. ASSUME NEW s \in Session, StartSeen(m, s) \/ StartNotSeen(m, s)
      PROVE  MgrOK'
  BY <1>5, Places, GotoOK DEF StartSeen, StartNotSeen
<1>6. ASSUME NEW s \in Session, FailCreate(m, s) \/ QuitFailedStart(m, s)
      PROVE  MgrOK'
  BY <1>6, Places, GotoOK, DoneOK DEF FailCreate, QuitFailedStart
<1> QED
  BY <1>1, <1>2, <1>3, <1>4, <1>5, <1>6 DEF CreateStep

LEMMA ReconciledOK ==
    ASSUME MgrOK, NEW m \in Manager, NEW s \in Session, NEW kept \in Record,
           NEW warn \in BOOLEAN, At(m, "reconcile"), Reconciled(m, s, kept, warn)
    PROVE  MgrOK'
<1> DEFINE next == IF mgr[m].todo = {s} THEN "listed" ELSE mgr[m].pc
           x == [mgr[m] EXCEPT !.todo = @ \ {s}, !.snap[s] = kept,
                               !.warn = @ \/ warn, !.pc = next]
<1>1. mgr' = [mgr EXCEPT ![m] = x]
  BY DEF Reconciled
<1>2. mgr[m] \in ManagerState /\ next \in ManagerPC
  BY Places DEF MgrOK, ManagerState
<1>3. [mgr[m].snap EXCEPT ![s] = kept] \in [Session -> Record]
  BY <1>2 DEF ManagerState
<1>4. x \in ManagerState
  BY <1>2, <1>3 DEF ManagerState
<1> QED
  BY <1>1, <1>4, Become

LEMMA ListMgr ==
    ASSUME MgrOK, StoreOK, NEW m \in Manager, ListStep(m)
    PROVE  MgrOK'
<1>0. mgr[m] \in ManagerState
  BY DEF MgrOK
<1>1. CASE ReadDir(m)
  <2> DEFINE found == {s \in Session : Present(rec[s])}
             next == IF found = {} THEN "cleanup" ELSE "read"
             x == [mgr[m] EXCEPT !.todo = found, !.pc = next]
  <2>1. mgr' = [mgr EXCEPT ![m] = x]
    BY <1>1 DEF ReadDir
  <2>2. x \in ManagerState
    BY <1>0, Places DEF ManagerState
  <2> QED
    BY <2>1, <2>2, Become
<1>2. CASE CleanupLaunches(m) \/ ListReturns(m)
  BY <1>2, Places, GotoOK, DoneOK DEF CleanupLaunches, ListReturns
<1>3. CASE ListSockets(m)
  <2> DEFINE next == IF InSnapshot(m) = {} THEN "listed" ELSE "reconcile"
             x == [mgr[m] EXCEPT !.socks = Sockets, !.todo = InSnapshot(m), !.pc = next]
  <2>1. mgr' = [mgr EXCEPT ![m] = x]
    BY <1>3 DEF ListSockets
  <2>2. Sockets \subseteq Session /\ InSnapshot(m) \subseteq Session /\ next \in ManagerPC
    BY Places DEF Sockets, InSnapshot
  <2>3. x \in ManagerState
    BY <1>0, <2>2 DEF ManagerState
  <2> QED
    BY <2>1, <2>3, Become
<1>4. CASE ListSocketsFails(m)
  <2>1. mgr' = [mgr EXCEPT ![m] = [mgr[m] EXCEPT !.warn = TRUE, !.pc = "listed"]]
    BY <1>4 DEF ListSocketsFails
  <2>2. [mgr[m] EXCEPT !.warn = TRUE, !.pc = "listed"] \in ManagerState
    BY <1>0, Places DEF ManagerState
  <2> QED
    BY <2>1, <2>2, Become
<1>5. ASSUME NEW s \in Session, ReadRecord(m, s)
      PROVE  MgrOK'
  <2> DEFINE next == IF mgr[m].todo = {s} THEN "cleanup" ELSE mgr[m].pc
             x == [mgr[m] EXCEPT !.todo = @ \ {s}, !.snap[s] = rec[s],
                                 !.warn = @ \/ ~Present(rec[s]), !.pc = next]
  <2>1. mgr' = [mgr EXCEPT ![m] = x]
    BY <1>5 DEF ReadRecord
  <2>2. [mgr[m].snap EXCEPT ![s] = rec[s]] \in [Session -> Record]
    BY <1>0 DEF ManagerState, StoreOK
  <2>3. x \in ManagerState
    BY <1>0, <2>2, Places DEF ManagerState
  <2> QED
    BY <2>1, <2>3, Become
<1>6. ASSUME NEW s \in Session, Reconcile(m, s)
      PROVE  MgrOK'
  <2>1. mgr[m].snap[s] \in Record /\ rec[s] \in Record /\ ValidRecord(rec[s])
    BY <1>0 DEF ManagerState, StoreOK
  <2>2. CASE ReconcileUpdates(m, s)
    <3>1. rec'[s] = SeenRunning(rec[s])
      BY <2>2 DEF ReconcileUpdates, StoreOK
    <3> QED
      BY <1>6, <2>1, <2>2, <3>1, StoreTypes, ReconciledOK DEF Reconcile, ReconcileUpdates
  <2>3. CASE ReconcileStops(m, s)
    <3>1. CASE CanStop(rec[s])
      <4>1. rec'[s] = Stop(rec[s])
        BY <2>3, <3>1 DEF ReconcileStops, StoreOK
      <4> QED
        BY <1>6, <2>1, <2>3, <3>1, <4>1, StoreTypes, ReconciledOK DEF Reconcile, ReconcileStops
    <3> QED
      BY <1>6, <2>1, <2>3, <3>1, ReconciledOK DEF Reconcile, ReconcileStops
  <2>4. CASE ReconcileLeaves(m, s)
    <3> DEFINE d == mgr[m].snap[s]
               w == IF s \in mgr[m].socks THEN ~Active(d) ELSE ExitUnconfirmed(d)
    <3>1. w \in BOOLEAN
      BY DEF Active, ExitUnconfirmed
    <3>2. Reconciled(m, s, d, w)
      BY <2>4 DEF ReconcileLeaves
    <3> HIDE DEF w
    <3> QED
      BY <1>6, <2>1, <3>1, <3>2, ReconciledOK DEF Reconcile
  <2> QED
    BY <1>6, <2>2, <2>3, <2>4 DEF Reconcile
<1> QED
  BY <1>1, <1>2, <1>3, <1>4, <1>5, <1>6 DEF ListStep

LEMMA BeginShutdownOK ==
    ASSUME MgrOK, NEW m \in Manager, NEW s \in Session, NEW d \in Record,
           BeginShutdown(m, s, d)
    PROVE  MgrOK'
<1> DEFINE next == IF d.proto = 1 THEN "await" ELSE "legacyQuit"
           x == [mgr[m] EXCEPT !.snap[s] = d, !.pc = next]
<1>1. mgr' = [mgr EXCEPT ![m] = x]
  BY DEF BeginShutdown
<1>2. mgr[m] \in ManagerState /\ next \in ManagerPC
  BY Places DEF MgrOK
<1>3. [mgr[m].snap EXCEPT ![s] = d] \in [Session -> Record]
  BY <1>2 DEF ManagerState
<1>4. x \in ManagerState
  BY <1>2, <1>3 DEF ManagerState
<1> QED
  BY <1>1, <1>4, Become

\* A Screen command that was tried: the manager goes on and may keep its error.
LEMMA TriedOK ==
    ASSUME MgrOK, NEW m \in Manager, NEW pc \in ManagerPC,
           \/ mgr' = [mgr EXCEPT ![m].pc = pc]
           \/ mgr' = [mgr EXCEPT ![m].pc = pc, ![m].warn = TRUE]
    PROVE  MgrOK'
<1>1. mgr[m] \in ManagerState
  BY DEF MgrOK
<1>2. CASE mgr' = [mgr EXCEPT ![m].pc = pc]
  <2>1. mgr' = [mgr EXCEPT ![m] = [mgr[m] EXCEPT !.pc = pc]]
    BY <1>2
  <2>2. [mgr[m] EXCEPT !.pc = pc] \in ManagerState
    BY <1>1 DEF ManagerState
  <2> QED
    BY <2>1, <2>2, Become
<1>3. CASE mgr' = [mgr EXCEPT ![m].pc = pc, ![m].warn = TRUE]
  <2>1. mgr' = [mgr EXCEPT ![m] = [mgr[m] EXCEPT !.pc = pc, !.warn = TRUE]]
    BY <1>3
  <2>2. [mgr[m] EXCEPT !.pc = pc, !.warn = TRUE] \in ManagerState
    BY <1>1 DEF ManagerState
  <2> QED
    BY <2>1, <2>2, Become
<1> QED
  BY <1>2, <1>3

LEMMA StopMgr ==
    ASSUME MgrOK, StoreOK, NEW m \in Manager, StopStep(m)
    PROVE  MgrOK'
<1>0. mgr[m] \in ManagerState
  BY DEF MgrOK
<1>1. CASE SelectForStop(m)
  <2>1. ASSUME NEW s \in InSnapshot(m),
               mgr' = [mgr EXCEPT ![m] = [IdleManager EXCEPT
                         !.op = "stop", !.sel = {s}, !.snap[s] = mgr[m].snap[s],
                         !.pc = IF Active(mgr[m].snap[s]) THEN "request" ELSE "probe"]]
        PROVE  MgrOK'
    <3> DEFINE next == IF Active(mgr[m].snap[s]) THEN "request" ELSE "probe"
               x == [IdleManager EXCEPT !.op = "stop", !.sel = {s},
                        !.snap[s] = mgr[m].snap[s], !.pc = next]
    <3>1. s \in Session /\ next \in ManagerPC /\ mgr[m].snap[s] \in Record
      BY <1>0, Places DEF InSnapshot, ManagerState
    <3>2. IdleManager \in ManagerState
      BY BlankTypes
    <3>3. [IdleManager.snap EXCEPT ![s] = mgr[m].snap[s]] \in [Session -> Record]
      BY <3>1, <3>2 DEF ManagerState
    <3>4. x \in ManagerState
      BY <3>1, <3>2, <3>3 DEF ManagerState, Operations
    <3> QED
      BY <2>1, <3>4, Become
  <2> QED
    BY <1>1, <2>1, DoneOK DEF SelectForStop
<1>2. ASSUME NEW s \in Session, ProbeEnded(m, s)
      PROVE  MgrOK'
  BY <1>0, <1>2, BeginShutdownOK, DoneOK DEF ProbeEnded, ManagerState
<1>3. ASSUME NEW s \in Session, RequestStopOf(m, s)
      PROVE  MgrOK'
  <2>1. CASE CanRequestStop(rec[s])
    <3>1. rec'[s] \in Record
      BY <1>3, <2>1, StoreTypes DEF RequestStopOf, StoreOK
    <3> QED
      BY <1>3, <2>1, <3>1, BeginShutdownOK DEF RequestStopOf
  <2> QED
    BY <1>3, <2>1, DoneOK DEF RequestStopOf
<1>4. ASSUME NEW s \in Session, LegacyQuit(m, s)
      PROVE  MgrOK'
  BY <1>4, Places, TriedOK DEF LegacyQuit
<1>5. ASSUME NEW s \in Session, QuitStopped(m, s)
      PROVE  MgrOK'
  BY <1>5, Places, TriedOK DEF QuitStopped
<1>6. ASSUME NEW s \in Session, AwaitBackendExit(m, s)
      PROVE  MgrOK'
  BY <1>6, Places, GotoOK, DoneOK DEF AwaitBackendExit
<1>7. ASSUME NEW s \in Session, CheckSocket(m, s) \/ ConfirmStopped(m, s)
      PROVE  MgrOK'
  BY <1>7, Places, GotoOK, DoneOK DEF CheckSocket, ConfirmStopped
<1>8. ASSUME NEW s \in Session, FinalizeStop(m, s)
      PROVE  MgrOK'
  BY <1>8, DoneOK DEF FinalizeStop
<1> QED
  BY <1>1, <1>2, <1>3, <1>4, <1>5, <1>6, <1>7, <1>8 DEF StopStep

LEMMA PruneMgr ==
    ASSUME MgrOK, NEW m \in Manager, PruneStep(m)
    PROVE  MgrOK'
<1>0. mgr[m] \in ManagerState
  BY DEF MgrOK
<1>1. CASE SelectForPrune(m)
  <2>1. ASSUME NEW chosen \in SUBSET Session,
               mgr' = [mgr EXCEPT ![m] = [IdleManager EXCEPT
                         !.op = "prune", !.pc = "delete", !.todo = chosen]]
        PROVE  MgrOK'
    <3>1. [IdleManager EXCEPT !.op = "prune", !.pc = "delete", !.todo = chosen] \in ManagerState
      BY BlankTypes, Places DEF ManagerState, Operations
    <3> QED
      BY <2>1, <3>1, Become
  <2>2. InSnapshot(m) \subseteq Session
    BY DEF InSnapshot
  <2> QED
    BY <1>1, <2>1, <2>2, DoneOK DEF SelectForPrune
<1>2. ASSUME NEW s \in Session, DeleteRecord(m, s)
      PROVE  MgrOK'
  <2>1. CASE Done(m)
    BY <2>1, DoneOK
  <2>2. CASE mgr' = [mgr EXCEPT ![m].todo = @ \ {s}]
    <3>1. mgr' = [mgr EXCEPT ![m] = [mgr[m] EXCEPT !.todo = @ \ {s}]]
      BY <2>2
    <3>2. [mgr[m] EXCEPT !.todo = @ \ {s}] \in ManagerState
      BY <1>0 DEF ManagerState
    <3> QED
      BY <3>1, <3>2, Become
  <2> QED
    BY <1>2, <2>1, <2>2 DEF DeleteRecord
<1> QED
  BY <1>1, <1>2 DEF PruneStep

LEMMA UninstallMgr ==
    ASSUME MgrOK, NEW m \in Manager, UninstallStep(m)
    PROVE  MgrOK'
BY Places, GotoOK, DoneOK
   DEF UninstallStep, ProveInactive, CommitUninstall, FinalizeUninstall

LEMMA InvokeMgr ==
    ASSUME MgrOK, RestOK, NEW m \in Manager, Invoke(m)
    PROVE  MgrOK'
<1>1. ASSUME NEW op \in CommandsOf[m], StartCommand(m, op)
      PROVE  MgrOK'
  <2> DEFINE next == IF op = "new" THEN "mint" ELSE "list"
             x == [IdleManager EXCEPT !.pc = next, !.op = op, !.cfg = config]
  <2>1. mgr' = [mgr EXCEPT ![m] = x]
    BY <1>1 DEF StartCommand
  <2>2. op \in Operations /\ config \in Config \cup {NoConfig} /\ next \in ManagerPC
    BY <1>1, Places DEF StartCommand, Operations, RestOK
  <2>3. x \in ManagerState
    BY <2>2, BlankTypes DEF ManagerState
  <2> QED
    BY <2>1, <2>3, Become
<1>2. CASE StartUninstall(m)
  <2>1. [IdleManager EXCEPT !.pc = "list", !.op = "uninstall"] \in ManagerState
    BY BlankTypes, Places DEF ManagerState, Operations
  <2> QED
    BY <1>2, <2>1, Become DEF StartUninstall
<1>3. CASE StartFinalize(m)
  <2>1. [IdleManager EXCEPT !.pc = "finalize", !.op = "finalize"] \in ManagerState
    BY BlankTypes, Places DEF ManagerState, Operations
  <2> QED
    BY <1>3, <2>1, Become DEF StartFinalize
<1> QED
  BY <1>1, <1>2, <1>3 DEF Invoke

\* A manager's step keeps the records valid.
LEMMA ManagerStore ==
    ASSUME StoreOK, NEW m \in Manager, Invoke(m) \/ ManagerStep(m)
    PROVE  StoreOK'
<1>1. ASSUME NEW s \in Session, SaveRecord(m, s)
      PROVE  StoreOK'
  BY <1>1, BlankTypes, StoreUpdate DEF SaveRecord, StoreOK
<1>2. ASSUME NEW s \in Session, FailCreate(m, s)
      PROVE  StoreOK'
  <2>1. rec' = [rec EXCEPT ![s] = FailLaunch(rec[s])]
    BY <1>2 DEF FailCreate
  <2> QED
    BY <2>1, StoreTypes, StoreUpdate DEF StoreOK
<1>3. ASSUME NEW s \in Session, Reconcile(m, s)
      PROVE  StoreOK'
  <2>1. \/ rec' = rec
        \/ rec' = [rec EXCEPT ![s] = SeenRunning(rec[s])]
        \/ rec' = [rec EXCEPT ![s] = Stop(rec[s])]
    BY <1>3 DEF Reconcile, ReconcileUpdates, ReconcileStops, ReconcileLeaves, store
  <2> QED
    BY <2>1, StoreTypes, StoreUpdate DEF StoreOK
<1>4. ASSUME NEW s \in Session, RequestStopOf(m, s)
      PROVE  StoreOK'
  <2>1. rec' = rec \/ rec' = [rec EXCEPT ![s] = RequestStop(rec[s])]
    BY <1>4 DEF RequestStopOf, store
  <2> QED
    BY <2>1, StoreTypes, StoreUpdate DEF StoreOK
<1>5. ASSUME NEW s \in Session, FinalizeStop(m, s)
      PROVE  StoreOK'
  <2>1. rec' = rec \/ rec' = [rec EXCEPT ![s] = Stop(rec[s])]
    BY <1>5 DEF FinalizeStop, store
  <2> QED
    BY <2>1, StoreTypes, StoreUpdate DEF StoreOK
<1>6. ASSUME NEW s \in Session, DeleteRecord(m, s)
      PROVE  StoreOK'
  <2>1. rec' = rec \/ rec' = [rec EXCEPT ![s] = Absent]
    BY <1>6 DEF DeleteRecord, store
  <2> QED
    BY <2>1, BlankTypes, StoreUpdate DEF StoreOK
<1>7. CASE FinalizeUninstall(m)
  <2>1. rec' = rec \/ rec' = [s \in Session |-> Absent]
    BY <1>7 DEF FinalizeUninstall, store
  <2> QED
    BY <2>1, BlankTypes DEF StoreOK
<1>8. CASE UNCHANGED rec
  BY <1>8 DEF StoreOK
<1>9. CASE CreateStep(m)
  BY <1>1, <1>2, <1>8, <1>9
     DEF CreateStep, MintRecord, MintFails, AcquireAdmission, AdmitCreate, SaveLaunch,
         ScreenStart, StartSeen, StartNotSeen, QuitFailedStart, ReleaseAdmission, store
<1>10. CASE ListStep(m)
  BY <1>3, <1>8, <1>10
     DEF ListStep, ReadDir, ReadRecord, CleanupLaunches, ListSockets,
         ListSocketsFails, ListReturns, store
<1>11. CASE StopStep(m)
  BY <1>4, <1>5, <1>8, <1>11
     DEF StopStep, SelectForStop, ProbeEnded, LegacyQuit, AwaitBackendExit, CheckSocket,
         QuitStopped, ConfirmStopped, store
<1>12. CASE PruneStep(m)
  BY <1>6, <1>8, <1>12 DEF PruneStep, SelectForPrune, store
<1>13. CASE UninstallStep(m)
  BY <1>7, <1>8, <1>13 DEF UninstallStep, ProveInactive, CommitUninstall, store
<1>14. CASE Invoke(m)
  BY <1>8, <1>14 DEF Invoke, StartCommand, StartUninstall, StartFinalize, store
<1> QED
  BY <1>9, <1>10, <1>11, <1>12, <1>13, <1>14 DEF ManagerStep

LEMMA RunnerStore ==
    ASSUME StoreOK, NEW r \in Runner, RunnerStep(r)
    PROVE  StoreOK'
<1> DEFINE s == SessionOf[r]
<1>0. s \in Session
  BY SessionOfAssumption
<1>1. \/ rec' = rec
      \/ rec' = [rec EXCEPT ![s] = FailLaunch(rec[s])]
      \/ rec' = [rec EXCEPT ![s] = ClaimRunner(rec[s], r)]
      \/ rec' = [rec EXCEPT ![s] = MarkStarted(rec[s], r)]
      \/ rec' = [rec EXCEPT ![s] = Finish(rec[s])]
  BY DEF RunnerStep, LoadRecord, ConsumeLaunch, PrepareFails, FailRunner, ClaimSession,
         StartBackend, MarkSessionStarted, StopRequested, Escalate, Reap, FinishSession, store
<1> QED
  BY <1>0, <1>1, StoreTypes, ClaimTypes, StoreUpdate DEF StoreOK

\* The environment leaves the store and the places of all but a killed manager.
LEMMA EnvironmentStore ==
    ASSUME Environment
    PROVE  UNCHANGED store
BY DEF Environment, Setup, ManagerCrash, RunByHand, RunnerSignaled, BackendExits,
       RunnerCrash, ScreenDies, GraceEnds, store

-----------------------------------------------------------------------------
\* The other variables.
LEMMA ManagerRest ==
    ASSUME RestOK, NEW m \in Manager, Invoke(m) \/ ManagerStep(m)
    PROVE  RestOK'
<1> USE DEF RestOK, store, admin, Release, Unlocked
<1>1. CASE CreateStep(m)
  <2>1. ASSUME NEW s \in Session, MintRecord(m, s)
        PROVE  RestOK'
    BY <2>1 DEF MintRecord
  <2>2. CASE MintFails(m) \/ AcquireAdmission(m) \/ AdmitCreate(m) \/ ReleaseAdmission(m)
    BY <2>2 DEF MintFails, AcquireAdmission, AdmitCreate, ReleaseAdmission
  <2>3. ASSUME NEW s \in Session, SaveRecord(m, s) \/ SaveLaunch(m, s)
        PROVE  RestOK'
    BY <2>3 DEF SaveRecord, SaveLaunch
  <2>4. ASSUME NEW s \in Session, ScreenStart(m, s)
        PROVE  RestOK'
    <3>1. sock' \in [Session -> {"none", "up", "quitting"}]
      BY <2>4 DEF ScreenStart
    <3>2. rpc' \in [Runner -> RunnerPC]
      BY <2>4 DEF ScreenStart, RunnerPC
    <3> QED
      BY <2>4, <3>1, <3>2 DEF ScreenStart
  <2>5. ASSUME NEW s \in Session, StartSeen(m, s) \/ StartNotSeen(m, s) \/ FailCreate(m, s)
        PROVE  RestOK'
    BY <2>5 DEF StartSeen, StartNotSeen, FailCreate
  <2>6. ASSUME NEW s \in Session, QuitFailedStart(m, s)
        PROVE  RestOK'
    BY <2>6 DEF QuitFailedStart, ScreenStop
  <2> QED
    BY <1>1, <2>1, <2>2, <2>3, <2>4, <2>5, <2>6 DEF CreateStep
<1>2. CASE ListStep(m)
  BY <1>2
     DEF ListStep, ReadDir, ReadRecord, CleanupLaunches, ListSockets, ListSocketsFails,
         ListReturns, Reconcile, ReconcileUpdates, ReconcileStops, ReconcileLeaves
<1>3. CASE StopStep(m)
  BY <1>3, ZenonT(40)
     DEF StopStep, SelectForStop, ProbeEnded, RequestStopOf, LegacyQuit, AwaitBackendExit,
         CheckSocket, QuitStopped, ConfirmStopped, FinalizeStop, ScreenStop
<1>4. CASE PruneStep(m)
  BY <1>4 DEF PruneStep, SelectForPrune, DeleteRecord
<1>5. CASE UninstallStep(m)
  BY <1>5 DEF UninstallStep, ProveInactive, CommitUninstall, FinalizeUninstall
<1>6. CASE Invoke(m)
  BY <1>6 DEF Invoke, StartCommand, StartUninstall, StartFinalize
<1> QED
  BY <1>1, <1>2, <1>3, <1>4, <1>5, <1>6 DEF ManagerStep

LEMMA RunnerRest ==
    ASSUME RestOK, NEW r \in Runner, RunnerStep(r)
    PROVE  RestOK' /\ UNCHANGED mgr
<1>1. UNCHANGED <<sock, age, admin, lock, mgr>>
  BY DEF RunnerStep, LoadRecord, ConsumeLaunch, PrepareFails, FailRunner, ClaimSession,
         StartBackend, MarkSessionStarted, StopRequested, Escalate, Reap, FinishSession
<1>2. launch' \subseteq launch
  BY DEF RunnerStep, LoadRecord, ConsumeLaunch, PrepareFails, FailRunner, ClaimSession,
         StartBackend, MarkSessionStarted, StopRequested, Escalate, Reap, FinishSession, store
<1>3. \E pc \in RunnerPC : rpc' = [rpc EXCEPT ![r] = pc]
  BY DEF RunnerStep, LoadRecord, ConsumeLaunch, PrepareFails, FailRunner, ClaimSession,
         StartBackend, MarkSessionStarted, StopRequested, Escalate, Reap, FinishSession,
         RunnerGoto, RunnerPC
<1>4. backend' = backend \/ backend' = [backend EXCEPT ![r] = "alive"]
  BY DEF RunnerStep, LoadRecord, ConsumeLaunch, PrepareFails, FailRunner, ClaimSession,
         StartBackend, MarkSessionStarted, StopRequested, Escalate, Reap, FinishSession
<1> QED
  BY <1>1, <1>2, <1>3, <1>4 DEF RestOK, admin

LEMMA EnvironmentRest ==
    ASSUME MgrOK, RestOK, Environment
    PROVE  MgrOK' /\ RestOK'
<1> USE DEF RestOK, store, admin
<1>1. CASE Setup
  BY <1>1 DEF Setup, MgrOK
<1>2. ASSUME NEW m \in Manager, ManagerCrash(m)
      PROVE  MgrOK' /\ RestOK'
  BY <1>2, DoneOK DEF ManagerCrash, Release, Unlocked
<1>3. ASSUME NEW r \in Runner,
             RunByHand(r) \/ RunnerSignaled(r) \/ BackendExits(r) \/ RunnerCrash(r)
      PROVE  MgrOK' /\ RestOK'
  BY <1>3 DEF RunByHand, RunnerSignaled, BackendExits, RunnerCrash, RunnerGoto, RunnerPC, MgrOK
<1>4. ASSUME NEW s \in Session, ScreenDies(s) \/ GraceEnds(s)
      PROVE  MgrOK' /\ RestOK'
  BY <1>4 DEF ScreenDies, GraceEnds, MgrOK
<1> QED
  BY <1>1, <1>2, <1>3, <1>4 DEF Environment

LEMMA ManagerMgr ==
    ASSUME MgrOK, StoreOK, RestOK, NEW m \in Manager, Invoke(m) \/ ManagerStep(m)
    PROVE  MgrOK'
BY CreateMgr, ListMgr, StopMgr, PruneMgr, UninstallMgr, InvokeMgr DEF ManagerStep

LEMMA StepType == TypeOK /\ [Next]_vars => TypeOK'
<1> SUFFICES ASSUME StoreOK, MgrOK, RestOK, [Next]_vars
             PROVE  StoreOK' /\ MgrOK' /\ RestOK'
  BY TypeParts
<1>1. ASSUME NEW m \in Manager, Invoke(m) \/ ManagerStep(m)
      PROVE  StoreOK' /\ MgrOK' /\ RestOK'
  BY <1>1, ManagerStore, ManagerMgr, ManagerRest
<1>2. ASSUME NEW r \in Runner, RunnerStep(r)
      PROVE  StoreOK' /\ MgrOK' /\ RestOK'
  BY <1>2, RunnerStore, RunnerRest DEF MgrOK
<1>3. CASE Environment
  BY <1>3, EnvironmentStore, EnvironmentRest DEF StoreOK, store
<1>4. CASE UNCHANGED vars
  BY <1>4 DEF vars, StoreOK, MgrOK, RestOK
<1> QED
  BY <1>1, <1>2, <1>3, <1>4 DEF Next

\* Every reachable state is type correct, every record one that validateRecord
\* accepts: no sequence of store operations writes an acknowledgement without
\* an exit code or for a record of an older release.
THEOREM TypeCorrect == Spec => []TypeOK
<1>1. Init => TypeOK
  BY InitType
<1>2. TypeOK /\ [Next]_vars => TypeOK'
  BY StepType
<1> QED
  BY <1>1, <1>2, PTL DEF Spec
=============================================================================
