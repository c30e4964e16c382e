----------------------- MODULE SessionLifecycleProofs -----------------------
(***************************************************************************)
(* Proofs about SessionLifecycle for every set of sessions, runners and    *)
(* managers: that a creation runs alone under the configuration it was     *)
(* admitted under, that a launch request is used once, that a live backend *)
(* keeps its record until a purge, that nothing appears after a purge,     *)
(* that an uninstall commits when no live backend is left, what one step   *)
(* may do to a record and a backend, and that the whole implements         *)
(* SessionContract.                                                        *)
(***************************************************************************)
EXTENDS SessionTypeProofs

-----------------------------------------------------------------------------
\* What a manager's step does to the managers' state.
Frame(m) == \A n \in Manager \ {m} : mgr'[n] = mgr[n]

LEMMA GotoFields ==
    ASSUME MgrOK, NEW m \in Manager, NEW pc, Goto(m, pc)
    PROVE  /\ mgr'[m].pc = pc /\ mgr'[m].op = mgr[m].op
           /\ mgr'[m].sel = mgr[m].sel /\ mgr'[m].cfg = mgr[m].cfg
           /\ Frame(m)
BY DEF Goto, MgrOK, ManagerState, Frame

LEMMA DoneFields ==
    ASSUME MgrOK, NEW m \in Manager, Done(m)
    PROVE  /\ mgr'[m].pc = "idle" /\ mgr'[m].op = "list" /\ mgr'[m].sel = {}
           /\ Frame(m)
BY DEF Done, MgrOK, IdleManager, Frame

LEMMA BecomeFields ==
    ASSUME MgrOK, NEW m \in Manager, NEW x, mgr' = [mgr EXCEPT ![m] = x]
    PROVE  mgr'[m] = x /\ Frame(m)
BY DEF MgrOK, Frame

\* The places of list, stop and prune, and what any of their steps may do:
\* a listing is also the first part of uninstall, under its own op.
QuietPC == ListPC \cup StopPC \cup {"idle", "delete"}

RecordMove(d, e) ==
    \/ e = d
    \/ e = SeenRunning(d)
    \/ CanStop(d) /\ e = Stop(d)
    \/ CanRequestStop(d) /\ e = RequestStop(d)
    \/ CanDelete(d) /\ e = Absent

LocallyQuiet(m) ==
    /\ mgr[m].pc \in QuietPC \ {"idle"} /\ mgr'[m].pc \in QuietPC
    /\ mgr'[m].op \in {mgr[m].op, "list", "stop", "prune"}
    /\ Frame(m)

GloballyQuiet ==
    /\ UNCHANGED <<age, admin, lock, rpc, backend>>
    /\ launch' \subseteq launch
    /\ \A s \in Session : RecordMove(rec[s], rec'[s])

LEMMA QuietGoto ==
    ASSUME MgrOK, NEW m \in Manager, mgr[m].pc \in QuietPC \ {"idle"},
           NEW pc \in QuietPC, Goto(m, pc) \/ Done(m)
    PROVE  LocallyQuiet(m)
<1>1. "idle" \in QuietPC
  BY DEF QuietPC
<1> QED
  BY <1>1, GotoFields, DoneFields DEF LocallyQuiet

LEMMA ListQuiet ==
    ASSUME MgrOK, NEW m \in Manager, ListStep(m)
    PROVE  LocallyQuiet(m)
<1>1. CASE ReadDir(m)
  <2> DEFINE found == {s \in Session : Present(rec[s])}
             next == IF found = {} THEN "cleanup" ELSE "read"
             x == [mgr[m] EXCEPT !.todo = found, !.pc = next]
  <2>1. mgr' = [mgr EXCEPT ![m] = x] /\ mgr[m].pc = "list"
    BY <1>1 DEF ReadDir, At
  <2>2. x.pc \in {"cleanup", "read"} /\ x.op = mgr[m].op
    BY DEF MgrOK, ManagerState
  <2> QED
    BY <2>1, <2>2, BecomeFields, ZenonT(40) DEF LocallyQuiet, QuietPC, ListPC
<1>2. CASE CleanupLaunches(m) \/ ListReturns(m)
  BY <1>2, QuietGoto DEF CleanupLaunches, ListReturns, At, QuietPC, ListPC
<1>3. CASE ListSockets(m)
  <2> DEFINE next == IF InSnapshot(m) = {} THEN "listed" ELSE "reconcile"
             x == [mgr[m] EXCEPT !.socks = Sockets, !.todo = InSnapshot(m), !.pc = next]
  <2>1. mgr' = [mgr EXCEPT ![m] = x] /\ mgr[m].pc = "sockets"
    BY <1>3 DEF ListSockets, At
  <2>2. x.pc \in {"listed", "reconcile"} /\ x.op = mgr[m].op
    BY DEF MgrOK, ManagerState
  <2> QED
    BY <2>1, <2>2, BecomeFields, ZenonT(40) DEF LocallyQuiet, QuietPC, ListPC
<1>4. CASE ListSocketsFails(m)
  <2>1. mgr' = [mgr EXCEPT ![m] = [mgr[m] EXCEPT !.warn = TRUE, !.pc = "listed"]]
    BY <1>4 DEF ListSocketsFails
  <2>2. mgr'[m].pc = "listed" /\ mgr'[m].op = mgr[m].op
    BY <2>1 DEF MgrOK, ManagerState
  <2> QED
    BY <1>4, <2>1, <2>2, BecomeFields DEF ListSocketsFails, At, LocallyQuiet, QuietPC, ListPC
<1>5. ASSUME NEW s \in Session, ReadRecord(m, s)
      PROVE  LocallyQuiet(m)
  <2> DEFINE next == IF mgr[m].todo = {s} THEN "cleanup" ELSE mgr[m].pc
             x == [mgr[m] EXCEPT !.todo = @ \ {s}, !.snap[s] = rec[s],
                                 !.warn = @ \/ ~Present(rec[s]), !.pc = next]
  <2>1. mgr' = [mgr EXCEPT ![m] = x] /\ mgr[m].pc = "read"
    BY <1>5 DEF ReadRecord, At
  <2>2. x.pc \in {"cleanup", "read"} /\ x.op = mgr[m].op
    BY <2>1 DEF MgrOK, ManagerState
  <2> QED
    BY <2>1, <2>2, BecomeFields DEF LocallyQuiet, QuietPC, ListPC
<1>6. ASSUME NEW s \in Session, Reconcile(m, s)
      PROVE  LocallyQuiet(m)
  <2>1. \E kept, warn : Reconciled(m, s, kept, warn)
    BY <1>6 DEF Reconcile, ReconcileUpdates, ReconcileStops, ReconcileLeaves
  <2>2. PICK kept, warn : Reconciled(m, s, kept, warn)
    BY <2>1
  <2> DEFINE next == IF mgr[m].todo = {s} THEN "listed" ELSE mgr[m].pc
             x == [mgr[m] EXCEPT !.todo = @ \ {s}, !.snap[s] = kept,
                                 !.warn = @ \/ warn, !.pc = next]
  <2>3. mgr' = [mgr EXCEPT ![m] = x] /\ mgr[m].pc = "reconcile"
    BY <1>6, <2>2 DEF Reconciled, Reconcile, At
  <2>4. x.pc \in {"listed", "reconcile"} /\ x.op = mgr[m].op
    BY <2>3 DEF MgrOK, ManagerState
  <2> QED
    BY <2>3, <2>4, BecomeFields DEF LocallyQuiet, QuietPC, ListPC
<1> QED
  BY <1>1, <1>2, <1>3, <1>4, <1>5, <1>6 DEF ListStep

LEMMA BeginShutdownQuiet ==
    ASSUME MgrOK, NEW m \in Manager, NEW s, NEW d, mgr[m].pc \in {"probe", "request"},
           BeginShutdown(m, s, d)
    PROVE  LocallyQuiet(m)
<1> DEFINE next == IF d.proto = 1 THEN "await" ELSE "legacyQuit"
           x == [mgr[m] EXCEPT !.snap[s] = d, !.pc = next]
<1>1. mgr' = [mgr EXCEPT ![m] = x]
  BY DEF BeginShutdown
<1>2. x.pc \in {"await", "legacyQuit"} /\ x.op = mgr[m].op
  BY DEF MgrOK, ManagerState
<1> HIDE DEF x
<1> QED
  BY <1>1, <1>2, BecomeFields DEF LocallyQuiet, QuietPC, StopPC

LEMMA TriedQuiet ==
    ASSUME MgrOK, NEW m \in Manager, mgr[m].pc \in {"legacyQuit", "quitStopped"},
           NEW pc \in {"await", "confirm"},
           \/ mgr' = [mgr EXCEPT ![m].pc = pc]
           \/ mgr' = [mgr EXCEPT ![m].pc = pc, ![m].warn = TRUE]
    PROVE  LocallyQuiet(m)
<1>1. mgr'[m].pc = pc /\ mgr'[m].op = mgr[m].op /\ Frame(m)
  BY DEF MgrOK, ManagerState, Frame
<1> QED
  BY <1>1 DEF LocallyQuiet, QuietPC, StopPC

LEMMA StopQuiet ==
    ASSUME MgrOK, NEW m \in Manager, StopStep(m)
    PROVE  LocallyQuiet(m)
<1>1. CASE SelectForStop(m)
  <2>1. ASSUME NEW s \in InSnapshot(m),
               mgr' = [mgr EXCEPT ![m] = [IdleManager EXCEPT
                         !.op = "stop", !.sel = {s}, !.snap[s] = mgr[m].snap[s],
                         !.pc = IF Active(mgr[m].snap[s]) THEN "request" ELSE "probe"]]
        PROVE  LocallyQuiet(m)
    <3> DEFINE next == IF Active(mgr[m].snap[s]) THEN "request" ELSE "probe"
               x == [IdleManager EXCEPT !.op = "stop", !.sel = {s},
                        !.snap[s] = mgr[m].snap[s], !.pc = next]
    <3>1. x.pc \in {"request", "probe"} /\ x.op = "stop"
      BY DEF IdleManager
    <3>2. mgr' = [mgr EXCEPT ![m] = x] /\ mgr[m].pc = "listed"
      BY <1>1, <2>1 DEF SelectForStop, At
    <3> QED
      BY <3>1, <3>2, BecomeFields DEF LocallyQuiet, QuietPC, StopPC, ListPC
  <2>2. CASE Done(m)
    BY <1>1, <2>2, QuietGoto DEF SelectForStop, At, QuietPC, ListPC
  <2> QED
    BY <1>1, <2>1, <2>2 DEF SelectForStop
<1>2. ASSUME NEW s \in Session, ProbeEnded(m, s) \/ RequestStopOf(m, s)
      PROVE  LocallyQuiet(m)
  <2>1. mgr[m].pc \in {"probe", "request"} /\ ((\E d : BeginShutdown(m, s, d)) \/ Done(m))
    BY <1>2 DEF ProbeEnded, RequestStopOf, At
  <2> QED
    BY <2>1, BeginShutdownQuiet, QuietGoto DEF QuietPC, StopPC
<1>3. ASSUME NEW s \in Session, LegacyQuit(m, s) \/ QuitStopped(m, s)
      PROVE  LocallyQuiet(m)
  BY <1>3, TriedQuiet DEF LegacyQuit, QuitStopped, At
<1>4. ASSUME NEW s \in Session, AwaitBackendExit(m, s)
      PROVE  LocallyQuiet(m)
  BY <1>4, QuietGoto DEF AwaitBackendExit, At, QuietPC, StopPC
<1>5. ASSUME NEW s \in Session, CheckSocket(m, s) \/ ConfirmStopped(m, s)
      PROVE  LocallyQuiet(m)
  BY <1>5, QuietGoto DEF CheckSocket, ConfirmStopped, At, QuietPC, StopPC
<1>6. ASSUME NEW s \in Session, FinalizeStop(m, s)
      PROVE  LocallyQuiet(m)
  BY <1>6, QuietGoto DEF FinalizeStop, At, QuietPC, StopPC
<1> QED
  BY <1>1, <1>2, <1>3, <1>4, <1>5, <1>6 DEF StopStep

LEMMA PruneQuiet ==
    ASSUME MgrOK, NEW m \in Manager, PruneStep(m)
    PROVE  LocallyQuiet(m)
<1>1. CASE SelectForPrune(m)
  <2>1. ASSUME NEW chosen,
               mgr' = [mgr EXCEPT ![m] = [IdleManager EXCEPT
                         !.op = "prune", !.pc = "delete", !.todo = chosen]]
        PROVE  LocallyQuiet(m)
    <3> DEFINE x == [IdleManager EXCEPT !.op = "prune", !.pc = "delete", !.todo = chosen]
    <3>1. x.pc = "delete" /\ x.op = "prune"
      BY DEF IdleManager
    <3>2. mgr' = [mgr EXCEPT ![m] = x] /\ mgr[m].pc = "listed"
      BY <1>1, <2>1 DEF SelectForPrune, At
    <3> HIDE DEF x
    <3> QED
      BY <3>1, <3>2, BecomeFields DEF LocallyQuiet, QuietPC, ListPC
  <2>2. CASE Done(m)
    BY <1>1, <2>2, QuietGoto DEF SelectForPrune, At, QuietPC, ListPC
  <2> QED
    BY <1>1, <2>1, <2>2 DEF SelectForPrune
<1>2. ASSUME NEW s \in Session, DeleteRecord(m, s)
      PROVE  LocallyQuiet(m)
  <2>1. mgr[m].pc = "delete"
    BY <1>2 DEF DeleteRecord, At
  <2>2. CASE Done(m)
    BY <2>1, <2>2, QuietGoto DEF QuietPC
  <2>3. CASE mgr' = [mgr EXCEPT ![m].todo = @ \ {s}]
    <3>1. mgr'[m].pc = mgr[m].pc /\ mgr'[m].op = mgr[m].op /\ Frame(m)
      BY <2>3 DEF MgrOK, ManagerState, Frame
    <3> QED
      BY <2>1, <3>1 DEF LocallyQuiet, QuietPC
  <2> QED
    BY <1>2, <2>2, <2>3 DEF DeleteRecord
<1> QED
  BY <1>1, <1>2 DEF PruneStep

LEMMA OneRecordMoves ==
    ASSUME StoreOK, NEW s \in Session, NEW e, RecordMove(rec[s], e),
           rec' = [rec EXCEPT ![s] = e]
    PROVE  \A t \in Session : RecordMove(rec[t], rec'[t])
BY DEF StoreOK, RecordMove

LEMMA QuietGlobally ==
    ASSUME StoreOK, NEW m \in Manager, ListStep(m) \/ StopStep(m) \/ PruneStep(m)
    PROVE  GloballyQuiet
<1> USE DEF store, admin
<1>1. ASSUME NEW s \in Session, Reconcile(m, s)
      PROVE  GloballyQuiet
  <2>1. UNCHANGED <<age, admin, lock, rpc, backend>> /\ launch' \subseteq launch
    BY <1>1 DEF Reconcile, ReconcileUpdates, ReconcileStops, ReconcileLeaves
  <2>2. \/ rec' = rec
        \/ rec' = [rec EXCEPT ![s] = SeenRunning(rec[s])]
        \/ CanStop(rec[s]) /\ rec' = [rec EXCEPT ![s] = Stop(rec[s])]
    BY <1>1 DEF Reconcile, ReconcileUpdates, ReconcileStops, ReconcileLeaves
  <2> QED
    BY <2>1, <2>2, OneRecordMoves DEF GloballyQuiet, RecordMove
<1>2. ASSUME NEW s \in Session, RequestStopOf(m, s)
      PROVE  GloballyQuiet
  <2>1. UNCHANGED <<age, admin, lock, rpc, backend>> /\ launch' \subseteq launch
    BY <1>2 DEF RequestStopOf
  <2>2. rec' = rec \/ (CanRequestStop(rec[s]) /\ rec' = [rec EXCEPT ![s] = RequestStop(rec[s])])
    BY <1>2 DEF RequestStopOf
  <2> QED
    BY <2>1, <2>2, OneRecordMoves DEF GloballyQuiet, RecordMove
<1>3. ASSUME NEW s \in Session, FinalizeStop(m, s)
      PROVE  GloballyQuiet
  <2>1. UNCHANGED <<age, admin, lock, rpc, backend>> /\ launch' \subseteq launch
    BY <1>3 DEF FinalizeStop
  <2>2. rec' = rec \/ (CanStop(rec[s]) /\ rec' = [rec EXCEPT ![s] = Stop(rec[s])])
    BY <1>3 DEF FinalizeStop
  <2> QED
    BY <2>1, <2>2, OneRecordMoves DEF GloballyQuiet, RecordMove
<1>4. ASSUME NEW s \in Session, DeleteRecord(m, s)
      PROVE  GloballyQuiet
  <2>1. UNCHANGED <<age, admin, lock, rpc, backend>> /\ launch' \subseteq launch
    BY <1>4 DEF DeleteRecord
  <2>2. rec' = rec \/ (CanDelete(rec[s]) /\ rec' = [rec EXCEPT ![s] = Absent])
    BY <1>4 DEF DeleteRecord
  <2> QED
    BY <2>1, <2>2, OneRecordMoves DEF GloballyQuiet, RecordMove
<1>5. CASE /\ UNCHANGED <<age, admin, lock, rpc, backend>> /\ launch' \subseteq launch
           /\ rec' = rec
  BY <1>5 DEF GloballyQuiet, RecordMove
<1>6. CASE ListStep(m)
  BY <1>1, <1>5, <1>6
     DEF ListStep, ReadDir, ReadRecord, CleanupLaunches, ListSockets, ListSocketsFails,
         ListReturns
<1>7. CASE StopStep(m)
  BY <1>2, <1>3, <1>5, <1>7
     DEF StopStep, SelectForStop, ProbeEnded, LegacyQuit, AwaitBackendExit, CheckSocket,
         QuitStopped, ConfirmStopped
<1>8. CASE PruneStep(m)
  BY <1>4, <1>5, <1>8 DEF PruneStep, SelectForPrune
<1> QED
  BY <1>6, <1>7, <1>8

LEMMA Quiet ==
    ASSUME TypeOK, NEW m \in Manager, ListStep(m) \/ StopStep(m) \/ PruneStep(m)
    PROVE  LocallyQuiet(m) /\ GloballyQuiet
BY TypeParts, ListQuiet, StopQuiet, PruneQuiet, QuietGlobally

-----------------------------------------------------------------------------
\* Admission: who has the admission lock, and what it protects.

\* The lock is held by whoever creates, uninstalls or finalizes.
HoldsLock(m) ==
    mgr[m].pc \in CreatingPC \cup {"admit"} \/ mgr[m].op \in {"uninstall", "finalize"}
LockInv == \A m \in Manager : HoldsLock(m) => lock = m

\* A creation past its admission runs with the configuration in force.
ConfigInv == \A m \in Manager : mgr[m].pc \in CreatingPC => config = mgr[m].cfg

\* Uninstall works on an installed program until it commits.
InstInv ==
    \A m \in Manager :
        /\ mgr[m].op = "uninstall" /\ mgr[m].pc # "finalize" => inst = "installed"
        /\ mgr[m].pc = "commit" => mgr[m].op = "uninstall"
        /\ mgr[m].pc = "finalize" => inst = "committed" /\ mgr[m].op \in {"uninstall", "finalize"}

AdmissionInv == LockInv /\ ConfigInv /\ InstInv

\* Nobody takes the lock from another manager.
NotStolen(m) == \A n \in Manager \ {m} : lock = n => lock' = n

\* A step of Create starts, takes the lock, is admitted, goes on or ends.
CreateShape(m) ==
    /\ mgr[m].pc \in CreatePC /\ Frame(m) /\ NotStolen(m) /\ UNCHANGED admin
    /\ \/ mgr'[m].pc = "idle" /\ mgr'[m].op = "list"
       \/ mgr[m].pc = "mint" /\ mgr'[m].pc = "acquire" /\ mgr'[m].op = mgr[m].op /\ lock' = lock
       \/ mgr'[m].pc = "admit" /\ mgr'[m].op = mgr[m].op /\ lock' = m
       \/ /\ mgr[m].pc = "admit" /\ config = mgr[m].cfg
          /\ mgr'[m].pc = "save" /\ mgr'[m].op = mgr[m].op /\ mgr'[m].cfg = mgr[m].cfg
          /\ lock' = lock
       \/ /\ mgr[m].pc \in CreatingPC /\ mgr'[m].pc \in CreatingPC
          /\ mgr'[m].op = mgr[m].op /\ mgr'[m].cfg = mgr[m].cfg /\ lock' = lock

LEMMA Released ==
    ASSUME NEW m \in Manager, lock' = lock \/ Release(m)
    PROVE  NotStolen(m)
BY DEF Release, Unlocked, NotStolen

LEMMA CreateShaped ==
    ASSUME MgrOK, NEW m \in Manager, CreateStep(m)
    PROVE  CreateShape(m)
<1> USE DEF At
<1>1. ASSUME NEW s \in Session, MintRecord(m, s)
      PROVE  CreateShape(m)
  <2> DEFINE x == [mgr[m] EXCEPT !.pc = "acquire", !.sel = {s}]
  <2>1. mgr' = [mgr EXCEPT ![m] = x] /\ UNCHANGED <<admin, lock>> /\ mgr[m].pc = "mint"
    BY <1>1 DEF MintRecord
  <2>2. x.pc = "acquire" /\ x.op = mgr[m].op
    BY DEF MgrOK, ManagerState
  <2> HIDE DEF x
  <2> QED
    BY <2>1, <2>2, BecomeFields, Released DEF CreateShape, CreatePC
<1>2. CASE MintFails(m) \/ ReleaseAdmission(m)
  BY <1>2, DoneFields, Released DEF MintFails, ReleaseAdmission, CreateShape, CreatePC
<1>3. CASE AcquireAdmission(m)
  BY <1>3, GotoFields, NoManagerAssumption DEF AcquireAdmission, CreateShape, CreatePC, NotStolen
<1>4. CASE AdmitCreate(m)
  BY <1>4, GotoFields, DoneFields, Released DEF AdmitCreate, CreateShape, CreatePC
<1>5. ASSUME NEW pc \in CreatingPC, mgr[m].pc \in CreatingPC,
             Goto(m, pc), UNCHANGED <<admin, lock>>
      PROVE  CreateShape(m)
  BY <1>5, GotoFields, Released DEF CreateShape, CreatingPC
<1>6. ASSUME mgr[m].pc \in CreatingPC, Done(m), Release(m), UNCHANGED admin
      PROVE  CreateShape(m)
  BY <1>6, DoneFields, Released DEF CreateShape, CreatingPC
<1>7. ASSUME NEW s \in Session, SaveRecord(m, s)
      PROVE  CreateShape(m)
  BY <1>5, <1>6, <1>7 DEF SaveRecord, CreatingPC, CreatePC
<1>8. ASSUME NEW s \in Session, SaveLaunch(m, s)
      PROVE  CreateShape(m)
  BY <1>5, <1>8 DEF SaveLaunch, CreatingPC, CreatePC
<1>9. ASSUME NEW s \in Session, ScreenStart(m, s)
      PROVE  CreateShape(m)
  BY <1>5, <1>9 DEF ScreenStart, CreatingPC, CreatePC
<1>10. ASSUME NEW s \in Session, StartSeen(m, s) \/ StartNotSeen(m, s)
       PROVE  CreateShape(m)
  BY <1>5, <1>10 DEF StartSeen, StartNotSeen, CreatingPC, CreatePC
<1>11. ASSUME NEW s \in Session, FailCreate(m, s)
       PROVE  CreateShape(m)
  <2> DEFINE next == IF rec[s].state = "running" THEN "release" ELSE "quit"
  <2>1. next \in CreatingPC /\ "quit" \in CreatingPC
    BY DEF CreatingPC, CreatePC
  <2>2. mgr[m].pc \in CreatingPC /\ UNCHANGED admin
    BY <1>11 DEF FailCreate, CreatingPC, CreatePC
  <2>3. \/ Done(m) /\ Release(m)
        \/ Goto(m, "quit") /\ UNCHANGED lock
        \/ Goto(m, next) /\ UNCHANGED lock
    BY <1>11 DEF FailCreate
  <2> HIDE DEF next
  <2> QED
    BY <1>5, <1>6, <2>1, <2>2, <2>3
<1>12. ASSUME NEW s \in Session, QuitFailedStart(m, s)
       PROVE  CreateShape(m)
  BY <1>6, <1>12 DEF QuitFailedStart, CreatingPC, CreatePC
<1> QED
  BY <1>1, <1>2, <1>3, <1>4, <1>7, <1>8, <1>9, <1>10, <1>11, <1>12 DEF CreateStep

\* Invoking a command needs the lock to be free, and takes it to uninstall.
InvokeShape(m) ==
    /\ mgr[m].pc = "idle" /\ Frame(m) /\ UNCHANGED admin
    /\ lock = NoManager
    /\ \/ mgr'[m].pc \in {"mint", "list"} /\ mgr'[m].op \in {"new", "list", "stop", "prune"}
          /\ lock' = lock
       \/ mgr'[m].pc = "list" /\ mgr'[m].op = "uninstall" /\ inst = "installed" /\ lock' = m
       \/ mgr'[m].pc = "finalize" /\ mgr'[m].op = "finalize" /\ inst = "committed" /\ lock' = m

LEMMA InvokeShaped ==
    ASSUME MgrOK, NEW m \in Manager, Invoke(m)
    PROVE  InvokeShape(m)
<1> USE DEF At
<1>1. ASSUME NEW op, StartCommand(m, op)
      PROVE  InvokeShape(m)
  <2> DEFINE next == IF op = "new" THEN "mint" ELSE "list"
             x == [IdleManager EXCEPT !.pc = next, !.op = op, !.cfg = config]
  <2>1. mgr' = [mgr EXCEPT ![m] = x] /\ UNCHANGED <<admin, lock>> /\ lock = NoManager
        /\ mgr[m].pc = "idle"
    BY <1>1 DEF StartCommand
  <2>2. x.pc \in {"mint", "list"} /\ x.op \in {"new", "list", "stop", "prune"}
    BY <1>1 DEF StartCommand, IdleManager
  <2> HIDE DEF x
  <2> QED
    BY <2>1, <2>2, BecomeFields DEF InvokeShape
<1>2. CASE StartUninstall(m)
  <2> DEFINE x == [IdleManager EXCEPT !.pc = "list", !.op = "uninstall"]
  <2>1. x.pc = "list" /\ x.op = "uninstall"
    BY DEF IdleManager
  <2>2. mgr' = [mgr EXCEPT ![m] = x]
    BY <1>2 DEF StartUninstall
  <2> HIDE DEF x
  <2> QED
    BY <1>2, <2>1, <2>2, BecomeFields DEF StartUninstall, InvokeShape
<1>3. CASE StartFinalize(m)
  <2> DEFINE x == [IdleManager EXCEPT !.pc = "finalize", !.op = "finalize"]
  <2>1. x.pc = "finalize" /\ x.op = "finalize"
    BY DEF IdleManager
  <2>2. mgr' = [mgr EXCEPT ![m] = x]
    BY <1>3 DEF StartFinalize
  <2> HIDE DEF x
  <2> QED
    BY <1>3, <2>1, <2>2, BecomeFields DEF StartFinalize, InvokeShape
<1> QED
  BY <1>1, <1>2, <1>3 DEF Invoke

LEMMA InitAdmission == Init => AdmissionInv
BY DEF Init, InitWith, AdmissionInv, LockInv, HoldsLock, ConfigInv, InstInv, IdleManager, CreatingPC, CreatePC

LEMMA ManagerAdmission ==
    ASSUME TypeOK, AdmissionInv, NEW m \in Manager, Invoke(m) \/ ManagerStep(m)
    PROVE  AdmissionInv'
<1> USE NoManagerAssumption DEF AdmissionInv, LockInv, HoldsLock, ConfigInv, InstInv, admin, Frame
<1>0. MgrOK
  BY TypeParts
<1>1. CASE CreateStep(m)
  <2>1. CreateShape(m)
    BY <1>0, <1>1, CreateShaped
  <2>2. "commit" \notin CreatePC /\ "finalize" \notin CreatePC /\ "idle" \notin CreatingPC
        /\ "acquire" \notin CreatingPC /\ "admit" \notin CreatingPC /\ CreatingPC \subseteq CreatePC
    BY DEF CreatePC, CreatingPC
  <2>3. "admit" # "commit" /\ "acquire" # "commit" /\ "save" \notin {"commit", "finalize"}
    OBVIOUS
  <2> QED
    BY <2>1, <2>2, <2>3 DEF CreateShape, NotStolen
<1>2. CASE ListStep(m) \/ StopStep(m) \/ PruneStep(m)
  <2>1. LocallyQuiet(m) /\ GloballyQuiet
    BY <1>2, Quiet
  <2>2. QuietPC \cap (CreatingPC \cup {"admit", "commit", "finalize"}) = {}
    BY DEF QuietPC, ListPC, StopPC, CreatingPC, CreatePC
  <2> QED
    BY <2>1, <2>2 DEF LocallyQuiet, GloballyQuiet
<1>3. CASE ProveInactive(m)
  <2>1. "listed" \notin CreatingPC \cup {"admit"} /\ "commit" \notin CreatingPC \cup {"admit"}
        /\ "idle" \notin CreatingPC \cup {"admit"}
    BY DEF CreatingPC, CreatePC
  <2>2. CASE Done(m)
    BY <1>0, <1>3, <2>1, <2>2, DoneFields, Released DEF ProveInactive, NotStolen
  <2>3. CASE Goto(m, "commit") /\ UNCHANGED lock
    BY <1>0, <1>3, <2>1, <2>3, GotoFields DEF ProveInactive, At
  <2> QED
    BY <1>3, <2>2, <2>3 DEF ProveInactive
<1>4. CASE CommitUninstall(m)
  <2>1. "finalize" \notin CreatingPC
    BY DEF CreatingPC, CreatePC
  <2> QED
    BY <1>0, <1>4, <2>1, GotoFields DEF CommitUninstall, At
<1>5. CASE FinalizeUninstall(m)
  <2>1. "idle" \notin CreatingPC
    BY DEF CreatingPC, CreatePC
  <2> QED
    BY <1>0, <1>5, <2>1, DoneFields, Released DEF FinalizeUninstall, At, NotStolen
<1>6. CASE Invoke(m)
  <2>1. InvokeShape(m)
    BY <1>0, <1>6, InvokeShaped
  <2>2. {"idle", "mint", "list", "finalize"} \cap (CreatingPC \cup {"admit"}) = {}
    BY DEF CreatingPC, CreatePC
  <2> QED
    BY <2>1, <2>2 DEF InvokeShape
<1> QED
  BY <1>1, <1>2, <1>3, <1>4, <1>5, <1>6 DEF ManagerStep, UninstallStep

LEMMA OtherAdmission ==
    ASSUME TypeOK, AdmissionInv, Environment \/ \E r \in Runner : RunnerStep(r)
    PROVE  AdmissionInv'
<1> USE NoManagerAssumption DEF AdmissionInv, LockInv, HoldsLock, ConfigInv, InstInv, admin
<1>0. MgrOK
  BY TypeParts
<1>1. CASE UNCHANGED <<config, inst, lock, mgr>>
  BY <1>1
<1>2. CASE Setup
  BY <1>2 DEF Setup
<1>3. ASSUME NEW m \in Manager, ManagerCrash(m)
      PROVE  AdmissionInv'
  <2>1. "idle" \notin CreatingPC \cup {"admit", "commit", "finalize"}
    BY DEF CreatingPC, CreatePC
  <2> QED
    BY <1>0, <1>3, <2>1, DoneFields, Released DEF ManagerCrash, Frame, NotStolen
<1>4. CASE Environment
  BY <1>1, <1>2, <1>3, <1>4
     DEF Environment, RunByHand, RunnerSignaled, BackendExits, RunnerCrash, ScreenDies, GraceEnds
<1>5. ASSUME NEW r \in Runner, RunnerStep(r)
      PROVE  AdmissionInv'
  BY <1>1, <1>5
     DEF RunnerStep, LoadRecord, ConsumeLaunch, PrepareFails, FailRunner, ClaimSession,
         StartBackend, MarkSessionStarted, StopRequested, Escalate, Reap, FinishSession
<1> QED
  BY <1>4, <1>5

LEMMA AdmissionInvariant == Spec => []AdmissionInv
<1>1. Init => AdmissionInv
  BY InitAdmission
<1>2. TypeOK /\ AdmissionInv /\ [Next]_vars => AdmissionInv'
  <2> SUFFICES ASSUME TypeOK, AdmissionInv, [Next]_vars PROVE AdmissionInv'
    OBVIOUS
  <2>1. CASE UNCHANGED vars
    BY <2>1 DEF vars, AdmissionInv, LockInv, HoldsLock, ConfigInv, InstInv
  <2> QED
    BY <2>1, ManagerAdmission, OtherAdmission DEF Next
<1> QED
  BY <1>1, <1>2, TypeCorrect, PTL DEF Spec

\* A creation past AdmitCreate is the only process with the admission lock and
\* runs with the configuration it loaded: setup and uninstall cannot get in
\* between the admission and the start of the backend, whoever crashes.
THEOREM CreationAdmitted == Spec => []AdmittedCreation
<1>1. AdmissionInv => AdmittedCreation
  BY DEF AdmissionInv, LockInv, HoldsLock, ConfigInv, AdmittedCreation
<1> QED
  BY <1>1, AdmissionInvariant, PTL

-----------------------------------------------------------------------------
\* The one use of a launch request: a session is unborn, minted by one manager,
\* requested, or held by the one runner that had its request.

\* The sessions a manager has minted and not yet published a request for.
Minted(m) ==
    IF mgr[m].pc \in {"acquire", "admit", "save", "saveLaunch"} THEN mgr[m].sel ELSE {}

\* The runners that have had the one request of their session.
Holds(r) == rpc[r] \in Holding \cup {"legacy"}
NoHolder(s) == \A r \in Runner : SessionOf[r] = s => ~Holds(r)
IsAbsent(s) == rec[s].state = "absent"

UnbornInv ==
    \A s \in Session : age[s] = "unborn" =>
        /\ IsAbsent(s) /\ s \notin launch /\ NoHolder(s)
        /\ \A m \in Manager : s \notin Minted(m)
MintedInv ==
    \A m \in Manager : \A s \in Minted(m) :
        /\ mgr[m].pc # "saveLaunch" => IsAbsent(s)
        /\ s \notin launch /\ NoHolder(s)
        /\ \A n \in Manager : s \in Minted(n) => n = m
RequestInv ==
    /\ \A s \in launch : NoHolder(s)
    /\ \A q, r \in Runner : SessionOf[q] = SessionOf[r] /\ Holds(q) /\ Holds(r) => q = r

OnceInv == UnbornInv /\ MintedInv /\ RequestInv

\* A step that mints, publishes and takes nothing.
CalmLaunches ==
    /\ \A s \in Session : age'[s] = "unborn" => age[s] = "unborn"
    /\ launch' \subseteq launch
    /\ \A s \in Session : IsAbsent(s) => IsAbsent(s)'
    /\ \A r \in Runner : Holds(r)' => Holds(r)
CalmMinting(m) ==
    /\ Minted(m)' \subseteq Minted(m)
    /\ Minted(m)' # {} /\ mgr'[m].pc # "saveLaunch" => mgr[m].pc # "saveLaunch"

LEMMA OnceCalm ==
    ASSUME TypeOK, OnceInv, CalmLaunches, \A n \in Manager : CalmMinting(n)
    PROVE  OnceInv'
<1>0. Session' = Session /\ Manager' = Manager /\ \A m \in Manager : Minted(m) \subseteq Session
  BY TypeParts DEF MgrOK, ManagerState, Minted
<1>1. \A s \in Session : NoHolder(s) => NoHolder(s)'
  BY DEF NoHolder, CalmLaunches
<1>2. UnbornInv'
  BY <1>1 DEF OnceInv, UnbornInv, CalmLaunches, CalmMinting
<1>3. MintedInv'
  BY <1>0, <1>1 DEF OnceInv, MintedInv, CalmLaunches, CalmMinting
<1>4. launch \subseteq Session
  BY TypeParts DEF RestOK
<1>5. RequestInv'
  BY <1>1, <1>4 DEF OnceInv, RequestInv, CalmLaunches
<1> QED
  BY <1>2, <1>3, <1>5 DEF OnceInv

LEMMA MoveKeepsAbsent ==
    ASSUME NEW d, NEW e, RecordMove(d, e), d.state = "absent"
    PROVE  e.state = "absent"
<1>1. SeenRunning(d) = d
  BY DEF SeenRunning, Runnable
<1>2. ~CanStop(d) /\ ~CanRequestStop(d) /\ ~CanDelete(d)
  BY DEF CanStop, CanRequestStop, CanDelete, Present, Active
<1> QED
  BY <1>1, <1>2 DEF RecordMove

LEMMA MintingFrame ==
    ASSUME NEW m \in Manager, Frame(m), CalmMinting(m)
    PROVE  \A n \in Manager : CalmMinting(n)
BY DEF Frame, CalmMinting, Minted

\* A step that ends with nothing minted.
LEMMA MintingOver ==
    ASSUME NEW m \in Manager, mgr'[m].pc \notin {"acquire", "admit", "save", "saveLaunch"}
    PROVE  CalmMinting(m)
BY DEF CalmMinting, Minted

LEMMA SameLaunches ==
    ASSUME \A s \in Session : age'[s] = "unborn" => age[s] = "unborn",
           launch' \subseteq launch,
           \A s \in Session : IsAbsent(s) => IsAbsent(s)',
           UNCHANGED rpc
    PROVE  CalmLaunches
BY DEF CalmLaunches, Holds

LEMMA InitOnce == Init => OnceInv
<1> SUFFICES ASSUME NEW old \in Legacy, InitWith(old) PROVE OnceInv
  BY DEF Init
<1>1. launch = {} /\ \A m \in Manager : Minted(m) = {}
  BY DEF InitWith, IdleManager, Minted
<1>2. \A r \in Runner : Holds(r) => r \in old
  BY DEF InitWith, Holds, Holding
<1>3. \A s \in Session : age[s] = "unborn" => s \notin SessionsOf(old)
  BY DEF InitWith
<1>4. \A s \in Session : s \notin SessionsOf(old) => IsAbsent(s)
  BY DEF InitWith, IsAbsent, Absent
<1>5. \A s \in Session : s \notin SessionsOf(old) => NoHolder(s)
  BY <1>2 DEF SessionsOf, NoHolder
<1>6. UnbornInv
  BY <1>1, <1>3, <1>4, <1>5 DEF UnbornInv
<1>7. MintedInv
  BY <1>1 DEF MintedInv
<1>8. RequestInv
  BY <1>1, <1>2, LegacyAssumption DEF RequestInv
<1> QED
  BY <1>6, <1>7, <1>8 DEF OnceInv

LEMMA CreateOnce ==
    ASSUME TypeOK, OnceInv, NEW m \in Manager, CreateStep(m)
    PROVE  OnceInv'
<1>0. MgrOK /\ StoreOK /\ RestOK /\ CreateShape(m) /\ Frame(m)
  BY TypeParts, CreateShaped DEF CreateShape
<1> USE <1>0 DEF At, store
<1>1. ASSUME CalmLaunches, CalmMinting(m)
      PROVE  OnceInv'
  BY <1>1, OnceCalm, MintingFrame
<1>2. ASSUME NEW s \in Session, MintRecord(m, s)
      PROVE  OnceInv'
  <2> DEFINE x == [mgr[m] EXCEPT !.pc = "acquire", !.sel = {s}]
  <2>1. mgr' = [mgr EXCEPT ![m] = x] /\ UNCHANGED <<rec, launch, rpc>> /\ age[s] = "unborn"
        /\ age' = [age EXCEPT ![s] = "fresh"]
    BY <1>2 DEF MintRecord
  <2>2. x.pc = "acquire" /\ x.sel = {s}
    BY DEF MgrOK, ManagerState
  <2> HIDE DEF x
  <2>3. mgr'[m] = x
    BY <2>1, BecomeFields
  <2>4. Minted(m)' = {s} /\ mgr'[m].pc = "acquire"
    BY <2>2, <2>3 DEF Minted
  <2>5. \A n \in Manager \ {m} : Minted(n)' = Minted(n) /\ mgr'[n] = mgr[n]
    BY DEF Frame, Minted
  <2>6. \A t \in Session : NoHolder(t)' = NoHolder(t)
    BY <2>1 DEF NoHolder, Holds
  <2>7. \A t \in Session : age'[t] = "unborn" => age[t] = "unborn" /\ t # s
    BY <2>1 DEF RestOK
  <2>8. IsAbsent(s) /\ s \notin launch /\ NoHolder(s) /\ \A n \in Manager : s \notin Minted(n)
    BY <2>1 DEF OnceInv, UnbornInv
  <2>9. UnbornInv'
    BY <2>1, <2>4, <2>5, <2>6, <2>7 DEF OnceInv, UnbornInv, IsAbsent
  <2>10. \A n \in Manager : Minted(n) \subseteq Session
    BY DEF MgrOK, ManagerState, Minted
  <2>11. MintedInv'
    BY <2>1, <2>4, <2>5, <2>6, <2>8, <2>10 DEF OnceInv, MintedInv, IsAbsent
  <2>12. RequestInv'
    BY <2>1 DEF OnceInv, RequestInv, NoHolder, Holds
  <2> QED
    BY <2>9, <2>11, <2>12 DEF OnceInv
<1>3. CASE MintFails(m) \/ ReleaseAdmission(m)
  <2>1. CalmLaunches
    BY <1>3, SameLaunches DEF MintFails, ReleaseAdmission, IsAbsent
  <2>2. mgr'[m].pc = "idle"
    BY <1>3, DoneFields DEF MintFails, ReleaseAdmission
  <2> QED
    BY <1>1, <2>1, <2>2, MintingOver
<1>4. CASE AcquireAdmission(m)
  <2>1. CalmLaunches
    BY <1>4, SameLaunches DEF AcquireAdmission, IsAbsent
  <2>2. mgr[m].pc = "acquire" /\ mgr'[m].pc = "admit" /\ mgr'[m].sel = mgr[m].sel
    BY <1>4, GotoFields DEF AcquireAdmission
  <2> QED
    BY <1>1, <2>1, <2>2 DEF CalmMinting, Minted
<1>5. CASE AdmitCreate(m)
  <2>1. CalmLaunches
    BY <1>5, SameLaunches DEF AdmitCreate, IsAbsent
  <2>2. CASE Done(m)
    BY <1>1, <2>1, <2>2, DoneFields, MintingOver
  <2>3. CASE Goto(m, "save")
    <3>1. mgr[m].pc = "admit" /\ mgr'[m].pc = "save" /\ mgr'[m].sel = mgr[m].sel
      BY <1>5, <2>3, GotoFields DEF AdmitCreate
    <3> QED
      BY <1>1, <2>1, <3>1 DEF CalmMinting, Minted
  <2> QED
    BY <1>5, <2>2, <2>3 DEF AdmitCreate
<1>6. ASSUME NEW s \in Session, SaveRecord(m, s)
      PROVE  OnceInv'
  <2>1. mgr[m].pc = "save" /\ s \in mgr[m].sel /\ UNCHANGED <<launch, age, rpc>>
        /\ rec' \in {rec, [rec EXCEPT ![s] = NewRecord]}
    BY <1>6 DEF SaveRecord
  <2>2. s \in Minted(m)
    BY <2>1 DEF Minted
  <2>3. \A t \in Session \ {s} : IsAbsent(t)' = IsAbsent(t)
    BY <2>1 DEF IsAbsent, StoreOK
  <2>4. \/ mgr'[m].pc = "idle"
        \/ mgr'[m].pc = "saveLaunch" /\ mgr'[m].sel = mgr[m].sel
    BY <1>6, GotoFields, DoneFields DEF SaveRecord
  <2>5. Minted(m)' \subseteq Minted(m) /\ (Minted(m)' # {} => mgr'[m].pc = "saveLaunch")
    BY <2>1, <2>4 DEF Minted
  <2>6. \A n \in Manager \ {m} : Minted(n)' = Minted(n) /\ mgr'[n] = mgr[n] /\ s \notin Minted(n)
    BY <2>2 DEF Frame, Minted, OnceInv, MintedInv
  <2>7. \A t \in Session : NoHolder(t)' = NoHolder(t)
    BY <2>1 DEF NoHolder, Holds
  <2>8. UnbornInv'
    BY <2>1, <2>2, <2>3, <2>5, <2>6, <2>7 DEF OnceInv, UnbornInv
  <2>9. \A n \in Manager : Minted(n) \subseteq Session
    BY DEF MgrOK, ManagerState, Minted
  <2>10. MintedInv'
    BY <2>1, <2>3, <2>5, <2>6, <2>7, <2>9 DEF OnceInv, MintedInv
  <2>11. RequestInv'
    BY <2>1 DEF OnceInv, RequestInv, NoHolder, Holds
  <2> QED
    BY <2>8, <2>10, <2>11 DEF OnceInv
<1>7. ASSUME NEW s \in Session, SaveLaunch(m, s)
      PROVE  OnceInv'
  <2>1. mgr[m].pc = "saveLaunch" /\ s \in mgr[m].sel /\ UNCHANGED <<rec, age, rpc>>
        /\ launch' \subseteq launch \cup {s}
    BY <1>7 DEF SaveLaunch
  <2>2. s \in Minted(m)
    BY <2>1 DEF Minted
  <2>3. mgr'[m].pc \in {"screenStart", "failPrepare"}
    BY <1>7, GotoFields DEF SaveLaunch
  <2>4. Minted(m)' = {}
    BY <2>3 DEF Minted
  <2>5. \A n \in Manager \ {m} : Minted(n)' = Minted(n) /\ mgr'[n] = mgr[n] /\ s \notin Minted(n)
    BY <2>2 DEF Frame, Minted, OnceInv, MintedInv
  <2>6. \A t \in Session : NoHolder(t)' = NoHolder(t) /\ IsAbsent(t)' = IsAbsent(t)
    BY <2>1 DEF NoHolder, Holds, IsAbsent
  <2>7. NoHolder(s)
    BY <2>2 DEF OnceInv, MintedInv
  <2>8. UnbornInv'
    BY <2>1, <2>2, <2>4, <2>5, <2>6 DEF OnceInv, UnbornInv
  <2>9. \A n \in Manager : Minted(n) \subseteq Session
    BY DEF MgrOK, ManagerState, Minted
  <2>10. MintedInv'
    BY <2>1, <2>4, <2>5, <2>6, <2>9 DEF OnceInv, MintedInv
  <2>11. RequestInv'
    BY <2>1, <2>7 DEF OnceInv, RequestInv, NoHolder, Holds
  <2> QED
    BY <2>8, <2>10, <2>11 DEF OnceInv
<1>8. ASSUME NEW s \in Session, ScreenStart(m, s)
      PROVE  OnceInv'
  <2>1. \A r \in Runner : rpc'[r] = rpc[r] \/ rpc'[r] = "load"
    BY <1>8 DEF ScreenStart, RestOK
  <2>2. CalmLaunches
    BY <1>8, <2>1 DEF ScreenStart, CalmLaunches, IsAbsent, Holds, Holding
  <2>3. mgr'[m].pc \in {"wait", "failStart"}
    BY <1>8, GotoFields DEF ScreenStart
  <2> QED
    BY <1>1, <2>2, <2>3, MintingOver
<1>9. ASSUME NEW s \in Session, StartSeen(m, s) \/ StartNotSeen(m, s)
      PROVE  OnceInv'
  <2>1. CalmLaunches
    BY <1>9, SameLaunches DEF StartSeen, StartNotSeen, IsAbsent
  <2>2. mgr'[m].pc \in {"release", "failWait"}
    BY <1>9, GotoFields DEF StartSeen, StartNotSeen
  <2> QED
    BY <1>1, <2>1, <2>2, MintingOver
<1>10. ASSUME NEW s \in Session, FailCreate(m, s)
       PROVE  OnceInv'
  <2>1. \A t \in Session : IsAbsent(t) => IsAbsent(t)'
    BY <1>10 DEF FailCreate, IsAbsent, FailLaunch, StoreOK
  <2>2. CalmLaunches
    BY <1>10, <2>1, SameLaunches DEF FailCreate
  <2> DEFINE next == IF rec[s].state = "running" THEN "release" ELSE "quit"
  <2>3. Done(m) \/ Goto(m, "quit") \/ Goto(m, next)
    BY <1>10 DEF FailCreate
  <2>4. mgr'[m].pc \in {"idle", "quit", "release"}
    BY <2>3, GotoFields, DoneFields
  <2> QED
    BY <1>1, <2>2, <2>4, MintingOver
<1>11. ASSUME NEW s \in Session, QuitFailedStart(m, s)
       PROVE  OnceInv'
  <2>1. CalmLaunches
    BY <1>11, SameLaunches DEF QuitFailedStart, IsAbsent
  <2>2. mgr'[m].pc = "idle"
    BY <1>11, DoneFields DEF QuitFailedStart
  <2> QED
    BY <1>1, <2>1, <2>2, MintingOver
<1> QED
  BY <1>2, <1>3, <1>4, <1>5, <1>6, <1>7, <1>8, <1>9, <1>10, <1>11 DEF CreateStep

LEMMA ManagerOnce ==
    ASSUME TypeOK, OnceInv, NEW m \in Manager, Invoke(m) \/ ManagerStep(m)
    PROVE  OnceInv'
<1>0. MgrOK /\ StoreOK /\ RestOK
  BY TypeParts
<1>1. ASSUME Frame(m), CalmLaunches, mgr'[m].pc \notin {"acquire", "admit", "save", "saveLaunch"}
      PROVE  OnceInv'
  BY <1>1, OnceCalm, MintingFrame, MintingOver
<1>2. CASE CreateStep(m)
  BY <1>2, CreateOnce
<1>3. CASE ListStep(m) \/ StopStep(m) \/ PruneStep(m)
  <2>1. LocallyQuiet(m) /\ GloballyQuiet
    BY <1>3, Quiet
  <2>2. QuietPC \cap {"acquire", "admit", "save", "saveLaunch"} = {}
    BY DEF QuietPC, ListPC, StopPC
  <2>3. \A s \in Session : IsAbsent(s) => IsAbsent(s)'
    BY <2>1, MoveKeepsAbsent DEF GloballyQuiet, IsAbsent
  <2>4. CalmLaunches
    BY <2>1, <2>3, SameLaunches DEF GloballyQuiet
  <2> QED
    BY <1>1, <2>1, <2>2, <2>4 DEF LocallyQuiet
<1>4. CASE UninstallStep(m)
  <2>1. \A s \in Session : IsAbsent(s) => IsAbsent(s)'
    BY <1>4 DEF UninstallStep, ProveInactive, CommitUninstall, FinalizeUninstall, store, IsAbsent, Absent
  <2>2. CalmLaunches
    BY <1>4, <2>1, SameLaunches
       DEF UninstallStep, ProveInactive, CommitUninstall, FinalizeUninstall, store
  <2>3. Frame(m) /\ mgr'[m].pc \in {"idle", "commit", "finalize"}
    BY <1>0, <1>4, GotoFields, DoneFields
       DEF UninstallStep, ProveInactive, CommitUninstall, FinalizeUninstall
  <2> QED
    BY <1>1, <2>2, <2>3
<1>5. CASE Invoke(m)
  <2>1. InvokeShape(m)
    BY <1>0, <1>5, InvokeShaped
  <2>2. CalmLaunches
    BY <1>5, SameLaunches DEF Invoke, StartCommand, StartUninstall, StartFinalize, store, IsAbsent
  <2> QED
    BY <1>1, <2>1, <2>2 DEF InvokeShape
<1> QED
  BY <1>2, <1>3, <1>4, <1>5 DEF ManagerStep

\* A runner's step on the record of its session.
RunnerMove(r, d, e) ==
    \/ e = d
    \/ rpc[r] \in {"failLaunch", "startFailed"} /\ e = FailLaunch(d)
    \/ rpc[r] = "claim" /\ CanClaimRunner(d) /\ e = ClaimRunner(d, r) /\ rpc'[r] = "spawn"
    \/ rpc[r] = "mark" /\ CanMarkStarted(d, r) /\ e = MarkStarted(d, r) /\ rpc'[r] = "watch"
    \/ rpc[r] = "finish" /\ Present(d) /\ e = Finish(d) /\ rpc'[r] = "exited"

LEMMA RunnerMoves ==
    ASSUME TypeOK, NEW r \in Runner, RunnerStep(r)
    PROVE  /\ RunnerMove(r, RecordOf(r), RecordOf(r)')
           /\ \A s \in Session \ {SessionOf[r]} : rec'[s] = rec[s]
           /\ \A q \in Runner \ {r} : rpc'[q] = rpc[q] /\ backend'[q] = backend[q]
<1>0. StoreOK /\ RestOK /\ SessionOf[r] \in Session
  BY TypeParts, SessionOfAssumption
<1>1. \/ rec' = rec
      \/ /\ rpc[r] \in {"failLaunch", "startFailed"}
         /\ rec' = [rec EXCEPT ![SessionOf[r]] = FailLaunch(RecordOf(r))]
      \/ /\ rpc[r] = "claim" /\ CanClaimRunner(RecordOf(r)) /\ RunnerGoto(r, "spawn")
         /\ rec' = [rec EXCEPT ![SessionOf[r]] = ClaimRunner(RecordOf(r), r)]
      \/ /\ rpc[r] = "mark" /\ CanMarkStarted(RecordOf(r), r) /\ RunnerGoto(r, "watch")
         /\ rec' = [rec EXCEPT ![SessionOf[r]] = MarkStarted(RecordOf(r), r)]
      \/ /\ rpc[r] = "finish" /\ Present(RecordOf(r)) /\ RunnerGoto(r, "exited")
         /\ rec' = [rec EXCEPT ![SessionOf[r]] = Finish(RecordOf(r))]
  BY DEF RunnerStep, LoadRecord, ConsumeLaunch, PrepareFails, FailRunner, ClaimSession,
         StartBackend, MarkSessionStarted, StopRequested, Escalate, Reap, FinishSession, store,
         RecordOf
<1>2. \E pc : RunnerGoto(r, pc)
  BY DEF RunnerStep, LoadRecord, ConsumeLaunch, PrepareFails, FailRunner, ClaimSession,
         StartBackend, MarkSessionStarted, StopRequested, Escalate, Reap, FinishSession
<1>3. backend' = backend \/ backend' = [backend EXCEPT ![r] = "alive"]
  BY DEF RunnerStep, LoadRecord, ConsumeLaunch, PrepareFails, FailRunner, ClaimSession,
         StartBackend, MarkSessionStarted, StopRequested, Escalate, Reap, FinishSession
<1>4. \A pc : RunnerGoto(r, pc) => rpc'[r] = pc
  BY <1>0 DEF RunnerGoto, RestOK
<1>5. RunnerMove(r, RecordOf(r), RecordOf(r)') /\ \A s \in Session \ {SessionOf[r]} : rec'[s] = rec[s]
  BY <1>0, <1>1, <1>4 DEF RunnerMove, RecordOf, StoreOK
<1>6. \A q \in Runner \ {r} : rpc'[q] = rpc[q] /\ backend'[q] = backend[q]
  BY <1>0, <1>2, <1>3 DEF RunnerGoto, RestOK
<1> QED
  BY <1>5, <1>6

LEMMA RunnerKeepsAbsent ==
    ASSUME TypeOK, NEW r \in Runner, RunnerStep(r)
    PROVE  \A s \in Session : IsAbsent(s) => IsAbsent(s)'
<1>1. ASSUME NEW d, NEW e, RunnerMove(r, d, e), d.state = "absent"
      PROVE  e.state = "absent"
  BY <1>1 DEF RunnerMove, FailLaunch, CanClaimRunner, Runnable, CanMarkStarted, Present
<1>2. SessionOf[r] \in Session
  BY SessionOfAssumption
<1> QED
  BY <1>1, <1>2, RunnerMoves DEF IsAbsent, RecordOf

LEMMA RunnerOnce ==
    ASSUME TypeOK, OnceInv, NEW r \in Runner, RunnerStep(r)
    PROVE  OnceInv'
<1>0. RestOK /\ SessionOf[r] \in Session
  BY TypeParts, SessionOfAssumption
<1>1. UNCHANGED <<age, mgr>> /\ launch' \subseteq launch
  BY DEF RunnerStep, LoadRecord, ConsumeLaunch, PrepareFails, FailRunner, ClaimSession,
         StartBackend, MarkSessionStarted, StopRequested, Escalate, Reap, FinishSession, store
<1>2. \A n \in Manager : CalmMinting(n)
  BY <1>1 DEF CalmMinting, Minted
<1>3. CASE ConsumeLaunch(r) /\ SessionOf[r] \in launch
  <2>1. NoHolder(SessionOf[r])
    BY <1>3 DEF OnceInv, RequestInv
  <2>2. launch' = launch \ {SessionOf[r]} /\ UNCHANGED rec
    BY <1>3 DEF ConsumeLaunch
  <2>3. \A q \in Runner \ {r} : Holds(q)' = Holds(q)
    BY RunnerMoves DEF Holds
  <2>4. \A s \in Session \ {SessionOf[r]} : NoHolder(s)' = NoHolder(s)
    BY <2>3 DEF NoHolder
  <2>5. age[SessionOf[r]] # "unborn" /\ \A n \in Manager : SessionOf[r] \notin Minted(n)
    BY <1>0, <1>3 DEF OnceInv, UnbornInv, MintedInv
  <2>6. \A n \in Manager : Minted(n)' = Minted(n) /\ Minted(n) \subseteq Session
    BY <1>1, TypeParts DEF Minted, MgrOK, ManagerState
  <2>7. UnbornInv'
    BY <1>1, <2>2, <2>4, <2>5, <2>6 DEF OnceInv, UnbornInv, IsAbsent
  <2>8. MintedInv'
    BY <1>1, <2>2, <2>4, <2>5, <2>6 DEF OnceInv, MintedInv, IsAbsent
  <2>9. RequestInv'
    BY <1>0, <2>1, <2>2, <2>3, <2>4 DEF OnceInv, RequestInv, NoHolder, RestOK
  <2> QED
    BY <2>7, <2>8, <2>9 DEF OnceInv
<1>4. CASE ~(ConsumeLaunch(r) /\ SessionOf[r] \in launch)
  <2>1. Holds(r)' => Holds(r)
    BY <1>0, <1>4
       DEF RunnerStep, LoadRecord, ConsumeLaunch, PrepareFails, FailRunner, ClaimSession,
           StartBackend, MarkSessionStarted, StopRequested, Escalate, Reap, FinishSession,
           RunnerGoto, Holds, Holding, RestOK
  <2>2. \A q \in Runner : Holds(q)' => Holds(q)
    BY <2>1, RunnerMoves DEF Holds
  <2>3. CalmLaunches
    BY <1>1, <2>2, RunnerKeepsAbsent DEF CalmLaunches
  <2> QED
    BY <1>2, <2>3, OnceCalm
<1> QED
  BY <1>3, <1>4

LEMMA EnvironmentOnce ==
    ASSUME TypeOK, OnceInv, Environment
    PROVE  OnceInv'
<1>0. MgrOK /\ RestOK
  BY TypeParts
<1>1. \A s \in Session : age'[s] = "unborn" => age[s] = "unborn"
  BY <1>0 DEF Environment, Setup, ManagerCrash, RunByHand, RunnerSignaled, BackendExits,
              RunnerCrash, ScreenDies, GraceEnds, RestOK
<1>2. \A r \in Runner : Holds(r)' => Holds(r)
  <2>1. ASSUME NEW q \in Runner,
               RunByHand(q) \/ RunnerSignaled(q) \/ BackendExits(q) \/ RunnerCrash(q)
        PROVE  \A r \in Runner : Holds(r)' => Holds(r)
    BY <1>0, <2>1 DEF RunByHand, RunnerSignaled, BackendExits, RunnerCrash, RunnerGoto,
                      Holds, Holding, RestOK
  <2>2. CASE UNCHANGED rpc
    BY <2>2 DEF Holds
  <2> QED
    BY <2>1, <2>2 DEF Environment, Setup, ManagerCrash, ScreenDies, GraceEnds
<1>3. CalmLaunches
  BY <1>1, <1>2, EnvironmentStore DEF CalmLaunches, IsAbsent, store
<1>4. ASSUME NEW m \in Manager, ManagerCrash(m)
      PROVE  \A n \in Manager : CalmMinting(n)
  BY <1>0, <1>4, DoneFields, MintingOver, MintingFrame DEF ManagerCrash
<1>5. ASSUME UNCHANGED mgr
      PROVE  \A n \in Manager : CalmMinting(n)
  BY <1>5 DEF CalmMinting, Minted
<1>6. \A n \in Manager : CalmMinting(n)
  BY <1>4, <1>5
     DEF Environment, Setup, RunByHand, RunnerSignaled, BackendExits, RunnerCrash, ScreenDies, GraceEnds
<1> QED
  BY <1>3, <1>6, OnceCalm

LEMMA OnceInvariant == Spec => []OnceInv
<1>1. Init => OnceInv
  BY InitOnce
<1>2. TypeOK /\ OnceInv /\ [Next]_vars => OnceInv'
  <2> SUFFICES ASSUME TypeOK, OnceInv, [Next]_vars PROVE OnceInv'
    OBVIOUS
  <2>1. CASE UNCHANGED vars
    <3>1. CalmLaunches /\ \A n \in Manager : CalmMinting(n)
      BY <2>1 DEF vars, CalmLaunches, CalmMinting, Minted, IsAbsent, Holds
    <3> QED
      BY <3>1, OnceCalm
  <2> QED
    BY <2>1, ManagerOnce, RunnerOnce, EnvironmentOnce DEF Next
<1> QED
  BY <1>1, <1>2, TypeCorrect, PTL DEF Spec

\* However many runners are started for a session, by Screen or by hand, at
\* most one of them gets past the launch request: its arguments and its
\* working directory start one backend at most.
THEOREM LaunchConsumedOnce == Spec => []LaunchUsedOnce
<1>1. OnceInv => LaunchUsedOnce
  BY DEF OnceInv, RequestInv, Holds, LaunchUsedOnce
<1> QED
  BY <1>1, OnceInvariant, PTL

-----------------------------------------------------------------------------
\* Ownership: from its claim to its acknowledgement, and as long as its child
\* lives, a runner is the one its session's record names.
Owning == {"spawn", "startFailed", "mark", "unmarked", "watch", "term",
           "killed", "finish", "legacy"}
Childless == {"idle", "load", "consume", "failLaunch", "claim", "spawn",
              "startFailed", "finish"}

Named(d, r) == d.runner = r /\ ExitUnconfirmed(d) /\ d.state \notin {"absent", "stopped"}
ClaimedBy(d) == d.proto = 1 => d.runner # NoRunner
Bound(r) == rpc[r] \in Owning \/ Live(r)

\* An uninstall that removes the user's state removes the records, too.
Purged == inst = "removed" /\ purge

ChildInv == \A r \in Runner : rpc[r] \in Childless => ~Live(r)
ProtocolInv == \A s \in Session : ClaimedBy(rec[s])
ClaimInv == ~Purged => \A r \in Runner : Bound(r) => Named(RecordOf(r), r)

OwnerInv == ChildInv /\ ProtocolInv /\ ClaimInv

LEMMA InitOwner == Init => OwnerInv
<1> SUFFICES ASSUME NEW old \in Legacy, InitWith(old) PROVE OwnerInv
  BY DEF Init
<1>1. PICK state \in {"running", "stopping"} :
         rec = [s \in Session |->
                  IF s \in SessionsOf(old)
                  THEN LegacyRecord(CHOOSE r \in old : SessionOf[r] = s, state)
                  ELSE Absent]
  BY DEF InitWith
<1>2. ChildInv
  BY DEF InitWith, ChildInv, Childless, Live
<1>3. \A s \in Session : rec[s].proto = 0
  BY <1>1 DEF LegacyRecord, Absent
<1>4. ASSUME NEW r \in Runner, Bound(r)
      PROVE  Named(RecordOf(r), r)
  <2>1. r \in old
    BY <1>4 DEF InitWith, Bound, Owning, Live
  <2>2. SessionOf[r] \in SessionsOf(old) /\ SessionOf[r] \in Session
    BY <2>1, SessionOfAssumption DEF SessionsOf
  <2>3. (CHOOSE q \in old : SessionOf[q] = SessionOf[r]) = r
    BY <2>1, LegacyAssumption
  <2>4. RecordOf(r) = LegacyRecord(r, state)
    BY <1>1, <2>2, <2>3 DEF RecordOf
  <2> QED
    BY <2>4, NoRunnerAssumption DEF Named, LegacyRecord, Absent, ExitUnconfirmed
<1> QED
  BY <1>2, <1>3, <1>4 DEF OwnerInv, ProtocolInv, ClaimInv, ClaimedBy

\* What the operations of others leave of a record that names a runner.
LEMMA MoveKeepsName ==
    ASSUME NEW d \in Record, NEW e, RecordMove(d, e), NEW r \in Runner, Named(d, r)
    PROVE  Named(e, r)
<1>1. ~CanStop(d) /\ ~CanDelete(d)
  BY DEF Named, CanStop, CanDelete
<1>2. ASSUME e = SeenRunning(d)
      PROVE  Named(e, r)
  BY <1>2 DEF Named, SeenRunning, Runnable, ExitUnconfirmed, Record
<1>3. ASSUME e = RequestStop(d)
      PROVE  Named(e, r)
  BY <1>3 DEF Named, RequestStop, ExitUnconfirmed, Record
<1> QED
  BY <1>1, <1>2, <1>3 DEF RecordMove

LEMMA FailKeepsName ==
    ASSUME NEW d \in Record, NEW r \in Runner, Named(d, r)
    PROVE  Named(FailLaunch(d), r)
BY DEF Named, FailLaunch, ExitUnconfirmed, Record

LEMMA MoveKeepsProtocol ==
    ASSUME NEW d \in Record, NEW e, RecordMove(d, e) \/ e = FailLaunch(d),
           ClaimedBy(d)
    PROVE  ClaimedBy(e)
BY DEF ClaimedBy, RecordMove, SeenRunning, Stop, RequestStop, FailLaunch, Absent, Record

\* A step that binds no runner and keeps every name.
KeepsNames ==
    /\ \A r \in Runner : Bound(r)' => Bound(r)
    /\ \A r \in Runner : rpc'[r] \in Childless /\ Live(r)' => rpc[r] \in Childless /\ Live(r)
    /\ \A s \in Session : ClaimedBy(rec[s]) => ClaimedBy(rec'[s])
    /\ Purged => Purged'
    /\ ~Purged' => \A r \in Runner : Bound(r) /\ Named(RecordOf(r), r) => Named(RecordOf(r)', r)

LEMMA OwnerKept == ASSUME OwnerInv, KeepsNames PROVE OwnerInv'
BY DEF OwnerInv, ChildInv, ProtocolInv, ClaimInv, KeepsNames

LEMMA SameRunners ==
    ASSUME UNCHANGED <<rpc, backend, inst, purge>>,
           \A s \in Session : /\ ClaimedBy(rec[s]) => ClaimedBy(rec'[s])
                              /\ \A r \in Runner : SessionOf[r] = s /\ Bound(r) /\ Named(rec[s], r)
                                                   => Named(rec'[s], r)
    PROVE  KeepsNames
<1>1. \A r \in Runner : SessionOf[r] \in Session
  BY SessionOfAssumption
<1> QED
  BY <1>1 DEF KeepsNames, Bound, Live, Purged, RecordOf

LEMMA CreateOwner ==
    ASSUME TypeOK, OnceInv, OwnerInv, NEW m \in Manager, CreateStep(m)
    PROVE  OwnerInv'
<1>0. StoreOK /\ RestOK /\ MgrOK
  BY TypeParts
<1> USE DEF store, admin, At
<1>1. CASE UNCHANGED <<rec, rpc, backend, inst, purge>>
  BY <1>1, SameRunners, OwnerKept
<1>2. ASSUME NEW s \in Session, SaveRecord(m, s)
      PROVE  OwnerInv'
  <2>1. UNCHANGED <<rpc, backend, inst, purge>> /\ rec' \in {rec, [rec EXCEPT ![s] = NewRecord]}
    BY <1>2 DEF SaveRecord
  <2>2. IsAbsent(s)
    BY <1>2 DEF SaveRecord, OnceInv, MintedInv, Minted
  <2>3. \A r \in Runner : ~Named(rec[s], r)
    BY <2>2 DEF IsAbsent, Named
  <2>4. NewRecord.proto = 0
    BY DEF NewRecord, Absent
  <2> QED
    BY <1>0, <2>1, <2>3, <2>4, SameRunners, OwnerKept DEF StoreOK, ClaimedBy
<1>3. ASSUME NEW s \in Session, FailCreate(m, s)
      PROVE  OwnerInv'
  <2>1. UNCHANGED <<rpc, backend, inst, purge>> /\ rec' = [rec EXCEPT ![s] = FailLaunch(rec[s])]
    BY <1>3 DEF FailCreate
  <2>2. \A t \in Session : rec[t] \in Record /\ rec'[t] \in {rec[t], FailLaunch(rec[t])}
    BY <1>0, <2>1 DEF StoreOK
  <2> QED
    BY <2>1, <2>2, FailKeepsName, MoveKeepsProtocol, SameRunners, OwnerKept
<1>4. ASSUME NEW s \in Session, ScreenStart(m, s)
      PROVE  OwnerInv'
  <2>1. UNCHANGED <<rec, backend, inst, purge>>
    BY <1>4 DEF ScreenStart
  <2>2. \A r \in Runner : rpc'[r] = rpc[r] \/ (rpc[r] = "idle" /\ rpc'[r] = "load")
    BY <1>0, <1>4 DEF ScreenStart, RestOK
  <2>3. KeepsNames
    BY <2>1, <2>2 DEF KeepsNames, Bound, Owning, Childless, Live, Purged, RecordOf
  <2> QED
    BY <2>3, OwnerKept
<1> QED
  BY <1>1, <1>2, <1>3, <1>4
     DEF CreateStep, MintRecord, MintFails, AcquireAdmission, AdmitCreate, SaveLaunch,
         StartSeen, StartNotSeen, QuitFailedStart, ReleaseAdmission

LEMMA ManagerOwner ==
    ASSUME TypeOK, AdmissionInv, OnceInv, OwnerInv, NEW m \in Manager, Invoke(m) \/ ManagerStep(m)
    PROVE  OwnerInv'
<1>0. StoreOK
  BY TypeParts
<1> USE DEF store, admin
<1>1. CASE CreateStep(m)
  BY <1>1, CreateOwner
<1>2. CASE ListStep(m) \/ StopStep(m) \/ PruneStep(m)
  <2>1. GloballyQuiet
    BY <1>2, Quiet
  <2>2. \A s \in Session : rec[s] \in Record /\ RecordMove(rec[s], rec'[s])
    BY <1>0, <2>1 DEF StoreOK, GloballyQuiet
  <2>3. UNCHANGED <<rpc, backend, inst, purge>>
    BY <2>1 DEF GloballyQuiet
  <2> QED
    BY <2>2, <2>3, MoveKeepsName, MoveKeepsProtocol, SameRunners, OwnerKept
<1>3. CASE ProveInactive(m) \/ Invoke(m)
  <2>1. UNCHANGED <<rec, rpc, backend, inst, purge>>
    BY <1>3 DEF ProveInactive, Invoke, StartCommand, StartUninstall, StartFinalize
  <2> QED
    BY <2>1, SameRunners, OwnerKept
<1>4. CASE CommitUninstall(m)
  <2>1. inst = "installed" /\ inst' = "committed" /\ UNCHANGED <<rec, rpc, backend>>
    BY <1>4 DEF CommitUninstall, At, AdmissionInv, InstInv
  <2>2. ~Purged
    BY <2>1 DEF Purged
  <2>3. KeepsNames
    BY <2>1, <2>2 DEF KeepsNames, Bound, Live, RecordOf
  <2> QED
    BY <2>3, OwnerKept
<1>5. CASE FinalizeUninstall(m)
  <2>1. inst' = "removed" /\ UNCHANGED <<purge, rpc, backend>>
        /\ (rec' = rec \/ (purge /\ rec' = [s \in Session |-> Absent]))
    BY <1>5 DEF FinalizeUninstall, store
  <2>2. (Purged => Purged') /\ (~Purged' => rec' = rec)
    BY <2>1 DEF Purged
  <2>3. \A s \in Session : ClaimedBy(rec[s]) => ClaimedBy(rec'[s])
    BY <2>1 DEF ClaimedBy, Absent
  <2>4. KeepsNames
    BY <2>1, <2>2, <2>3 DEF KeepsNames, Bound, Live, RecordOf
  <2> QED
    BY <2>4, OwnerKept
<1> QED
  BY <1>1, <1>2, <1>3, <1>4, <1>5 DEF ManagerStep, UninstallStep

LEMMA ClaimNames ==
    ASSUME NEW d \in Record, ValidRecord(d), ClaimedBy(d),
           NEW r \in Runner, CanClaimRunner(d)
    PROVE  Named(ClaimRunner(d, r), r) /\ ~d.exited /\ \A q \in Runner : ~Named(d, q)
BY NoRunnerAssumption
   DEF Record, ValidRecord, ClaimedBy, CanClaimRunner, ClaimRunner, Named, Runnable, ExitUnconfirmed

LEMMA MarkKeepsName ==
    ASSUME NEW d \in Record, NEW r \in Runner, Named(d, r)
    PROVE  Named(MarkStarted(d, r), r)
BY DEF Record, Named, MarkStarted, ExitUnconfirmed

LEMMA RunnerOwner ==
    ASSUME TypeOK, OwnerInv, NEW r \in Runner, RunnerStep(r)
    PROVE  OwnerInv'
<1> DEFINE s == SessionOf[r]
           d == rec[s]
           e == rec'[s]
<1>0. /\ StoreOK /\ RestOK /\ s \in Session
      /\ d \in Record /\ ValidRecord(d) /\ ClaimedBy(d)
  BY TypeParts, SessionOfAssumption DEF StoreOK, OwnerInv, ProtocolInv
<1>1. /\ RunnerMove(r, d, e)
      /\ \A t \in Session \ {s} : rec'[t] = rec[t]
      /\ \A q \in Runner \ {r} : rpc'[q] = rpc[q] /\ backend'[q] = backend[q]
  BY RunnerMoves DEF RecordOf
<1>2. UNCHANGED <<inst, purge>>
  BY DEF RunnerStep, LoadRecord, ConsumeLaunch, PrepareFails, FailRunner, ClaimSession,
         StartBackend, MarkSessionStarted, StopRequested, Escalate, Reap, FinishSession, admin
<1>3. /\ rpc'[r] \in Childless => ~Live(r)'
      /\ Bound(r)' => Bound(r) \/ (rpc[r] = "claim" /\ CanClaimRunner(d) /\ e = ClaimRunner(d, r))
      /\ rpc[r] = "finish" => ~Live(r)' /\ rpc'[r] = "exited"
  <2>1. rpc[r] \in Childless => ~Live(r)
    BY DEF OwnerInv, ChildInv
  <2>2. \A pc : RunnerGoto(r, pc) => rpc'[r] = pc
    BY <1>0 DEF RunnerGoto, RestOK
  <2> USE <2>1, <2>2 DEF Childless, Owning, Bound, Live
  <2>3. CASE StartBackend(r)
    <3>1. \/ backend'[r] = "alive" /\ rpc'[r] = "mark"
          \/ rpc'[r] = "startFailed" /\ backend' = backend
      BY <1>0, <2>3 DEF StartBackend, RestOK
    <3>2. rpc[r] = "spawn"
      BY <2>3 DEF StartBackend
    <3> QED
      BY <3>1, <3>2
  <2>4. CASE Reap(r)
    <3>1. backend'[r] = "dead" /\ rpc'[r] \in {"finish", "exited"}
          /\ rpc[r] \in {"watch", "term", "killed", "unmarked", "legacy"}
      BY <2>4 DEF Reap
    <3> QED
      BY <3>1
  <2>5. CASE LoadRecord(r) \/ ConsumeLaunch(r) \/ PrepareFails(r) \/ FailRunner(r)
    <3>1. /\ backend' = backend
          /\ \/ /\ rpc[r] \in {"load", "consume", "claim", "failLaunch"}
                /\ rpc'[r] \in {"consume", "claim", "failLaunch", "exited"}
             \/ rpc[r] = "startFailed" /\ rpc'[r] = "finish"
      BY <2>5 DEF LoadRecord, ConsumeLaunch, PrepareFails, FailRunner
    <3> QED
      BY <3>1
  <2>6. CASE ClaimSession(r)
    <3>1. /\ backend' = backend /\ rpc[r] = "claim"
          /\ \/ CanClaimRunner(d) /\ e = ClaimRunner(d, r) /\ rpc'[r] = "spawn"
             \/ rpc'[r] = "exited"
      BY <1>0, <2>6 DEF ClaimSession, RecordOf, StoreOK
    <3> QED
      BY <3>1
  <2>7. CASE MarkSessionStarted(r) \/ StopRequested(r) \/ Escalate(r) \/ FinishSession(r)
    <3>1. /\ backend' = backend
          /\ \/ rpc[r] = "mark" /\ rpc'[r] \in {"watch", "unmarked"}
             \/ rpc[r] = "watch" /\ rpc'[r] = "term"
             \/ rpc[r] = "term" /\ rpc'[r] = "killed"
             \/ rpc[r] = "finish" /\ rpc'[r] = "exited"
      BY <2>7 DEF MarkSessionStarted, StopRequested, Escalate, FinishSession
    <3> QED
      BY <3>1
  <2> QED
    BY <2>3, <2>4, <2>5, <2>6, <2>7 DEF RunnerStep
<1>4. ChildInv'
  BY <1>1, <1>3 DEF OwnerInv, ChildInv, Live
<1>5. ProtocolInv'
  <2>1. ClaimRunner(d, r).runner = r /\ MarkStarted(d, r).runner = r
    BY <1>0 DEF ClaimRunner, MarkStarted, Record
  <2>2. Finish(d).runner = d.runner /\ Finish(d).proto = d.proto
    BY <1>0 DEF Finish, FinishAcknowledged, FinishLegacy, Record
  <2>3. ClaimedBy(e)
    BY <1>0, <1>1, <2>1, <2>2, MoveKeepsProtocol, NoRunnerAssumption DEF RunnerMove, ClaimedBy
  <2> QED
    BY <1>1, <2>3 DEF OwnerInv, ProtocolInv
<1>6. ASSUME ~Purged', NEW q \in Runner, Bound(q)'
      PROVE  Named(RecordOf(q)', q)
  <2>1. ~Purged
    BY <1>2, <1>6 DEF Purged
  <2>2. \A p \in Runner : Bound(p) => Named(RecordOf(p), p)
    BY <2>1 DEF OwnerInv, ClaimInv
  <2>3. CASE SessionOf[q] # s
    <3>1. q # r /\ SessionOf[q] \in Session \ {s}
      BY <2>3, SessionOfAssumption
    <3>2. Bound(q)
      BY <1>1, <1>6, <3>1 DEF Bound, Live
    <3> QED
      BY <1>1, <2>2, <3>1, <3>2 DEF RecordOf
  <2>4. CASE SessionOf[q] = s
    <3>0. Bound(q) => Named(d, q)
      BY <2>2, <2>4 DEF RecordOf
    <3>1. q # r => Bound(q)
      BY <1>1, <1>6 DEF Bound, Live
    <3>2. CASE rpc[r] = "claim" /\ CanClaimRunner(d) /\ e = ClaimRunner(d, r)
      BY <1>0, <2>4, <3>0, <3>1, <3>2, ClaimNames DEF RecordOf
    <3>3. CASE ~(rpc[r] = "claim" /\ CanClaimRunner(d) /\ e = ClaimRunner(d, r))
      <4>1. Bound(q)
        BY <1>3, <1>6, <3>1, <3>3
      <4>2. Named(d, q)
        BY <3>0, <4>1
      <4>3. CASE rpc[r] \in {"mark", "finish"}
        <5>1. Named(d, r)
          BY <2>2, <4>3 DEF Bound, Owning, RecordOf
        <5>2. q = r
          BY <4>2, <5>1 DEF Named
        <5>3. rpc[r] # "finish"
          BY <1>3, <1>6, <5>2 DEF Bound, Owning
        <5>4. e = d \/ e = MarkStarted(d, r)
          BY <1>1, <4>3, <5>3 DEF RunnerMove
        <5> QED
          BY <1>0, <2>4, <4>2, <5>2, <5>4, MarkKeepsName DEF RecordOf
      <4>4. CASE rpc[r] \notin {"mark", "finish"}
        BY <1>0, <1>1, <2>4, <3>3, <4>2, <4>4, FailKeepsName DEF RunnerMove, RecordOf
      <4> QED
        BY <4>3, <4>4
    <3> QED
      BY <3>2, <3>3
  <2> QED
    BY <2>3, <2>4
<1> QED
  BY <1>4, <1>5, <1>6 DEF OwnerInv, ClaimInv

LEMMA EnvironmentOwner ==
    ASSUME TypeOK, OwnerInv, Environment
    PROVE  OwnerInv'
<1>0. RestOK
  BY TypeParts
<1>1. UNCHANGED <<rec, inst, purge>>
  BY DEF Environment, Setup, ManagerCrash, RunByHand, RunnerSignaled, BackendExits,
         RunnerCrash, ScreenDies, GraceEnds, store, admin
<1>2. CASE UNCHANGED <<rpc, backend>>
  BY <1>1, <1>2, SameRunners, OwnerKept
<1>3. ASSUME NEW q \in Runner,
             RunByHand(q) \/ RunnerSignaled(q) \/ BackendExits(q) \/ RunnerCrash(q)
      PROVE  OwnerInv'
  <2>1. \A r \in Runner : /\ Bound(r)' => Bound(r)
                          /\ rpc'[r] \in Childless /\ Live(r)' => rpc[r] \in Childless /\ Live(r)
    BY <1>0, <1>3 DEF RunByHand, RunnerSignaled, BackendExits, RunnerCrash, RunnerGoto, RestOK,
                      Bound, Owning, Childless, Live
  <2>2. KeepsNames
    BY <1>1, <2>1 DEF KeepsNames, Purged, RecordOf
  <2> QED
    BY <2>2, OwnerKept
<1> QED
  BY <1>2, <1>3 DEF Environment, Setup, ManagerCrash, ScreenDies, GraceEnds

LEMMA OwnerInvariant == Spec => []OwnerInv
<1>1. Init => OwnerInv
  BY InitOwner
<1>2. TypeOK /\ AdmissionInv /\ OnceInv /\ OwnerInv /\ [Next]_vars => OwnerInv'
  <2> SUFFICES ASSUME TypeOK, AdmissionInv, OnceInv, OwnerInv, [Next]_vars PROVE OwnerInv'
    OBVIOUS
  <2>1. CASE UNCHANGED vars
    BY <2>1, SameRunners, OwnerKept DEF vars
  <2> QED
    BY <2>1, ManagerOwner, RunnerOwner, EnvironmentOwner DEF Next
<1> QED
  BY <1>1, <1>2, TypeCorrect, AdmissionInvariant, OnceInvariant, PTL DEF Spec

\* Until an uninstall has purged the user's state a live backend is never
\* orphaned: whatever managers, other runners and crashes do, its record is
\* there, names its runner and says that its exit is not confirmed.
THEOREM BackendOwned == Spec => [](~Purged => NoOrphan)
<1>1. OwnerInv /\ ~Purged => NoOrphan
  BY DEF OwnerInv, ClaimInv, Bound, Named, NoOrphan
<1> QED
  BY <1>1, OwnerInvariant, PTL
-----------------------------------------------------------------------------
\* Uninstall and purge: what comes after them, and what an uninstall knows.
\* Creators never uninstall, and know a configuration; an uninstall lists first.
OpInv ==
    \A m \in Manager :
        /\ mgr[m].pc \in CreatePC => mgr[m].op # "uninstall" /\ mgr[m].cfg # NoConfig
        /\ mgr[m].op = "uninstall" => mgr[m].pc \in ListPC \cup {"commit", "finalize"}

PurgeInv ==
    /\ OpInv
    /\ inst # "installed" /\ purge => config = NoConfig
    /\ PurgeIsFinal

\* The sessions a manager has minted and not yet given to Screen.
Preparing(m) ==
    IF mgr[m].pc \in {"acquire", "admit", "save", "saveLaunch", "screenStart"}
    THEN mgr[m].sel ELSE {}
Untouched(s) == \A r \in Runner : SessionOf[r] = s => rpc[r] = "idle"

\* Without runners by hand every session has one runner at most.
SingleInv ==
    /\ \A s \in Session : age[s] = "unborn" =>
            Untouched(s) /\ \A m \in Manager : s \notin Preparing(m)
    /\ \A m \in Manager : \A s \in Preparing(m) :
          Untouched(s) /\ \A n \in Manager : s \in Preparing(n) => n = m
    /\ \A q, r \in Runner :
          SessionOf[q] = SessionOf[r] /\ rpc[q] # "idle" /\ rpc[r] # "idle" => q = r

\* No backend of s is alive and none will be, while the program is not used.
Over(s) ==
    \A r \in Runner : SessionOf[r] = s =>
        /\ ~Live(r) /\ rpc[r] # "spawn"
        /\ Runnable(rec[s]) => rpc[r] = "idle"

\* What the snapshot of an uninstall says of a session.
Known(m, s) ==
    LET d == mgr[m].snap[s] IN
    IF Active(d) THEN Active(rec[s]) \/ Over(s)
                 ELSE (Present(d) /\ ExitUnconfirmed(d)) \/ Over(s)
Checked(m, s) == Active(mgr[m].snap[s]) \/ Over(s)

ListingOf(m) ==
    LET d == mgr[m] IN
    /\ d.pc = "list" => \A s \in Session : d.snap[s] = Absent
    /\ d.pc = "read" /\ ~d.warn => \A s \in Session \ d.todo : Known(m, s)
    /\ d.pc \in {"cleanup", "sockets"} /\ ~d.warn => \A s \in Session : Known(m, s)
    /\ d.pc = "reconcile" /\ ~d.warn =>
          \A s \in Session : IF s \in d.todo THEN Known(m, s) ELSE Checked(m, s)
    /\ d.pc = "listed" /\ ~d.warn => \A s \in Session : Checked(m, s)
    /\ d.pc = "commit" => \A s \in Session : Over(s)
ListingInv == \A m \in Manager : mgr[m].op = "uninstall" => ListingOf(m)

EndedInv == inst # "installed" => \A s \in Session : Over(s)

\* A step of a listing stays in the listing or ends it.
LEMMA ListShaped ==
    ASSUME MgrOK, NEW m \in Manager, ListStep(m)
    PROVE  /\ Frame(m) /\ mgr[m].pc \in ListPC
           /\ \/ mgr'[m].pc \in ListPC /\ mgr'[m].op = mgr[m].op
              \/ mgr'[m].pc = "idle" /\ mgr'[m].op = "list"
<1> USE DEF At, ListPC
<1>1. ASSUME NEW s \in Session, ReadRecord(m, s) \/ Reconcile(m, s)
      PROVE  /\ Frame(m) /\ mgr[m].pc \in ListPC
             /\ mgr'[m].pc \in ListPC /\ mgr'[m].op = mgr[m].op
  <2>1. CASE ReadRecord(m, s)
    BY <2>1 DEF ReadRecord, MgrOK, ManagerState, Frame
  <2>2. CASE Reconcile(m, s)
    <3>1. CASE ReconcileUpdates(m, s)
      BY <2>2, <3>1 DEF Reconcile, ReconcileUpdates, Reconciled, MgrOK, ManagerState, Frame
    <3>2. CASE ReconcileStops(m, s)
      BY <2>2, <3>2 DEF Reconcile, ReconcileStops, Reconciled, MgrOK, ManagerState, Frame
    <3>3. CASE ReconcileLeaves(m, s)
      BY <2>2, <3>3 DEF Reconcile, ReconcileLeaves, Reconciled, MgrOK, ManagerState, Frame
    <3> QED
      BY <2>2, <3>1, <3>2, <3>3 DEF Reconcile
  <2> QED
    BY <1>1, <2>1, <2>2
<1>2. CASE ReadDir(m) \/ ListSockets(m) \/ ListSocketsFails(m)
  BY <1>2 DEF ReadDir, ListSockets, ListSocketsFails, MgrOK, ManagerState, Frame
<1>3. CASE CleanupLaunches(m)
  BY <1>3, GotoFields DEF CleanupLaunches
<1>4. CASE ListReturns(m)
  BY <1>4, DoneFields DEF ListReturns
<1> QED
  BY <1>1, <1>2, <1>3, <1>4 DEF ListStep

\* A creation keeps the configuration it was started with.
LEMMA CreateKeepsConfig ==
    ASSUME MgrOK, NEW m \in Manager, CreateStep(m)
    PROVE  mgr'[m].pc \in CreatePC => mgr'[m].cfg = mgr[m].cfg
<1>1. ASSUME NEW s \in Session, MintRecord(m, s)
      PROVE  mgr'[m].cfg = mgr[m].cfg
  BY <1>1 DEF MintRecord, MgrOK, ManagerState
<1>2. "idle" \notin CreatePC
  BY DEF CreatePC
<1>3. ASSUME (\E pc : Goto(m, pc)) \/ Done(m)
      PROVE  mgr'[m].pc \in CreatePC => mgr'[m].cfg = mgr[m].cfg
  BY <1>2, <1>3, GotoFields, DoneFields
<1> QED
  BY <1>1, <1>3
     DEF CreateStep, MintFails, AcquireAdmission, AdmitCreate, SaveRecord, SaveLaunch,
         ScreenStart, StartSeen, StartNotSeen, FailCreate, QuitFailedStart, ReleaseAdmission

LEMMA OpStep == TypeOK /\ AdmissionInv /\ OpInv /\ [Next]_vars => OpInv'
<1> SUFFICES ASSUME TypeOK, AdmissionInv, OpInv, [Next]_vars PROVE OpInv'
  OBVIOUS
<1> DEFINE Good(x) == /\ x.pc \in CreatePC => x.op # "uninstall" /\ x.cfg # NoConfig
                      /\ x.op = "uninstall" => x.pc \in ListPC \cup {"commit", "finalize"}
<1>0. MgrOK
  BY TypeParts
<1>a. "idle" \notin CreatePC /\ CreatePC \cap QuietPC = {} /\ CreatingPC \subseteq CreatePC
      /\ CreatePC \cap {"list", "commit", "finalize"} = {}
      /\ {"save", "admit", "acquire"} \subseteq CreatePC
      /\ ListPC \cap CreatePC = {}
  BY DEF CreatePC, CreatingPC, QuietPC, ListPC, StopPC
<1>1. ASSUME UNCHANGED mgr
      PROVE  OpInv'
  BY <1>1 DEF OpInv
<1>2. ASSUME NEW m \in Manager, Frame(m), Good(mgr'[m])
      PROVE  OpInv'
  BY <1>2 DEF OpInv, Frame
<1>3. ASSUME NEW m \in Manager, Done(m)
      PROVE  OpInv'
  BY <1>0, <1>2, <1>3, <1>a, DoneFields
<1>4. ASSUME NEW m \in Manager, CreateStep(m)
      PROVE  OpInv'
  BY <1>0, <1>2, <1>4, <1>a, CreateShaped, CreateKeepsConfig DEF CreateShape, OpInv
<1>5. ASSUME NEW m \in Manager, ListStep(m)
      PROVE  OpInv'
  BY <1>0, <1>2, <1>5, <1>a, ListShaped DEF OpInv
<1>6. ASSUME NEW m \in Manager, StopStep(m) \/ PruneStep(m)
      PROVE  OpInv'
  <2>1. LocallyQuiet(m)
    BY <1>6, Quiet
  <2>2. mgr[m].op # "uninstall"
    <3>1. mgr[m].pc \in StopPC \cup {"delete"} \/ mgr[m].op \in {"stop", "prune"}
      BY <1>6 DEF StopStep, PruneStep, SelectForStop, ProbeEnded, RequestStopOf, LegacyQuit,
                  AwaitBackendExit, CheckSocket, QuitStopped, ConfirmStopped, FinalizeStop,
                  SelectForPrune, DeleteRecord, At, StopPC
    <3> QED
      BY <3>1 DEF OpInv, ListPC, StopPC
  <2> QED
    BY <1>2, <1>a, <2>1, <2>2 DEF LocallyQuiet
<1>7. ASSUME NEW m \in Manager, UninstallStep(m)
      PROVE  OpInv'
  <2>1. CASE Done(m)
    BY <1>3, <2>1
  <2>2. CASE Goto(m, "commit") \/ Goto(m, "finalize")
    BY <1>0, <1>2, <1>a, <2>2, GotoFields
  <2> QED
    BY <1>7, <2>1, <2>2 DEF UninstallStep, ProveInactive, CommitUninstall, FinalizeUninstall
<1>8. ASSUME NEW m \in Manager, Invoke(m)
      PROVE  OpInv'
  <2>1. InvokeShape(m)
    BY <1>0, <1>8, InvokeShaped
  <2>2. mgr'[m].pc = "mint" => mgr'[m].cfg # NoConfig
    <3>1. ASSUME NEW op, StartCommand(m, op)
          PROVE  mgr'[m].cfg # NoConfig
      BY <1>0, <3>1 DEF StartCommand, IdleManager, MgrOK
    <3>2. StartUninstall(m) \/ StartFinalize(m) => mgr'[m].pc # "mint"
      BY <1>0 DEF StartUninstall, StartFinalize, IdleManager, MgrOK
    <3> QED
      BY <1>8, <3>1, <3>2 DEF Invoke
  <2>3. Good(mgr'[m])
    BY <1>a, <2>1, <2>2 DEF InvokeShape, ListPC
  <2> QED
    BY <1>2, <2>1, <2>3 DEF InvokeShape
<1>9. ASSUME NEW r \in Runner, RunnerStep(r)
      PROVE  OpInv'
  BY <1>1, <1>9
     DEF RunnerStep, LoadRecord, ConsumeLaunch, PrepareFails, FailRunner, ClaimSession,
         StartBackend, MarkSessionStarted, StopRequested, Escalate, Reap, FinishSession
<1>10. CASE Environment
  BY <1>1, <1>3, <1>10
     DEF Environment, Setup, ManagerCrash, RunByHand, RunnerSignaled, BackendExits, RunnerCrash,
         ScreenDies, GraceEnds
<1> QED
  BY <1>1, <1>4, <1>5, <1>6, <1>7, <1>8, <1>9, <1>10 DEF Next, ManagerStep, vars

LEMMA PurgeStep == TypeOK /\ AdmissionInv /\ PurgeInv /\ [Next]_vars => PurgeInv'
<1> SUFFICES ASSUME TypeOK, AdmissionInv, PurgeInv, [Next]_vars PROVE PurgeInv'
  OBVIOUS
<1>0. MgrOK /\ StoreOK /\ RestOK /\ OpInv
  BY TypeParts DEF PurgeInv
<1>1. OpInv'
  BY <1>0, OpStep
<1> DEFINE Rest == (inst # "installed" /\ purge => config = NoConfig) /\ PurgeIsFinal
\* A step that removes nothing and creates nothing.
<1>2. ASSUME UNCHANGED admin, launch' \subseteq launch, \A s \in Session : IsAbsent(s) => IsAbsent(s)'
      PROVE  Rest'
  BY <1>2 DEF PurgeInv, PurgeIsFinal, admin, IsAbsent, Present
\* Nobody creates after a purge.
<1>3. ASSUME NEW m \in Manager, mgr[m].pc \in CreatingPC, UNCHANGED admin
      PROVE  Rest'
  <2>1. config # NoConfig
    BY <1>0, <1>3 DEF AdmissionInv, ConfigInv, OpInv, CreatingPC
  <2>2. ~(inst # "installed" /\ purge)
    BY <2>1 DEF PurgeInv
  <2> QED
    BY <1>3, <2>2 DEF PurgeIsFinal, admin
<1>4. ASSUME NEW m \in Manager, CreateStep(m)
      PROVE  Rest'
  <2>1. CASE mgr[m].pc \in CreatingPC
    <3>1. UNCHANGED admin
      BY <1>0, <1>4, CreateShaped DEF CreateShape
    <3> QED
      BY <1>3, <2>1, <3>1
  <2>2. CASE mgr[m].pc \notin CreatingPC
    <3>1. UNCHANGED <<store, admin>>
      BY <1>4, <2>2
         DEF CreateStep, MintRecord, MintFails, AcquireAdmission, AdmitCreate, SaveRecord, SaveLaunch,
             ScreenStart, StartSeen, StartNotSeen, FailCreate, QuitFailedStart, ReleaseAdmission,
             CreatingPC, CreatePC, At, store, admin
    <3> QED
      BY <1>2, <3>1 DEF store, IsAbsent
  <2> QED
    BY <2>1, <2>2
<1>5. ASSUME NEW m \in Manager, ListStep(m) \/ StopStep(m) \/ PruneStep(m)
      PROVE  Rest'
  BY <1>2, <1>5, Quiet, MoveKeepsAbsent DEF GloballyQuiet, IsAbsent
<1>6. ASSUME NEW m \in Manager, ProveInactive(m) \/ Invoke(m)
      PROVE  Rest'
  BY <1>2, <1>6 DEF ProveInactive, Invoke, StartCommand, StartUninstall, StartFinalize, store, IsAbsent
<1>7. ASSUME NEW m \in Manager, CommitUninstall(m)
      PROVE  Rest'
  BY <1>7 DEF CommitUninstall, PurgeIsFinal
<1>8. ASSUME NEW m \in Manager, FinalizeUninstall(m)
      PROVE  Rest'
  <2>1. inst = "committed" /\ UNCHANGED <<config, purge>>
    BY <1>8 DEF FinalizeUninstall, At, AdmissionInv, InstInv
  <2>2. purge => launch' = {} /\ \A s \in Session : ~Present(rec'[s])
    BY <1>8 DEF FinalizeUninstall, Absent, Present
  <2> QED
    BY <2>1, <2>2 DEF PurgeInv, PurgeIsFinal
<1>9. ASSUME NEW r \in Runner, RunnerStep(r)
      PROVE  Rest'
  <2>1. UNCHANGED admin /\ launch' \subseteq launch
    BY <1>9
       DEF RunnerStep, LoadRecord, ConsumeLaunch, PrepareFails, FailRunner, ClaimSession,
           StartBackend, MarkSessionStarted, StopRequested, Escalate, Reap, FinishSession, store
  <2> QED
    BY <1>2, <1>9, <2>1, RunnerKeepsAbsent
<1>10. ASSUME Setup
       PROVE  Rest'
  BY <1>10 DEF Setup, PurgeInv, PurgeIsFinal, store
<1>11. ASSUME Environment
       PROVE  Rest'
  <2>1. CASE UNCHANGED <<store, admin>>
    BY <1>2, <2>1 DEF store, IsAbsent
  <2> QED
    BY <1>10, <1>11, <2>1
       DEF Environment, ManagerCrash, RunByHand, RunnerSignaled, BackendExits, RunnerCrash,
           ScreenDies, GraceEnds
<1>12. ASSUME UNCHANGED vars
       PROVE  Rest'
  BY <1>2, <1>12 DEF vars, admin, IsAbsent
<1>13. Rest'
  BY <1>4, <1>5, <1>6, <1>7, <1>8, <1>9, <1>11, <1>12 DEF Next, ManagerStep, UninstallStep
<1> QED
  BY <1>1, <1>13 DEF PurgeInv

LEMMA PurgeInvariance == Spec => []PurgeInv
<1>1. Init => PurgeInv
  BY DEF Init, InitWith, IdleManager, PurgeInv, OpInv, PurgeIsFinal, CreatePC
<1> QED
  BY <1>1, PurgeStep, TypeCorrect, AdmissionInvariant, PTL DEF Spec

\* After a purge there is no record and no launch request any more, and none
\* comes back: a creation that waited for the admission lock is refused because
\* its configuration is gone (AdmitCreate), a late runner writes no record that
\* is not there, and a crashed uninstall is finalized by the next.
THEOREM PurgedForGood == Spec => []PurgeIsFinal
<1>1. PurgeInv => PurgeIsFinal
  BY DEF PurgeInv
<1> QED
  BY <1>1, PurgeInvariance, PTL

-----------------------------------------------------------------------------
\* A step that starts no runner and prepares no session.
CalmStarts ==
    /\ \A s \in Session : age'[s] = "unborn" => age[s] = "unborn"
    /\ \A r \in Runner : rpc[r] = "idle" => rpc'[r] = "idle"
CalmPreparing(m) == Preparing(m)' \subseteq Preparing(m)

LEMMA SingleCalm ==
    ASSUME TypeOK, SingleInv, CalmStarts, \A n \in Manager : CalmPreparing(n)
    PROVE  SingleInv'
<1>0. /\ \A m \in Manager : Preparing(m) \subseteq Session
      /\ \A s : Untouched(s) => Untouched(s)'
  BY TypeParts DEF MgrOK, ManagerState, Preparing, CalmStarts, Untouched
<1> QED
  BY <1>0 DEF SingleInv, CalmStarts, CalmPreparing

LEMMA PreparingFrame ==
    ASSUME NEW m \in Manager, Frame(m), CalmPreparing(m)
    PROVE  \A n \in Manager : CalmPreparing(n)
BY DEF Frame, CalmPreparing, Preparing

LEMMA InitSingle == Init => SingleInv
<1> SUFFICES ASSUME NEW old \in Legacy, InitWith(old) PROVE SingleInv
  BY DEF Init
<1>1. \A m \in Manager : Preparing(m) = {}
  BY DEF InitWith, IdleManager, Preparing
<1>2. \A r \in Runner : rpc[r] # "idle" => r \in old
  BY DEF InitWith
<1>3. \A s \in Session : age[s] = "unborn" => Untouched(s)
  BY <1>2 DEF InitWith, SessionsOf, Untouched
<1> QED
  BY <1>1, <1>2, <1>3, LegacyAssumption DEF SingleInv

LEMMA CreateSingle ==
    ASSUME TypeOK, SingleInv, NEW m \in Manager, CreateStep(m)
    PROVE  SingleInv'
<1>0. MgrOK /\ RestOK /\ Frame(m)
  BY TypeParts, CreateShaped DEF CreateShape
<1> USE <1>0 DEF At
<1>1. ASSUME CalmStarts, CalmPreparing(m)
      PROVE  SingleInv'
  BY <1>1, SingleCalm, PreparingFrame
<1>2. ASSUME UNCHANGED <<age, rpc>>, mgr'[m].sel = mgr[m].sel \/ Preparing(m)' = {},
             mgr'[m].pc \in {"admit", "save", "saveLaunch", "screenStart"} =>
                 mgr[m].pc \in {"acquire", "admit", "save", "saveLaunch"},
             mgr'[m].pc # "acquire"
      PROVE  SingleInv'
  BY <1>1, <1>2 DEF CalmStarts, CalmPreparing, Preparing
<1>3. ASSUME UNCHANGED <<age, rpc>>, Done(m)
      PROVE  SingleInv'
  BY <1>2, <1>3, DoneFields DEF Preparing
<1>4. ASSUME NEW pc, UNCHANGED <<age, rpc>>, Goto(m, pc), pc # "acquire",
             pc \in {"admit", "save", "saveLaunch", "screenStart"} =>
                 mgr[m].pc \in {"acquire", "admit", "save", "saveLaunch"}
      PROVE  SingleInv'
  BY <1>2, <1>4, GotoFields
<1>5. ASSUME NEW s \in Session, MintRecord(m, s)
      PROVE  SingleInv'
  <2> DEFINE x == [mgr[m] EXCEPT !.pc = "acquire", !.sel = {s}]
  <2>1. mgr' = [mgr EXCEPT ![m] = x] /\ UNCHANGED rpc /\ age[s] = "unborn"
        /\ age' = [age EXCEPT ![s] = "fresh"]
    BY <1>5 DEF MintRecord
  <2>2. x.pc = "acquire" /\ x.sel = {s}
    BY DEF MgrOK, ManagerState
  <2> HIDE DEF x
  <2>3. Preparing(m)' = {s} /\ \A n \in Manager \ {m} : Preparing(n)' = Preparing(n)
    <3>1. mgr'[m] = x
      BY <2>1, BecomeFields
    <3>2. Preparing(m)' = {s}
      BY <2>2, <3>1 DEF Preparing
    <3> QED
      BY <3>2 DEF Preparing, Frame
  <2>4. \A t \in Session : age'[t] = "unborn" => age[t] = "unborn" /\ t # s
    BY <2>1 DEF RestOK
  <2>5. Untouched(s) /\ \A n \in Manager : s \notin Preparing(n)
    BY <2>1 DEF SingleInv
  <2>6. \A t : Untouched(t)' = Untouched(t)
    BY <2>1 DEF Untouched
  <2> QED
    BY <2>1, <2>3, <2>4, <2>5, <2>6 DEF SingleInv
<1>6. ASSUME NEW s \in Session, ScreenStart(m, s)
      PROVE  SingleInv'
  <2>1. s \in Preparing(m) /\ UNCHANGED age
    BY <1>6 DEF ScreenStart, Preparing
  <2>2. Untouched(s) /\ age[s] # "unborn" /\ \A n \in Manager \ {m} : s \notin Preparing(n)
    BY <2>1 DEF SingleInv
  <2>3. Preparing(m)' = {} /\ \A n \in Manager \ {m} : Preparing(n)' = Preparing(n)
    <3>1. mgr'[m].pc \in {"wait", "failStart"}
      BY <1>6, GotoFields DEF ScreenStart
    <3> QED
      BY <3>1 DEF Preparing, Frame
  <2>4. \/ UNCHANGED rpc
        \/ \E r \in Runner : SessionOf[r] = s /\ \A q \in Runner \ {r} : rpc'[q] = rpc[q]
    BY <1>6 DEF ScreenStart, RestOK
  <2>5. \A t \in Session \ {s} : Untouched(t) => Untouched(t)'
    BY <2>4 DEF Untouched
  <2>6. \A q, r \in Runner :
            SessionOf[q] = SessionOf[r] /\ rpc'[q] # "idle" /\ rpc'[r] # "idle" => q = r
    BY <2>2, <2>4 DEF SingleInv, Untouched
  <2>7. \A n \in Manager : Preparing(n) \subseteq Session
    BY DEF MgrOK, ManagerState, Preparing
  <2> QED
    BY <2>1, <2>2, <2>3, <2>5, <2>6, <2>7 DEF SingleInv
<1>7. CASE MintFails(m) \/ AcquireAdmission(m) \/ AdmitCreate(m) \/ ReleaseAdmission(m)
  BY <1>3, <1>4, <1>7 DEF MintFails, AcquireAdmission, AdmitCreate, ReleaseAdmission
<1>8. ASSUME NEW s \in Session, SaveRecord(m, s) \/ SaveLaunch(m, s) \/ QuitFailedStart(m, s)
      PROVE  SingleInv'
  BY <1>3, <1>4, <1>8 DEF SaveRecord, SaveLaunch, QuitFailedStart
<1>9. ASSUME NEW s \in Session, StartSeen(m, s) \/ StartNotSeen(m, s) \/ FailCreate(m, s)
      PROVE  SingleInv'
  <2>1. UNCHANGED <<age, rpc>> /\ (Done(m) \/ \E pc \in {"quit", "release", "failWait"} : Goto(m, pc))
    BY <1>9 DEF StartSeen, StartNotSeen, FailCreate
  <2> QED
    BY <1>3, <1>4, <2>1
<1> QED
  BY <1>5, <1>6, <1>7, <1>8, <1>9 DEF CreateStep

LEMMA SingleStep == ByHand = {} /\ TypeOK /\ SingleInv /\ [Next]_vars => SingleInv'
<1> SUFFICES ASSUME ByHand = {}, TypeOK, SingleInv, [Next]_vars PROVE SingleInv'
  OBVIOUS
<1>0. MgrOK /\ RestOK
  BY TypeParts
<1>1. ASSUME UNCHANGED <<age, mgr>>, \A r \in Runner : rpc[r] = "idle" => rpc'[r] = "idle"
      PROVE  SingleInv'
  BY <1>1, SingleCalm DEF CalmStarts, CalmPreparing, Preparing
<1>2. ASSUME NEW m \in Manager, UNCHANGED <<age, rpc>>, Frame(m),
             mgr'[m].pc \notin {"acquire", "admit", "save", "saveLaunch", "screenStart"}
      PROVE  SingleInv'
  <2>1. CalmStarts /\ CalmPreparing(m)
    BY <1>2 DEF CalmStarts, CalmPreparing, Preparing
  <2> QED
    BY <1>2, <2>1, SingleCalm, PreparingFrame
<1>3. ASSUME NEW m \in Manager, ListStep(m) \/ StopStep(m) \/ PruneStep(m)
      PROVE  SingleInv'
  BY <1>2, <1>3, Quiet DEF GloballyQuiet, LocallyQuiet, QuietPC, ListPC, StopPC
<1>4. ASSUME NEW m \in Manager, UninstallStep(m)
      PROVE  SingleInv'
  BY <1>0, <1>2, <1>4, GotoFields, DoneFields
     DEF UninstallStep, ProveInactive, CommitUninstall, FinalizeUninstall
<1>5. ASSUME NEW m \in Manager, Invoke(m)
      PROVE  SingleInv'
  <2>1. UNCHANGED <<age, rpc>>
    BY <1>5 DEF Invoke, StartCommand, StartUninstall, StartFinalize
  <2> QED
    BY <1>0, <1>2, <1>5, <2>1, InvokeShaped DEF InvokeShape
<1>6. ASSUME NEW r \in Runner, RunnerStep(r)
      PROVE  SingleInv'
  <2>1. rpc[r] # "idle" /\ UNCHANGED <<age, mgr>>
    BY <1>6
       DEF RunnerStep, LoadRecord, ConsumeLaunch, PrepareFails, FailRunner, ClaimSession,
           StartBackend, MarkSessionStarted, StopRequested, Escalate, Reap, FinishSession
  <2> QED
    BY <1>1, <1>6, <2>1, RunnerMoves
<1>7. ASSUME NEW r \in Runner, RunnerSignaled(r) \/ BackendExits(r) \/ RunnerCrash(r)
      PROVE  SingleInv'
  BY <1>0, <1>1, <1>7 DEF RunnerSignaled, BackendExits, RunnerCrash, RunnerGoto, RestOK
<1>8. ASSUME NEW m \in Manager, ManagerCrash(m)
      PROVE  SingleInv'
  BY <1>0, <1>2, <1>8, DoneFields DEF ManagerCrash
<1>9. ASSUME NEW s \in Session, GraceEnds(s)
      PROVE  SingleInv'
  <2>1. CalmStarts /\ \A n \in Manager : CalmPreparing(n)
    BY <1>0, <1>9 DEF GraceEnds, CalmStarts, CalmPreparing, Preparing, RestOK
  <2> QED
    BY <2>1, SingleCalm
<1>10. CASE Environment
  BY <1>1, <1>7, <1>8, <1>9, <1>10 DEF Environment, Setup, RunByHand, ScreenDies
<1>11. CASE UNCHANGED vars
  BY <1>1, <1>11 DEF vars
<1> QED
  BY <1>3, <1>4, <1>5, <1>6, <1>10, <1>11, CreateSingle DEF Next, ManagerStep

-----------------------------------------------------------------------------
\* A record that no operation makes runnable again.
LEMMA MoveNotRunnable ==
    ASSUME NEW d \in Record, NEW e, RecordMove(d, e) \/ e = FailLaunch(d) \/ e = Absent, Runnable(e)
    PROVE  Runnable(d)
BY DEF RecordMove, SeenRunning, Stop, RequestStop, FailLaunch, Absent, Runnable, Active, Record

LEMMA RunnerNotRunnable ==
    ASSUME NEW d \in Record, NEW e, NEW r \in Runner, RunnerMove(r, d, e), Runnable(e)
    PROVE  Runnable(d)
BY DEF RunnerMove, FailLaunch, CanClaimRunner, ClaimRunner, CanMarkStarted, MarkStarted, Finish,
       FinishAcknowledged, FinishLegacy, Runnable, Record

\* A session without a runnable record and an exit to wait for is over.
LEMMA EndedOver ==
    ASSUME OwnerInv, ~Purged, NEW s \in Session, ~Runnable(rec[s]),
           ~ExitUnconfirmed(rec[s]) \/ ~Present(rec[s])
    PROVE  Over(s)
<1>1. ASSUME NEW r \in Runner, SessionOf[r] = s
      PROVE  ~Bound(r)
  BY <1>1 DEF OwnerInv, ClaimInv, Named, RecordOf, Present
<1> QED
  BY <1>1 DEF Over, Bound, Owning

\* Whoever uninstalls has the lock, so that nobody creates.
LEMMA NobodyCreates ==
    ASSUME AdmissionInv, OpInv, NEW m \in Manager, mgr[m].op = "uninstall"
    PROVE  \A n \in Manager : mgr[n].pc \notin CreatingPC
BY DEF AdmissionInv, LockInv, HoldsLock, OpInv, CreatingPC

Secluded ==
    /\ ByHand = {} /\ TypeOK /\ AdmissionInv /\ OwnerInv /\ OpInv /\ SingleInv
    /\ inst # "installed" \/ \A n \in Manager : mgr[n].pc \notin CreatingPC

\* What is over stays over while no runner is started.
LEMMA OverKept ==
    ASSUME Secluded, [Next]_vars, NEW s \in Session, Over(s)
    PROVE  Over(s)'
<1>0. MgrOK /\ StoreOK /\ RestOK /\ rec[s] \in Record
  BY TypeParts DEF Secluded, StoreOK
<1>t. TypeOK /\ ByHand = {}
  BY DEF Secluded
<1>1. ASSUME UNCHANGED <<rpc, backend>>, Runnable(rec'[s]) => Runnable(rec[s])
      PROVE  Over(s)'
  BY <1>1 DEF Over, Live
<1>2. ASSUME NEW m \in Manager, NEW t \in Session, SaveRecord(m, t)
      PROVE  Over(s)'
  <2>1. UNCHANGED <<rpc, backend>> /\ Untouched(t) /\ \A u \in Session \ {t} : rec'[u] = rec[u]
    BY <1>0, <1>2 DEF SaveRecord, Secluded, SingleInv, Preparing, At, StoreOK
  <2>2. CASE s = t
    BY <2>1, <2>2 DEF Over, Live, Untouched
  <2>3. CASE s # t
    BY <1>1, <2>1, <2>3
  <2> QED
    BY <2>2, <2>3
<1>3. ASSUME NEW m \in Manager, NEW t \in Session, FailCreate(m, t)
      PROVE  Over(s)'
  <2>1. UNCHANGED <<rpc, backend>> /\ rec'[s] \in {rec[s], FailLaunch(rec[s])}
    BY <1>0, <1>3 DEF FailCreate, StoreOK
  <2> QED
    BY <1>0, <1>1, <2>1, MoveNotRunnable
<1>4. ASSUME NEW m \in Manager, NEW t \in Session, ScreenStart(m, t)
      PROVE  Over(s)'
  <2>1. inst # "installed"
    BY <1>4 DEF Secluded, ScreenStart, At, CreatingPC, CreatePC
  <2> QED
    BY <1>1, <1>4, <2>1 DEF ScreenStart, store
<1>5. ASSUME NEW m \in Manager, CreateStep(m)
      PROVE  Over(s)'
  <2>1. CASE UNCHANGED <<rec, rpc, backend>>
    BY <1>1, <2>1
  <2> QED
    BY <1>2, <1>3, <1>4, <1>5, <2>1
       DEF CreateStep, MintRecord, MintFails, AcquireAdmission, AdmitCreate, SaveLaunch,
           StartSeen, StartNotSeen, QuitFailedStart, ReleaseAdmission, store
<1>6. ASSUME NEW m \in Manager, ListStep(m) \/ StopStep(m) \/ PruneStep(m)
      PROVE  Over(s)'
  BY <1>0, <1>1, <1>6, <1>t, Quiet, MoveNotRunnable DEF GloballyQuiet
<1>7. ASSUME NEW m \in Manager, UninstallStep(m) \/ Invoke(m)
      PROVE  Over(s)'
  <2>1. UNCHANGED <<rpc, backend>> /\ rec'[s] \in {rec[s], Absent}
    BY <1>7 DEF UninstallStep, ProveInactive, CommitUninstall, FinalizeUninstall, Invoke,
                StartCommand, StartUninstall, StartFinalize, store
  <2> QED
    BY <1>0, <1>1, <2>1, MoveNotRunnable
<1>8. ASSUME NEW q \in Runner, RunnerStep(q)
      PROVE  Over(s)'
  <2>1. /\ RunnerMove(q, RecordOf(q), RecordOf(q)')
        /\ \A t \in Session \ {SessionOf[q]} : rec'[t] = rec[t]
        /\ \A r \in Runner \ {q} : rpc'[r] = rpc[r] /\ backend'[r] = backend[r]
    BY <1>8, <1>t, RunnerMoves
  <2>2. Runnable(rec'[s]) => Runnable(rec[s])
    BY <1>0, <2>1, RunnerNotRunnable DEF RecordOf
  <2>3. CASE SessionOf[q] = s
    <3>1. rpc[q] # "idle" /\ rpc[q] # "spawn" /\ ~Live(q) /\ ~Runnable(rec[s])
      BY <1>8, <2>3
         DEF Over, RunnerStep, LoadRecord, ConsumeLaunch, PrepareFails, FailRunner, ClaimSession,
             StartBackend, MarkSessionStarted, StopRequested, Escalate, Reap, FinishSession
    <3>2. ~StartBackend(q) /\ ~CanClaimRunner(RecordOf(q))
      BY <2>3, <3>1 DEF StartBackend, CanClaimRunner, RecordOf
    <3>3. rpc'[q] # "spawn" /\ UNCHANGED backend
      BY <1>0, <1>8, <3>2
         DEF RunnerStep, LoadRecord, ConsumeLaunch, PrepareFails, FailRunner, ClaimSession,
             MarkSessionStarted, StopRequested, Escalate, Reap, FinishSession, RunnerGoto, RestOK
    <3> QED
      BY <2>1, <2>2, <3>1, <3>3 DEF Over, Live
  <2>4. CASE SessionOf[q] # s
    BY <2>1, <2>2, <2>4 DEF Over, Live
  <2> QED
    BY <2>3, <2>4
<1>9. ASSUME NEW q \in Runner, RunnerSignaled(q) \/ BackendExits(q) \/ RunnerCrash(q)
      PROVE  Over(s)'
  <2>1. /\ UNCHANGED rec
        /\ \A r \in Runner : rpc'[r] \in {rpc[r], "term", "crashed"} /\ (rpc[r] = "idle" => rpc'[r] = "idle")
        /\ \A r \in Runner : Live(r)' => Live(r)
    BY <1>0, <1>9 DEF RunnerSignaled, BackendExits, RunnerCrash, RunnerGoto, RestOK, Live, store
  <2> QED
    BY <2>1 DEF Over
<1>10. ASSUME Environment
       PROVE  Over(s)'
  <2>1. CASE UNCHANGED <<rec, rpc, backend>>
    BY <1>1, <2>1
  <2> QED
    BY <1>9, <1>10, <1>t, <2>1
       DEF Environment, Setup, ManagerCrash, RunByHand, ScreenDies, GraceEnds, store
<1>11. ASSUME UNCHANGED vars
       PROVE  Over(s)'
  BY <1>1, <1>11 DEF vars
<1> QED
  BY <1>5, <1>6, <1>7, <1>8, <1>10, <1>11 DEF Next, ManagerStep, vars

-----------------------------------------------------------------------------
LEMMA StoppedOver ==
    ASSUME OwnerInv, ~Purged, NEW s \in Session, ~ExitUnconfirmed(rec[s]),
           UNCHANGED <<rpc, backend>>, ~Runnable(rec'[s])
    PROVE  Over(s)'
<1>1. ASSUME NEW r \in Runner, SessionOf[r] = s
      PROVE  ~Bound(r)
  BY <1>1 DEF OwnerInv, ClaimInv, Named, RecordOf
<1> QED
  BY <1>1 DEF Over, Bound, Owning, Live

\* An active record stays active, or its backend is over: the only runner of
\* the session has failed or finished, or a stop found the exit confirmed.
LEMMA ActiveKept ==
    ASSUME Secluded, [Next]_vars, inst = "installed", NEW s \in Session, Active(rec[s])
    PROVE  Active(rec'[s]) \/ Over(s)'
<1>0. /\ MgrOK /\ StoreOK /\ RestOK /\ rec[s] \in Record /\ TypeOK /\ OwnerInv /\ ~Purged
      /\ \A n \in Manager : mgr[n].pc \notin CreatingPC
  BY TypeParts DEF Secluded, StoreOK, Purged
<1>1. ASSUME rec'[s] = rec[s]
      PROVE  Active(rec'[s])
  BY <1>1
<1>2. ASSUME NEW m \in Manager, CreateStep(m)
      PROVE  rec'[s] = rec[s]
  BY <1>0, <1>2
     DEF CreateStep, MintRecord, MintFails, AcquireAdmission, AdmitCreate, SaveRecord, SaveLaunch,
         ScreenStart, StartSeen, StartNotSeen, FailCreate, QuitFailedStart, ReleaseAdmission,
         CreatingPC, CreatePC, At, store
<1>3. ASSUME NEW m \in Manager, ListStep(m) \/ StopStep(m) \/ PruneStep(m)
      PROVE  Active(rec'[s]) \/ Over(s)'
  <2>1. UNCHANGED <<rpc, backend>> /\ RecordMove(rec[s], rec'[s])
    BY <1>0, <1>3, Quiet DEF GloballyQuiet
  <2>2. CASE CanStop(rec[s]) /\ rec'[s] = Stop(rec[s])
    <3>1. ~Runnable(rec'[s]) /\ ~ExitUnconfirmed(rec[s])
      BY <1>0, <2>2 DEF CanStop, Stop, Runnable, Record
    <3> QED
      BY <1>0, <2>1, <3>1, StoppedOver
  <2>3. CASE ~(CanStop(rec[s]) /\ rec'[s] = Stop(rec[s]))
    BY <1>0, <2>1, <2>3 DEF RecordMove, SeenRunning, RequestStop, CanDelete, Active, Record
  <2> QED
    BY <2>2, <2>3
<1>4. ASSUME NEW m \in Manager, UninstallStep(m) \/ Invoke(m)
      PROVE  rec'[s] = rec[s]
  <2>1. ~FinalizeUninstall(m)
    BY <1>0 DEF FinalizeUninstall, At, Secluded, AdmissionInv, InstInv
  <2> QED
    BY <1>4, <2>1 DEF UninstallStep, ProveInactive, CommitUninstall, Invoke,
                      StartCommand, StartUninstall, StartFinalize, store
<1>5. ASSUME NEW q \in Runner, RunnerStep(q)
      PROVE  Active(rec'[s]) \/ Over(s)'
  <2>1. /\ RunnerMove(q, RecordOf(q), RecordOf(q)')
        /\ \A t \in Session \ {SessionOf[q]} : rec'[t] = rec[t]
        /\ \A r \in Runner \ {q} : rpc'[r] = rpc[r] /\ backend'[r] = backend[r]
    BY <1>0, <1>5, RunnerMoves
  <2>2. CASE rec'[s] # rec[s] /\ rpc[q] \in {"failLaunch", "startFailed", "finish"}
    <3>1. SessionOf[q] = s
      BY <2>1, <2>2
    <3>2. UNCHANGED backend /\ rpc'[q] \in {"exited", "finish"}
      BY <1>0, <1>5, <2>2
         DEF RunnerStep, LoadRecord, ConsumeLaunch, PrepareFails, FailRunner, ClaimSession,
             StartBackend, MarkSessionStarted, StopRequested, Escalate, Reap, FinishSession,
             RunnerGoto, RestOK
    <3>3. ASSUME NEW r \in Runner, SessionOf[r] = s, r # q
          PROVE  rpc'[r] = "idle" /\ ~Live(r)'
      <4>1. rpc[r] = "idle"
        BY <2>2, <3>1, <3>3 DEF Secluded, SingleInv
      <4> QED
        BY <1>0, <2>1, <3>3, <4>1 DEF OwnerInv, ChildInv, Childless, Live
    <3>4. ~Live(q)'
      BY <1>0, <2>2, <3>2 DEF OwnerInv, ChildInv, Childless, Live
    <3>5. ~Runnable(rec'[s]) => Over(s)'
      BY <3>2, <3>3, <3>4 DEF Over
    <3> QED
      BY <3>5 DEF Runnable, Active
  <2>3. CASE rec'[s] # rec[s] /\ rpc[q] \notin {"failLaunch", "startFailed", "finish"}
    <3>1. RunnerMove(q, rec[s], rec'[s])
      BY <2>1, <2>3 DEF RecordOf
    <3> QED
      BY <1>0, <2>3, <3>1 DEF RunnerMove, CanClaimRunner, ClaimRunner, MarkStarted, Runnable, Active, Record
  <2> QED
    BY <1>1, <2>2, <2>3
<1>6. ASSUME Environment
      PROVE  rec'[s] = rec[s]
  BY <1>6, EnvironmentStore DEF store
<1> QED
  BY <1>1, <1>2, <1>3, <1>4, <1>5, <1>6 DEF Next, ManagerStep, vars

\* What an uninstall knows stays true while others go on.
LEMMA KnownKept ==
    ASSUME Secluded, [Next]_vars, inst = "installed", NEW m \in Manager, NEW s \in Session,
           mgr'[m].snap[s] = mgr[m].snap[s]
    PROVE  (Known(m, s) => Known(m, s)') /\ (Checked(m, s) => Checked(m, s)')
BY ActiveKept, OverKept DEF Known, Checked

LEMMA OthersKeepListing ==
    ASSUME Secluded, [Next]_vars, NEW m \in Manager, mgr[m].op = "uninstall", ListingOf(m),
           mgr'[m] = mgr[m]
    PROVE  ListingOf(m)'
<1>1. mgr[m].pc # "finalize" => inst = "installed"
  BY DEF Secluded, AdmissionInv, InstInv
<1>2. CASE mgr[m].pc = "finalize"
  BY <1>2 DEF ListingOf
<1>3. CASE mgr[m].pc # "finalize"
  BY <1>1, <1>3, KnownKept, OverKept DEF ListingOf
<1> QED
  BY <1>2, <1>3

\* The reconciliation of a session warns, finds it active or knows it is over.
LEMMA ReconcileKnown ==
    ASSUME Secluded, [Next]_vars, inst = "installed", NEW m \in Manager, NEW s \in Session,
           Reconcile(m, s), Known(m, s)
    PROVE  mgr'[m].warn \/ Checked(m, s)'
<1>0. /\ MgrOK /\ StoreOK /\ rec[s] \in Record /\ mgr[m].snap[s] \in Record /\ OwnerInv /\ ~Purged
      /\ UNCHANGED <<rpc, backend>>
  BY TypeParts DEF Secluded, StoreOK, Purged, MgrOK, ManagerState, Reconcile
<1>1. ASSUME NEW kept \in Record, NEW w \in BOOLEAN, Reconciled(m, s, kept, w)
      PROVE  mgr'[m].snap[s] = kept /\ (w => mgr'[m].warn)
  BY <1>0, <1>1 DEF Reconciled, MgrOK, ManagerState
<1>2. Over(s) => Over(s)'
  BY OverKept
<1>3. CASE ReconcileUpdates(m, s)
  <2>1. CASE Present(rec[s])
    <3>1. rec'[s] = SeenRunning(rec[s]) /\ rec'[s] \in Record
      BY <1>0, <1>3 DEF ReconcileUpdates, StoreOK, SeenRunning, Record, State
    <3>2. mgr'[m].snap[s] = rec'[s]
      BY <1>1, <1>3, <2>1, <3>1 DEF ReconcileUpdates
    <3>3. Active(rec[s]) => Active(rec'[s])
      BY <1>0, <3>1 DEF SeenRunning, Active, Record
    <3>4. Active(rec[s]) \/ Over(s)
      BY <1>3 DEF ReconcileUpdates, Known, Runnable, Active
    <3> QED
      BY <1>2, <3>2, <3>3, <3>4 DEF Checked
  <2>2. CASE ~Present(rec[s])
    BY <1>0, <1>1, <1>3, <2>2 DEF ReconcileUpdates
  <2> QED
    BY <2>1, <2>2
<1>4. CASE ReconcileStops(m, s)
  <2>1. CASE CanStop(rec[s])
    <3>1. rec'[s] = Stop(rec[s]) /\ ~ExitUnconfirmed(rec[s])
      BY <1>0, <1>4, <2>1 DEF ReconcileStops, StoreOK, CanStop
    <3>2. ~Runnable(rec'[s])
      BY <1>0, <3>1 DEF Stop, Active, Runnable, Record
    <3> QED
      BY <1>0, <3>1, <3>2, StoppedOver DEF Checked
  <2>2. CASE ~CanStop(rec[s])
    BY <1>0, <1>1, <1>4, <2>2 DEF ReconcileStops
  <2> QED
    BY <2>1, <2>2
<1>5. CASE ReconcileLeaves(m, s)
  <2> DEFINE d == mgr[m].snap[s]
             w == IF s \in mgr[m].socks THEN ~Active(d) ELSE ExitUnconfirmed(d)
  <2>1. w \in BOOLEAN /\ Reconciled(m, s, d, w)
    BY <1>5 DEF ReconcileLeaves, Active, ExitUnconfirmed
  <2>2. mgr'[m].snap[s] = d /\ (w => mgr'[m].warn)
    BY <1>0, <1>1, <2>1
  <2>3. Active(d) \/ ExitUnconfirmed(d) \/ Over(s)
    BY DEF Known
  <2>4. s \notin mgr[m].socks => Active(d) \/ w \/ Over(s)
    BY <2>3
  <2>5. s \in mgr[m].socks => Active(d) \/ w
    OBVIOUS
  <2> HIDE DEF w
  <2> QED
    BY <1>2, <2>2, <2>4, <2>5 DEF Checked
<1> QED
  BY <1>3, <1>4, <1>5 DEF Reconcile

\* What each step of a listing adds to what the uninstall knows.
LEMMA ListKnows ==
    ASSUME Secluded, [Next]_vars, NEW m \in Manager, mgr[m].op = "uninstall", ListingOf(m),
           ListStep(m)
    PROVE  mgr'[m].op = "uninstall" => ListingOf(m)'
<1>0. /\ MgrOK /\ StoreOK /\ OwnerInv /\ mgr[m] \in ManagerState
      /\ mgr[m].pc \in ListPC
  BY TypeParts, ListShaped DEF Secluded, MgrOK
<1>i. inst = "installed" /\ ~Purged
  BY <1>0 DEF Secluded, AdmissionInv, InstInv, ListPC, Purged
<1> USE DEF At
<1>1. CASE ReadDir(m)
  <2>1. /\ mgr[m].pc = "list" /\ UNCHANGED <<rec, rpc, backend>>
        /\ mgr'[m].pc \in {"read", "cleanup"} /\ mgr'[m].snap = mgr[m].snap
        /\ \A s \in Session : (s \notin mgr'[m].todo \/ mgr'[m].pc = "cleanup") => ~Present(rec[s])
    BY <1>0, <1>1 DEF ReadDir, store, MgrOK, ManagerState
  <2>2. \A s \in Session : ~Present(rec[s]) => Over(s) /\ Over(s)'
    <3>1. \A s \in Session : ~Present(rec[s]) => ~Runnable(rec[s])
      BY DEF Present, Runnable
    <3>2. \A s \in Session : ~Present(rec[s]) => Over(s)
      BY <1>0, <1>i, <3>1, EndedOver
    <3> QED
      BY <3>2, OverKept
  <2>3. \A s \in Session : mgr'[m].snap[s] = Absent
    BY <2>1 DEF ListingOf
  <2>4. ~Active(Absent)
    BY DEF Active, Absent
  <2> QED
    BY <2>1, <2>2, <2>3, <2>4 DEF ListingOf, Known
<1>2. ASSUME NEW s \in Session, ReadRecord(m, s)
      PROVE  ListingOf(m)'
  <2>1. /\ mgr[m].pc = "read" /\ UNCHANGED <<rec, rpc, backend>>
        /\ mgr'[m].snap[s] = rec[s] /\ mgr'[m].todo = mgr[m].todo \ {s}
        /\ \A t \in Session \ {s} : mgr'[m].snap[t] = mgr[m].snap[t]
        /\ mgr'[m].warn = (mgr[m].warn \/ ~Present(rec[s]))
        /\ mgr'[m].pc = IF mgr[m].todo = {s} THEN "cleanup" ELSE "read"
    BY <1>0, <1>2 DEF ReadRecord, store, MgrOK, ManagerState
  <2>2. Known(m, s)' \/ mgr'[m].warn
    <3>1. CASE Active(rec[s])
      BY <2>1, <3>1 DEF Known
    <3>2. CASE ~Active(rec[s]) /\ ~ExitUnconfirmed(rec[s])
      <4>1. Over(s)'
        BY <1>0, <1>i, <3>2, EndedOver, OverKept DEF Active, Runnable
      <4> QED
        BY <2>1, <3>2, <4>1 DEF Known
    <3>3. CASE ~Active(rec[s]) /\ ExitUnconfirmed(rec[s])
      BY <1>0, <2>1, <3>3 DEF Known, ManagerState
    <3> QED
      BY <3>1, <3>2, <3>3
  <2>3. ASSUME NEW t \in Session \ mgr[m].todo, t # s, ~mgr[m].warn
        PROVE  Known(m, t)'
    BY <1>i, <2>1, <2>3, KnownKept DEF ListingOf
  <2>4. ASSUME ~mgr'[m].warn, NEW t \in Session, t \notin mgr'[m].todo
        PROVE  Known(m, t)'
    BY <2>1, <2>2, <2>3, <2>4
  <2>5. mgr'[m].pc = "cleanup" => \A t \in Session : t \notin mgr'[m].todo
    BY <2>1
  <2> QED
    BY <2>1, <2>4, <2>5 DEF ListingOf
<1>3. CASE CleanupLaunches(m)
  <2>1. /\ mgr[m].pc = "cleanup" /\ mgr'[m].pc = "sockets"
        /\ mgr'[m].snap = mgr[m].snap /\ mgr'[m].warn = mgr[m].warn
    BY <1>0, <1>3 DEF CleanupLaunches, Goto, MgrOK, ManagerState
  <2> QED
    BY <1>i, <2>1, KnownKept DEF ListingOf
<1>4. CASE ListSockets(m)
  <2>1. /\ mgr[m].pc = "sockets" /\ mgr'[m].pc \in {"listed", "reconcile"}
        /\ mgr'[m].snap = mgr[m].snap /\ mgr'[m].warn = mgr[m].warn
        /\ mgr'[m].todo = InSnapshot(m)
        /\ mgr'[m].pc = "listed" => InSnapshot(m) = {}
    BY <1>0, <1>4 DEF ListSockets, MgrOK, ManagerState
  <2>2. ~mgr[m].warn => \A s \in Session : Known(m, s)'
    BY <1>i, <2>1, KnownKept DEF ListingOf
  <2>3. \A s \in Session : s \notin InSnapshot(m) =>
            ~Active(mgr[m].snap[s]) /\ ~Present(mgr[m].snap[s])
    BY DEF InSnapshot, Present, Active
  <2>4. \A s \in Session : s \notin InSnapshot(m) /\ Known(m, s)' => Checked(m, s)'
    BY <2>1, <2>3 DEF Known, Checked
  <2> QED
    BY <2>1, <2>2, <2>4 DEF ListingOf
<1>5. CASE ListSocketsFails(m)
  BY <1>0, <1>5 DEF ListSocketsFails, ListingOf, MgrOK, ManagerState
<1>6. ASSUME NEW s \in Session, Reconcile(m, s)
      PROVE  ListingOf(m)'
  <2>1. /\ mgr[m].pc = "reconcile" /\ s \in mgr[m].todo
        /\ \E kept, w : Reconciled(m, s, kept, w)
    BY <1>6 DEF Reconcile, ReconcileUpdates, ReconcileStops, ReconcileLeaves
  <2>2. /\ mgr'[m].todo = mgr[m].todo \ {s} /\ (mgr[m].warn => mgr'[m].warn)
        /\ \A t \in Session \ {s} : mgr'[m].snap[t] = mgr[m].snap[t]
        /\ mgr'[m].pc = IF mgr[m].todo = {s} THEN "listed" ELSE "reconcile"
    BY <1>0, <2>1 DEF Reconciled, MgrOK, ManagerState
  <2>3. ~mgr[m].warn => Known(m, s)
    BY <2>1 DEF ListingOf
  <2>4. mgr'[m].warn \/ Checked(m, s)'
    BY <1>6, <1>i, <2>2, <2>3, ReconcileKnown
  <2>5. ASSUME ~mgr'[m].warn, NEW t \in Session, t # s
        PROVE  IF t \in mgr'[m].todo THEN Known(m, t)' ELSE Checked(m, t)'
    BY <1>i, <2>1, <2>2, <2>5, KnownKept DEF ListingOf
  <2>6. mgr'[m].pc = "listed" => mgr'[m].todo = {}
    BY <2>2
  <2> QED
    BY <2>2, <2>4, <2>5, <2>6 DEF ListingOf
<1>7. ListReturns(m) => FALSE
  BY DEF ListReturns
<1> QED
  BY <1>1, <1>2, <1>3, <1>4, <1>5, <1>6, <1>7 DEF ListStep

KnownInv == OpInv /\ SingleInv /\ ListingInv /\ EndedInv

\* Only a listing, its verdict and the start of another are uninstall's steps.
LEMMA UninstallShaped ==
    ASSUME TypeOK, OpInv, NEW m \in Manager, Invoke(m) \/ ManagerStep(m),
           mgr'[m].op = "uninstall"
    PROVE  \/ mgr[m].op = "uninstall" /\ (ListStep(m) \/ UninstallStep(m))
           \/ StartUninstall(m)
<1>0. MgrOK
  BY TypeParts
<1>1. CASE CreateStep(m)
  <2>1. CreateShape(m) /\ CreatingPC \subseteq CreatePC /\ {"mint", "admit"} \subseteq CreatePC
    BY <1>0, <1>1, CreateShaped DEF CreatingPC, CreatePC
  <2> QED
    BY <2>1 DEF CreateShape, OpInv
<1>2. CASE StopStep(m) \/ PruneStep(m)
  <2>1. mgr[m].op = "uninstall"
    BY <1>2, Quiet DEF LocallyQuiet
  <2>2. mgr[m].pc \in StopPC \cup {"delete"} \/ mgr[m].op \in {"stop", "prune"}
    BY <1>2 DEF StopStep, PruneStep, SelectForStop, ProbeEnded, RequestStopOf, LegacyQuit,
                AwaitBackendExit, CheckSocket, QuitStopped, ConfirmStopped, FinalizeStop,
                SelectForPrune, DeleteRecord, At, StopPC
  <2> QED
    BY <2>1, <2>2 DEF OpInv, ListPC, StopPC
<1>3. CASE ListStep(m)
  BY <1>0, <1>3, ListShaped
<1>4. CASE UninstallStep(m)
  BY <1>0, <1>4, GotoFields, DoneFields
     DEF UninstallStep, ProveInactive, CommitUninstall, FinalizeUninstall
<1>5. CASE Invoke(m)
  <2>1. ASSUME NEW op, StartCommand(m, op)
        PROVE  mgr'[m].op # "uninstall"
    BY <1>0, <2>1 DEF StartCommand, IdleManager, MgrOK
  <2>2. ~StartFinalize(m)
    BY <1>0 DEF StartFinalize, IdleManager, MgrOK
  <2> QED
    BY <1>5, <2>1, <2>2 DEF Invoke
<1> QED
  BY <1>1, <1>2, <1>3, <1>4, <1>5 DEF ManagerStep

LEMMA KnownStep ==
    /\ ByHand = {} /\ TypeOK /\ AdmissionInv /\ OwnerInv /\ KnownInv /\ [Next]_vars
    => KnownInv'
<1> SUFFICES ASSUME ByHand = {}, TypeOK, AdmissionInv, OwnerInv, KnownInv, [Next]_vars
             PROVE  KnownInv'
  OBVIOUS
<1>0. MgrOK /\ OpInv /\ SingleInv /\ ListingInv /\ EndedInv
  BY TypeParts DEF KnownInv
<1>1. OpInv' /\ SingleInv'
  BY <1>0, OpStep, SingleStep
<1>2. ASSUME NEW m \in Manager, mgr[m].op = "uninstall"
      PROVE  Secluded /\ ListingOf(m)
  BY <1>0, <1>2, NobodyCreates DEF Secluded, ListingInv
<1>3. ASSUME NEW m \in Manager, mgr'[m].op = "uninstall"
      PROVE  ListingOf(m)'
  <2>1. CASE mgr'[m] = mgr[m]
    BY <1>2, <1>3, <2>1, OthersKeepListing
  <2>2. CASE StartUninstall(m)
    <3>1. mgr'[m].pc = "list" /\ mgr'[m].snap = [s \in Session |-> Absent]
      BY <1>0, <2>2 DEF StartUninstall, IdleManager, MgrOK
    <3> QED
      BY <3>1 DEF ListingOf
  <2>3. CASE mgr[m].op = "uninstall" /\ ListStep(m)
    BY <1>2, <1>3, <2>3, ListKnows
  <2>4. CASE mgr[m].op = "uninstall" /\ ProveInactive(m)
    <3>1. /\ mgr[m].pc = "listed" /\ mgr'[m].pc = "commit"
          /\ ~mgr[m].warn /\ \A s \in Session : ~Active(mgr[m].snap[s])
      BY <1>0, <1>3, <2>4, GotoFields, DoneFields DEF ProveInactive, At
    <3>2. \A s \in Session : Over(s)
      BY <1>2, <2>4, <3>1 DEF ListingOf, Checked
    <3>3. \A s \in Session : Over(s)'
      BY <1>2, <2>4, <3>2, OverKept
    <3> QED
      BY <3>1, <3>3 DEF ListingOf
  <2>5. CASE CommitUninstall(m)
    <3>1. mgr'[m].pc = "finalize"
      BY <1>0, <2>5, GotoFields DEF CommitUninstall
    <3> QED
      BY <3>1 DEF ListingOf
  <2>6. ~FinalizeUninstall(m)
    BY <1>0, <1>3, DoneFields DEF FinalizeUninstall
  <2>7. ASSUME NEW n \in Manager, Invoke(n) \/ ManagerStep(n), mgr'[m] # mgr[m]
        PROVE  n = m
    <3>1. Frame(n)
      <4>1. CreateStep(n) => Frame(n)
        BY <1>0, CreateShaped DEF CreateShape
      <4>2. ListStep(n) \/ StopStep(n) \/ PruneStep(n) => Frame(n)
        BY Quiet DEF LocallyQuiet
      <4>3. UninstallStep(n) => Frame(n)
        BY <1>0, GotoFields, DoneFields
           DEF UninstallStep, ProveInactive, CommitUninstall, FinalizeUninstall
      <4>4. Invoke(n) => Frame(n)
        BY <1>0, InvokeShaped DEF InvokeShape
      <4> QED
        BY <2>7, <4>1, <4>2, <4>3, <4>4 DEF ManagerStep
    <3> QED
      BY <2>7, <3>1 DEF Frame
  <2>8. ASSUME NEW n \in Manager, Invoke(n) \/ ManagerStep(n)
        PROVE  ListingOf(m)'
    BY <1>0, <1>3, <2>1, <2>2, <2>3, <2>4, <2>5, <2>6, <2>7, <2>8, UninstallShaped DEF UninstallStep
  <2>9. ASSUME NEW r \in Runner, RunnerStep(r)
        PROVE  UNCHANGED mgr
    BY <2>9
       DEF RunnerStep, LoadRecord, ConsumeLaunch, PrepareFails, FailRunner, ClaimSession,
           StartBackend, MarkSessionStarted, StopRequested, Escalate, Reap, FinishSession
  <2>10. ASSUME Environment
         PROVE  mgr'[m] = mgr[m]
    <3>1. ASSUME NEW n \in Manager, ManagerCrash(n)
          PROVE  mgr'[m] = mgr[m]
      BY <1>0, <1>3, <3>1, DoneFields DEF ManagerCrash, Frame
    <3> QED
      BY <2>10, <3>1
         DEF Environment, Setup, RunByHand, RunnerSignaled, BackendExits, RunnerCrash,
             ScreenDies, GraceEnds
  <2> QED
    BY <2>1, <2>8, <2>9, <2>10 DEF Next, vars
<1>4. EndedInv'
  <2>1. CASE inst # "installed"
    <3>1. Secluded
      BY <1>0, <2>1 DEF Secluded
    <3> QED
      BY <1>0, <2>1, <3>1, OverKept DEF EndedInv
  <2>2. ASSUME NEW m \in Manager, CommitUninstall(m)
        PROVE  EndedInv'
    <3>1. mgr[m].pc = "commit" /\ mgr[m].op = "uninstall"
      BY <2>2 DEF CommitUninstall, At, AdmissionInv, InstInv
    <3>2. Secluded /\ \A s \in Session : Over(s)
      BY <1>2, <3>1 DEF ListingOf
    <3> QED
      BY <3>2, OverKept DEF EndedInv
  <2>3. ASSUME NEW m \in Manager, FinalizeUninstall(m)
        PROVE  inst # "installed"
    BY <2>3 DEF FinalizeUninstall, At, AdmissionInv, InstInv
  <2>4. CASE inst' = inst /\ inst = "installed"
    BY <2>4 DEF EndedInv
  <2>5. ASSUME NEW m \in Manager, Invoke(m) \/ ManagerStep(m), ~CommitUninstall(m), ~FinalizeUninstall(m)
        PROVE  inst' = inst
    <3>1. CreateStep(m) => inst' = inst
      BY <1>0, CreateShaped DEF CreateShape, admin
    <3>2. ListStep(m) \/ StopStep(m) \/ PruneStep(m) => inst' = inst
      BY Quiet DEF GloballyQuiet, admin
    <3> QED
      BY <2>5, <3>1, <3>2
         DEF ManagerStep, UninstallStep, ProveInactive, Invoke, StartCommand, StartUninstall,
             StartFinalize, admin
  <2>6. ASSUME Environment \/ \E r \in Runner : RunnerStep(r)
        PROVE  inst' = inst
    BY <2>6
       DEF Environment, Setup, ManagerCrash, RunByHand, RunnerSignaled, BackendExits, RunnerCrash,
           ScreenDies, GraceEnds, RunnerStep, LoadRecord, ConsumeLaunch, PrepareFails, FailRunner,
           ClaimSession, StartBackend, MarkSessionStarted, StopRequested, Escalate, Reap,
           FinishSession, admin
  <2> QED
    BY <2>1, <2>2, <2>3, <2>4, <2>5, <2>6 DEF Next, vars
<1> QED
  BY <1>0, <1>1, <1>3, <1>4 DEF KnownInv, ListingInv

LEMMA KnownInvariant == ByHand = {} => (Spec => []KnownInv)
<1> SUFFICES ASSUME ByHand = {} PROVE Spec => []KnownInv
  OBVIOUS
<1>1. Init => KnownInv
  <2> SUFFICES ASSUME Init PROVE KnownInv
    OBVIOUS
  <2>1. OpInv /\ ListingInv /\ EndedInv
    BY DEF Init, InitWith, IdleManager, OpInv, ListingInv, EndedInv, CreatePC
  <2> QED
    BY <2>1, InitSingle DEF KnownInv
<1> QED
  BY <1>1, KnownStep, TypeCorrect, AdmissionInvariant, OwnerInvariant, PTL DEF Spec

\* Once an uninstall has committed no backend is alive and none will be, if
\* nobody repeats a runner's hidden command by hand: what the listing saw of a
\* session under the admission lock cannot come back (ReadDir, reconcile,
\* proveInactive), whatever stops, prunes, runners and crashes do meanwhile.
THEOREM NothingOutlivesUninstall == ByHand = {} => (Spec => []UninstallEndsBackends)
<1> SUFFICES ASSUME ByHand = {} PROVE Spec => []UninstallEndsBackends
  OBVIOUS
<1>1. KnownInv => UninstallEndsBackends
  BY SessionOfAssumption DEF KnownInv, EndedInv, Over, UninstallEndsBackends
<1>2. Spec => []KnownInv
  BY KnownInvariant
<1> QED
  BY <1>1, <1>2, PTL
-----------------------------------------------------------------------------
\* What one step does: a record goes forward, a backend starts, a stop ends.
Forward(d, e) ==
    Present(d) => Rank(d) <= Rank(e) /\ (d.exited /\ Present(e) => e.exited)

LEMMA SameForward == ASSUME NEW d \in Record PROVE Forward(d, d)
BY DEF Forward, Rank, Record, State

LEMMA MoveForward ==
    ASSUME NEW d \in Record, NEW e, RecordMove(d, e)
    PROVE  Forward(d, e)
<1>1. CASE e = SeenRunning(d)
  BY <1>1 DEF SeenRunning, Runnable, Forward, Rank, Record, State
<1>2. CASE e = Stop(d)
  BY <1>2 DEF Stop, Active, Forward, Rank, Record, State, Present
<1>3. CASE CanRequestStop(d) /\ e = RequestStop(d)
  BY <1>3 DEF CanRequestStop, RequestStop, Active, Forward, Rank, Record, State, Present
<1>4. CASE e = Absent
  BY <1>4 DEF Absent, Forward, Rank, Record, State, Present
<1> QED
  BY <1>1, <1>2, <1>3, <1>4, SameForward DEF RecordMove

LEMMA FailForward == ASSUME NEW d \in Record PROVE Forward(d, FailLaunch(d))
BY DEF FailLaunch, Forward, Rank, Record, State, Present

LEMMA RunnerForward ==
    ASSUME NEW r \in Runner, NEW d \in Record, NEW e, RunnerMove(r, d, e)
    PROVE  Forward(d, e)
<1>1. CASE e = ClaimRunner(d, r)
  BY <1>1 DEF ClaimRunner, Forward, Rank, Record, State, Present
<1>2. CASE CanMarkStarted(d, r) /\ e = MarkStarted(d, r)
  BY <1>2 DEF CanMarkStarted, MarkStarted, Forward, Rank, Record, State, Present
<1>3. CASE e = FinishAcknowledged(d)
  BY <1>3 DEF FinishAcknowledged, Runnable, Forward, Rank, Record, State, Present
<1>4. CASE e = FinishLegacy(d)
  BY <1>4 DEF FinishLegacy, Forward, Rank, Record, State, Present
<1> QED
  BY <1>1, <1>2, <1>3, <1>4, SameForward, FailForward DEF RunnerMove, Finish

LEMMA CreateForward ==
    ASSUME TypeOK, OnceInv, NEW m \in Manager, CreateStep(m), NEW t \in Session
    PROVE  Forward(rec[t], rec'[t])
<1>0. StoreOK /\ rec[t] \in Record
  BY TypeParts DEF StoreOK
<1>1. CASE rec' = rec
  BY <1>0, <1>1, SameForward
<1>2. ASSUME NEW s \in Session, SaveRecord(m, s)
      PROVE  Forward(rec[t], rec'[t])
  <2>1. IsAbsent(s)
    BY <1>2 DEF SaveRecord, At, OnceInv, MintedInv, Minted
  <2>2. rec'[t] = rec[t] \/ ~Present(rec[t])
    BY <1>0, <1>2, <2>1 DEF SaveRecord, StoreOK, IsAbsent, Present
  <2> QED
    BY <1>0, <2>2, SameForward DEF Forward
<1>3. ASSUME NEW s \in Session, FailCreate(m, s)
      PROVE  Forward(rec[t], rec'[t])
  <2>1. rec'[t] \in {rec[t], FailLaunch(rec[t])}
    BY <1>0, <1>3 DEF FailCreate, StoreOK
  <2> QED
    BY <1>0, <2>1, SameForward, FailForward
<1> QED
  BY <1>1, <1>2, <1>3
     DEF CreateStep, MintRecord, MintFails, AcquireAdmission, AdmitCreate, SaveLaunch,
         ScreenStart, StartSeen, StartNotSeen, QuitFailedStart, ReleaseAdmission, store

LEMMA StepForward ==
    ASSUME TypeOK, OnceInv, [Next]_vars, NEW s \in Session
    PROVE  Forward(rec[s], rec'[s])
<1>0. rec[s] \in Record
  BY TypeParts DEF StoreOK
<1>1. CASE rec' = rec
  BY <1>0, <1>1, SameForward
<1>2. ASSUME NEW m \in Manager, ListStep(m) \/ StopStep(m) \/ PruneStep(m)
      PROVE  Forward(rec[s], rec'[s])
  BY <1>0, <1>2, Quiet, MoveForward DEF GloballyQuiet
<1>3. ASSUME NEW m \in Manager, FinalizeUninstall(m)
      PROVE  Forward(rec[s], rec'[s])
  <2>1. rec'[s] \in {rec[s], Absent}
    BY <1>3 DEF FinalizeUninstall, store
  <2>2. Forward(rec[s], Absent)
    BY <1>0 DEF Absent, Forward, Rank, Record, State, Present
  <2> QED
    BY <1>0, <2>1, <2>2, SameForward
<1>4. ASSUME NEW m \in Manager, Invoke(m) \/ ManagerStep(m)
      PROVE  Forward(rec[s], rec'[s])
  BY <1>1, <1>2, <1>3, <1>4, CreateForward
     DEF ManagerStep, UninstallStep, ProveInactive, CommitUninstall, Invoke, StartCommand,
         StartUninstall, StartFinalize, store
<1>5. ASSUME NEW r \in Runner, RunnerStep(r)
      PROVE  Forward(rec[s], rec'[s])
  BY <1>0, <1>5, RunnerMoves, RunnerForward, SameForward DEF RecordOf
<1>6. Environment => rec' = rec
  BY EnvironmentStore DEF store
<1>7. UNCHANGED vars => rec' = rec
  BY DEF vars
<1> QED
  BY <1>1, <1>4, <1>5, <1>6, <1>7 DEF Next

\* No operation of the store takes a record back: what save, reconcile, stop,
\* finish and delete find under the store's lock decides what they may write.
THEOREM RecordsGoForward == Spec => LifecycleForward
<1>1. TypeOK /\ OnceInv /\ [Next]_vars =>
        [\A s \in Session : Present(rec[s]) =>
          /\ Rank(rec[s]) <= Rank(rec'[s])
          /\ rec[s].exited /\ Present(rec'[s]) => rec'[s].exited]_vars
  BY StepForward DEF Forward
<1> QED
  BY <1>1, TypeCorrect, OnceInvariant, PTL DEF Spec, LifecycleForward

\* When FinalizeStop has written the record no backend of the session is alive:
\* what it found under the store's lock says that the exit was acknowledged.
THEOREM StopEndsSession == Spec => StopMeansEnded
<1>1. ASSUME TypeOK, OwnerInv, PurgeIsFinal, NEW m \in Manager, NEW s \in Session,
             FinalizeStop(m, s), CanStop(rec[s])
      PROVE  Terminal(rec'[s]) /\ \A r \in Runner : SessionOf[r] = s => ~Live(r)
  <2>1. rec[s] \in Record /\ rec'[s] = Stop(rec[s])
    BY <1>1, TypeParts DEF FinalizeStop, StoreOK
  <2>2. Terminal(rec'[s])
    BY <1>1, <2>1 DEF Terminal, Stop, CanStop, Active, Present, Record, State
  <2>3. ~Purged
    BY <1>1 DEF PurgeIsFinal, Purged, CanStop
  <2>4. ASSUME NEW r \in Runner, SessionOf[r] = s PROVE ~Live(r)
    BY <1>1, <2>3, <2>4 DEF OwnerInv, ClaimInv, Bound, Named, CanStop, RecordOf
  <2> QED
    BY <2>2, <2>4
<1>2. TypeOK /\ OwnerInv /\ PurgeIsFinal /\ [Next]_vars =>
        [\A m \in Manager, s \in Session :
          /\ At(m, "final") /\ s \in mgr[m].sel
          /\ FinalizeStop(m, s) /\ CanStop(rec[s])
          => /\ Terminal(rec'[s])
             /\ \A r \in Runner : SessionOf[r] = s => ~Live(r)]_vars
  BY <1>1
<1> QED
  BY <1>2, TypeCorrect, OwnerInvariant, PurgedForGood, PTL DEF Spec, StopMeansEnded

LEMMA OnlyStartBackend ==
    ASSUME TypeOK, [Next]_vars, NEW r \in Runner, ~Live(r), Live(r)'
    PROVE  StartBackend(r)
<1>0. RestOK
  BY TypeParts
<1>1. ASSUME NEW q \in Runner, RunnerStep(q) PROVE StartBackend(r)
  BY <1>0, <1>1
     DEF RunnerStep, LoadRecord, ConsumeLaunch, PrepareFails, FailRunner, ClaimSession,
         StartBackend, MarkSessionStarted, StopRequested, Escalate, Reap, FinishSession,
         Live, RestOK
<1>2. ASSUME Environment PROVE FALSE
  BY <1>0, <1>2
     DEF Environment, Setup, ManagerCrash, RunByHand, RunnerSignaled, BackendExits, RunnerCrash,
         ScreenDies, GraceEnds, Live, RestOK
<1>3. ASSUME NEW m \in Manager, Invoke(m) \/ ManagerStep(m) PROVE backend' = backend
  <2>1. ListStep(m) \/ StopStep(m) \/ PruneStep(m) => backend' = backend
    BY Quiet DEF GloballyQuiet
  <2> QED
    BY <1>3, <2>1
       DEF ManagerStep, CreateStep, MintRecord, MintFails, AcquireAdmission, AdmitCreate,
           SaveRecord, SaveLaunch, ScreenStart, StartSeen, StartNotSeen, FailCreate,
           QuitFailedStart, ReleaseAdmission, UninstallStep, ProveInactive, CommitUninstall,
           FinalizeUninstall, Invoke, StartCommand, StartUninstall, StartFinalize
<1>4. UNCHANGED vars => backend' = backend
  BY DEF vars
<1> QED
  BY <1>1, <1>2, <1>3, <1>4 DEF Next, Live

LEMMA SpawnClaimed ==
    ASSUME TypeOK, OwnerInv, ~Purged, NEW r \in Runner, StartBackend(r)
    PROVE  /\ Active(RecordOf(r)) \/ RecordOf(r).state = "failed"
           /\ RecordOf(r).runner = r /\ ~RecordOf(r).exited
<1>1. RecordOf(r) \in Record /\ ValidRecord(RecordOf(r))
  BY TypeParts, SessionOfAssumption DEF StoreOK, RecordOf
<1>2. Named(RecordOf(r), r)
  BY DEF StartBackend, OwnerInv, ClaimInv, Bound, Owning
<1> QED
  BY <1>1, <1>2 DEF Named, ExitUnconfirmed, ValidRecord, Active, Record, State

\* Where no uninstall has purged the records a backend starts only after
\* ClaimRunner has put its runner on the record, whatever happens in between.
THEOREM BackendClaimed == Spec /\ []~Purged => StartsUnderClaim
<1>1. TypeOK /\ OwnerInv /\ ~Purged /\ [Next]_vars =>
        [\A r \in Runner : ~Live(r) /\ Live(r)' =>
          /\ Active(RecordOf(r)) \/ RecordOf(r).state = "failed"
          /\ RecordOf(r).runner = r /\ ~RecordOf(r).exited]_vars
  BY OnlyStartBackend, SpawnClaimed
<1> QED
  BY <1>1, TypeCorrect, OwnerInvariant, PTL DEF Spec, StartsUnderClaim

\* If nobody repeats a runner's hidden command by hand, the premise is not
\* needed: uninstall commits when no runner is about to start a backend.
THEOREM ClaimedWithoutHand == ByHand = {} => (Spec => StartsUnderClaim)
<1> SUFFICES ASSUME ByHand = {} PROVE Spec => StartsUnderClaim
  OBVIOUS
<1>1. ASSUME EndedInv, NEW r \in Runner, StartBackend(r) PROVE ~Purged
  BY <1>1, SessionOfAssumption DEF EndedInv, Over, StartBackend, Purged
<1>2. TypeOK /\ OwnerInv /\ KnownInv /\ [Next]_vars =>
        [\A r \in Runner : ~Live(r) /\ Live(r)' =>
          /\ Active(RecordOf(r)) \/ RecordOf(r).state = "failed"
          /\ RecordOf(r).runner = r /\ ~RecordOf(r).exited]_vars
  BY <1>1, OnlyStartBackend, SpawnClaimed DEF KnownInv
<1>3. Spec => []KnownInv
  BY KnownInvariant
<1> QED
  BY <1>2, <1>3, TypeCorrect, OwnerInvariant, PTL DEF Spec, StartsUnderClaim
-----------------------------------------------------------------------------
\* The contract: what a step does to one session, and that it leaves the others.
PhaseOf(s) == AbstractPhase(rec[s])
ChildOf(s) == AbstractChild(rec[s])

ContractMove(p, c, q, e) ==
    \/ q = p /\ e = c
    \/ p = "absent" /\ q = "open" /\ e = c
    \/ p = "open" /\ q \in {"stopping", "failed"} /\ e = c
    \/ p \in {"open", "stopping"} /\ q = "ended" /\ c \in {"none", "acknowledged"} /\ e = c
    \/ p = "open" /\ c = "none" /\ q = p /\ e = "claimed"
    \/ c = "claimed" /\ q = p /\ e = "alive"
    \/ c = "alive" /\ q = p /\ e = "gone"
    \/ /\ c \in {"claimed", "gone"} /\ e = "acknowledged"
       /\ \/ p \in {"open", "stopping"} /\ q = "ended"
          \/ p \in {"stopping", "failed"} /\ q = p
    \/ /\ p \in {"ended", "failed"} /\ c \in {"none", "acknowledged"}
       /\ q = "absent" /\ e = "none"

LEMMA MoveIsContract ==
    ASSUME NEW s \in Session,
           ContractMove(PhaseOf(s), ChildOf(s), PhaseOf(s)', ChildOf(s)'),
           \A t \in Session \ {s} : PhaseOf(t)' = PhaseOf(t) /\ ChildOf(t)' = ChildOf(t)
    PROVE  [Contract!Next]_Contract!vars
<1> DEFINE phase == [t \in Session |-> AbstractPhase(rec[t])]
           child == [t \in Session |-> AbstractChild(rec[t])]
           p == PhaseOf(s)  c == ChildOf(s)
<1>1. /\ phase[s] = p /\ child[s] = c
      /\ phase' = [phase EXCEPT ![s] = p'] /\ child' = [child EXCEPT ![s] = c']
  BY DEF PhaseOf, ChildOf
<1>2. (p' = p => phase' = phase) /\ (c' = c => child' = child)
  BY <1>1
<1>3. p' = "absent" /\ c' = "none" =>
        /\ phase' = [t \in Session |-> IF t \in {s} THEN "absent" ELSE phase[t]]
        /\ child' = [t \in Session |-> IF t \in {s} THEN "none" ELSE child[t]]
  BY <1>1
<1>4. ContractMove(p, c, p', c')
  OBVIOUS
<1>5. CASE p' = p /\ c' = c
  BY <1>2, <1>5 DEF Contract!vars
<1>6. CASE p = "absent" /\ p' = "open" /\ c' = c
  <2>1. Contract!Publish(s)
    BY <1>1, <1>2, <1>6 DEF Contract!Publish, Contract!Phase
  <2> QED
    BY <2>1 DEF Contract!Next
<1>7. CASE p = "open" /\ p' \in {"stopping", "failed"} /\ c' = c
  <2>1. Contract!RequestStop(s) \/ Contract!Fail(s)
    BY <1>1, <1>2, <1>7 DEF Contract!RequestStop, Contract!Fail, Contract!Phase
  <2> QED
    BY <2>1 DEF Contract!Next
<1>8. CASE p \in {"open", "stopping"} /\ p' = "ended" /\ c \in {"none", "acknowledged"} /\ c' = c
  <2>1. Contract!End(s)
    BY <1>1, <1>2, <1>8 DEF Contract!End, Contract!Phase, Contract!Settled
  <2> QED
    BY <2>1 DEF Contract!Next
<1>9. CASE p = "open" /\ c = "none" /\ p' = p /\ c' = "claimed"
  <2>1. Contract!Claim(s)
    BY <1>1, <1>2, <1>9 DEF Contract!Claim, Contract!Child
  <2> QED
    BY <2>1 DEF Contract!Next
<1>10. CASE c = "claimed" /\ p' = p /\ c' = "alive"
  <2>1. Contract!Spawn(s)
    BY <1>1, <1>2, <1>10 DEF Contract!Spawn, Contract!Child
  <2> QED
    BY <2>1 DEF Contract!Next
<1>11. CASE c = "alive" /\ p' = p /\ c' = "gone"
  <2>1. Contract!Exit(s)
    BY <1>1, <1>2, <1>11 DEF Contract!Exit, Contract!Child
  <2> QED
    BY <2>1 DEF Contract!Next
<1>12. CASE /\ c \in {"claimed", "gone"} /\ c' = "acknowledged"
            /\ \/ p \in {"open", "stopping"} /\ p' = "ended"
               \/ p \in {"stopping", "failed"} /\ p' = p
  <2>1. Contract!Acknowledge(s)
    BY <1>1, <1>2, <1>12 DEF Contract!Acknowledge, Contract!Child, Contract!Phase
  <2> QED
    BY <2>1 DEF Contract!Next
<1>13. CASE /\ p \in {"ended", "failed"} /\ c \in {"none", "acknowledged"}
            /\ p' = "absent" /\ c' = "none"
  <2>1. Contract!Remove({s})
    BY <1>1, <1>3, <1>13 DEF Contract!Remove, Contract!Settled
  <2> QED
    BY <2>1 DEF Contract!Next
<1> QED
  BY <1>4, <1>5, <1>6, <1>7, <1>8, <1>9, <1>10, <1>11, <1>12, <1>13 DEF ContractMove

\* The operations of managers on a record that may be unclaimed, claimed or
\* acknowledged move the phase only where the contract does.
Keeps(d, e) == ContractMove(AbstractPhase(d), AbstractChild(d), AbstractPhase(e), AbstractChild(e))

LEMMA Phases ==
    ASSUME NEW d \in Record
    PROVE  /\ d.state = "absent" => AbstractPhase(d) = "absent"
           /\ d.state \in {"starting", "running"} => AbstractPhase(d) = "open"
           /\ d.state = "stopping" => AbstractPhase(d) = "stopping"
           /\ d.state = "stopped" => AbstractPhase(d) = "ended"
           /\ d.state = "failed" => AbstractPhase(d) = "failed"
BY DEF AbstractPhase, Runnable

LEMMA Unclaimed == ASSUME NEW d, d.runner = NoRunner PROVE AbstractChild(d) = "none"
BY DEF AbstractChild

LEMMA BlankRecords ==
    Absent \in Record /\ NewRecord \in Record
BY DEF Absent, NewRecord, Record, State

LEMMA KeepsSame == ASSUME NEW d PROVE Keeps(d, d)
BY DEF Keeps, ContractMove

LEMMA SameClaim ==
    ASSUME NEW d, NEW e, e.runner = d.runner, ExitUnconfirmed(e) = ExitUnconfirmed(d)
    PROVE  AbstractChild(e) = AbstractChild(d)
BY DEF AbstractChild

LEMMA SettledChild ==
    ASSUME NEW d \in Record, ~ExitUnconfirmed(d)
    PROVE  AbstractChild(d) \in {"none", "acknowledged"}
BY DEF AbstractChild

LEMMA FailKeeps == ASSUME NEW d \in Record PROVE Keeps(d, FailLaunch(d))
<1>1. AbstractChild(FailLaunch(d)) = AbstractChild(d)
  BY SameClaim DEF FailLaunch, ExitUnconfirmed, Record
<1>2. AbstractPhase(FailLaunch(d)) = AbstractPhase(d)
      \/ (AbstractPhase(d) = "open" /\ AbstractPhase(FailLaunch(d)) = "failed")
  <2>1. FailLaunch(d) \in Record
    BY DEF FailLaunch, Record, State
  <2>2. d.state = "starting" => FailLaunch(d).state = "failed"
    BY DEF FailLaunch, Record
  <2>3. d.state # "starting" => FailLaunch(d) = d
    BY DEF FailLaunch
  <2> QED
    BY <2>1, <2>2, <2>3, Phases
<1> QED
  BY <1>1, <1>2 DEF Keeps, ContractMove

LEMMA MoveKeeps ==
    ASSUME NEW d \in Record, NEW e, RecordMove(d, e)
    PROVE  Keeps(d, e)
<1>1. CASE e = SeenRunning(d)
  <2>1. AbstractChild(e) = AbstractChild(d)
    BY <1>1, SameClaim DEF SeenRunning, ExitUnconfirmed, Record
  <2>2. AbstractPhase(e) = AbstractPhase(d)
    <3>1. e \in Record /\ (e = d \/ (d.state \in {"starting", "running"} /\ e.state = "running"))
      BY <1>1 DEF SeenRunning, Runnable, Record, State
    <3> QED
      BY <3>1, Phases
  <2> QED
    BY <2>1, <2>2 DEF Keeps, ContractMove
<1>2. CASE CanStop(d) /\ e = Stop(d)
  <2>1. AbstractChild(e) = AbstractChild(d) /\ AbstractChild(d) \in {"none", "acknowledged"}
    BY <1>2, SameClaim, SettledChild DEF CanStop, Stop, ExitUnconfirmed, Record
  <2>2. AbstractPhase(e) = AbstractPhase(d)
        \/ (AbstractPhase(d) \in {"open", "stopping"} /\ AbstractPhase(e) = "ended")
    <3>1. e \in Record
          /\ (e = d \/ (d.state \in {"starting", "running", "stopping"} /\ e.state = "stopped"))
      BY <1>2 DEF Stop, Active, Record, State
    <3> QED
      BY <3>1, Phases
  <2> QED
    BY <2>1, <2>2 DEF Keeps, ContractMove
<1>3. CASE CanRequestStop(d) /\ e = RequestStop(d)
  <2>1. AbstractChild(e) = AbstractChild(d)
    BY <1>3, SameClaim DEF RequestStop, ExitUnconfirmed, Record
  <2>2. AbstractPhase(d) \in {"open", "stopping"} /\ AbstractPhase(e) = "stopping"
    <3>1. e \in Record /\ d.state \in {"starting", "running", "stopping"} /\ e.state = "stopping"
      BY <1>3 DEF CanRequestStop, RequestStop, Active, Record, State
    <3> QED
      BY <3>1, Phases
  <2> QED
    BY <2>1, <2>2 DEF Keeps, ContractMove
<1>4. CASE CanDelete(d) /\ e = Absent
  <2>1. AbstractChild(d) \in {"none", "acknowledged"} /\ AbstractPhase(d) \in {"ended", "failed"}
    <3>1. d.state \in {"stopped", "failed"}
      BY <1>4 DEF CanDelete, Present, Active, Record, State
    <3> QED
      BY <1>4, <3>1, SettledChild, Phases DEF CanDelete
  <2>2. AbstractChild(e) = "none" /\ AbstractPhase(e) = "absent"
    BY <1>4, BlankRecords, Phases, Unclaimed DEF Absent
  <2> QED
    BY <2>1, <2>2 DEF Keeps, ContractMove
<1> QED
  BY <1>1, <1>2, <1>3, <1>4, KeepsSame DEF RecordMove

LEMMA SaveKeeps == ASSUME NEW d \in Record, d.state = "absent", d.runner = NoRunner
                   PROVE  Keeps(d, NewRecord)
<1>1. AbstractPhase(d) = "absent" /\ AbstractChild(d) = "none"
  BY Phases, Unclaimed
<1>2. AbstractPhase(NewRecord) = "open" /\ AbstractChild(NewRecord) = "none"
  BY BlankRecords, Phases, Unclaimed DEF NewRecord, Absent
<1> QED
  BY <1>1, <1>2 DEF Keeps, ContractMove

\* Where the backends stay as they are a step moves one record at most.
LEMMA KeptIsContract ==
    ASSUME UNCHANGED backend, NEW s \in Session, Keeps(rec[s], rec'[s]),
           \A t \in Session \ {s} : rec'[t] = rec[t]
    PROVE  [Contract!Next]_Contract!vars
<1>1. \A t \in Session : PhaseOf(t)' = AbstractPhase(rec'[t]) /\ ChildOf(t)' = AbstractChild(rec'[t])
  BY DEF PhaseOf, ChildOf, AbstractPhase, AbstractChild
<1> QED
  BY <1>1, MoveIsContract DEF Keeps, PhaseOf, ChildOf

LEMMA SameIsContract ==
    ASSUME UNCHANGED <<rec, backend>>
    PROVE  UNCHANGED Contract!vars
BY DEF Contract!vars, AbstractPhase, AbstractChild

\* A runner has no child before it spawns one, and is named by the record of
\* its own session only.
Spawnless == {"idle", "load", "consume", "failLaunch", "claim", "spawn"}
OwnRunner(s, d) ==
    /\ d.runner = NoRunner \/ (d.runner \in Runner /\ SessionOf[d.runner] = s)
    /\ d.state = "absent" => d.runner = NoRunner

SpawnInv == \A r \in Runner : rpc[r] \in Spawnless => backend[r] = "none"
OwnInv == \A s \in Session : OwnRunner(s, rec[s])
ChildOfInv == SpawnInv /\ OwnInv

LEMMA InitChildOf == Init => ChildOfInv
<1> SUFFICES ASSUME NEW old \in Legacy, InitWith(old) PROVE ChildOfInv
  BY DEF Init
<1>1. SpawnInv
  BY DEF InitWith, SpawnInv, Spawnless
<1>2. PICK state \in {"running", "stopping"} :
         rec = [s \in Session |->
                  IF s \in SessionsOf(old)
                  THEN LegacyRecord(CHOOSE r \in old : SessionOf[r] = s, state)
                  ELSE Absent]
  BY DEF InitWith
<1>3. ASSUME NEW s \in Session PROVE OwnRunner(s, rec[s])
  <2>1. CASE s \in SessionsOf(old)
    <3> DEFINE r == CHOOSE q \in old : SessionOf[q] = s
    <3>1. r \in old /\ SessionOf[r] = s
      BY <2>1 DEF SessionsOf
    <3>2. rec[s].runner = r /\ rec[s].state # "absent" /\ r \in Runner
      BY <1>2, <2>1, <3>1, LegacyAssumption DEF LegacyRecord, Absent
    <3> QED
      BY <3>1, <3>2 DEF OwnRunner
  <2>2. CASE s \notin SessionsOf(old)
    BY <1>2, <2>2 DEF OwnRunner, Absent
  <2> QED
    BY <2>1, <2>2
<1> QED
  BY <1>1, <1>3 DEF ChildOfInv, OwnInv

LEMMA MoveKeepsOwn ==
    ASSUME NEW d \in Record, NEW s, OwnRunner(s, d), NEW e,
           RecordMove(d, e) \/ e \in {FailLaunch(d), Absent, NewRecord}
    PROVE  OwnRunner(s, e)
BY DEF OwnRunner, RecordMove, SeenRunning, Stop, RequestStop, CanRequestStop, CanStop, Present,
       FailLaunch, Absent, NewRecord, Record

LEMMA RunnerKeepsOwn ==
    ASSUME NEW r \in Runner, NEW d \in Record, OwnRunner(SessionOf[r], d), NEW e,
           RunnerMove(r, d, e)
    PROVE  OwnRunner(SessionOf[r], e)
<1>1. CASE CanClaimRunner(d) /\ e = ClaimRunner(d, r)
  BY <1>1 DEF OwnRunner, CanClaimRunner, ClaimRunner, Runnable, Record
<1>2. CASE e = MarkStarted(d, r)
  BY <1>2 DEF OwnRunner, MarkStarted, Record
<1>3. CASE Present(d) /\ e = Finish(d)
  BY <1>3 DEF OwnRunner, Finish, FinishAcknowledged, FinishLegacy, Present, Record
<1>4. CASE e = d \/ e = FailLaunch(d)
  BY <1>4, MoveKeepsOwn
<1> QED
  BY <1>1, <1>2, <1>3, <1>4 DEF RunnerMove

\* The steps of managers other than a purge that write a record.
LEMMA ManagerWrites ==
    ASSUME TypeOK, OnceInv, NEW m \in Manager, Invoke(m) \/ ManagerStep(m),
           ~(FinalizeUninstall(m) /\ purge), rec' # rec
    PROVE  \E s \in Session :
              /\ \A t \in Session \ {s} : rec'[t] = rec[t]
              /\ \/ RecordMove(rec[s], rec'[s])
                 \/ rec'[s] = FailLaunch(rec[s])
                 \/ rec[s].state = "absent" /\ rec'[s] = NewRecord
<1>0. StoreOK
  BY TypeParts
<1>1. \E s \in Session : \/ SaveRecord(m, s) \/ FailCreate(m, s) \/ Reconcile(m, s)
                         \/ RequestStopOf(m, s) \/ FinalizeStop(m, s) \/ DeleteRecord(m, s)
  BY DEF Invoke, StartCommand, StartUninstall, StartFinalize, ManagerStep, CreateStep, MintRecord,
         MintFails, AcquireAdmission, AdmitCreate, SaveLaunch, ScreenStart, StartSeen,
         StartNotSeen, QuitFailedStart, ReleaseAdmission, ListStep, ReadDir, ReadRecord,
         CleanupLaunches, ListSockets, ListSocketsFails, ListReturns, StopStep, SelectForStop,
         ProbeEnded, LegacyQuit, AwaitBackendExit, CheckSocket, QuitStopped, ConfirmStopped,
         PruneStep, SelectForPrune, UninstallStep, ProveInactive, CommitUninstall,
         FinalizeUninstall, store
<1>2. PICK s \in Session : \/ SaveRecord(m, s) \/ FailCreate(m, s) \/ Reconcile(m, s)
                           \/ RequestStopOf(m, s) \/ FinalizeStop(m, s) \/ DeleteRecord(m, s)
  BY <1>1
<1>3. \E e : rec' = [rec EXCEPT ![s] = e]
  BY <1>2 DEF SaveRecord, FailCreate, Reconcile, ReconcileUpdates, ReconcileStops,
              ReconcileLeaves, RequestStopOf, FinalizeStop, DeleteRecord, store
<1>4. \A t \in Session \ {s} : rec'[t] = rec[t]
  BY <1>0, <1>3 DEF StoreOK
<1>5. CASE SaveRecord(m, s)
  <2>1. IsAbsent(s)
    BY <1>5 DEF SaveRecord, At, OnceInv, MintedInv, Minted
  <2>2. rec'[s] = NewRecord
    BY <1>0, <1>5 DEF SaveRecord, StoreOK
  <2> QED
    BY <1>4, <2>1, <2>2 DEF IsAbsent
<1>6. CASE FailCreate(m, s)
  BY <1>0, <1>4, <1>6 DEF FailCreate, StoreOK
<1>7. CASE \/ Reconcile(m, s) \/ RequestStopOf(m, s) \/ FinalizeStop(m, s) \/ DeleteRecord(m, s)
  <2>1. ListStep(m) \/ StopStep(m) \/ PruneStep(m)
    BY <1>7 DEF ListStep, StopStep, PruneStep
  <2> QED
    BY <1>4, <2>1, Quiet DEF GloballyQuiet
<1> QED
  BY <1>2, <1>5, <1>6, <1>7

LEMMA ManagerBackend ==
    ASSUME TypeOK, NEW m \in Manager, Invoke(m) \/ ManagerStep(m)
    PROVE  /\ UNCHANGED backend
           /\ \A r \in Runner : rpc'[r] = rpc[r] \/ (rpc[r] = "idle" /\ rpc'[r] = "load")
<1>0. RestOK
  BY TypeParts
<1>1. CASE ListStep(m) \/ StopStep(m) \/ PruneStep(m)
  BY <1>1, Quiet DEF GloballyQuiet
<1>2. ASSUME NEW s \in Session, ScreenStart(m, s)
      PROVE  /\ UNCHANGED backend
             /\ \A r \in Runner : rpc'[r] = rpc[r] \/ (rpc[r] = "idle" /\ rpc'[r] = "load")
  BY <1>0, <1>2 DEF ScreenStart, RestOK
<1>3. CASE UNCHANGED <<rpc, backend>>
  BY <1>3
<1>4. CASE CreateStep(m)
  BY <1>2, <1>3, <1>4
     DEF CreateStep, MintRecord, MintFails, AcquireAdmission, AdmitCreate, SaveRecord, SaveLaunch,
         StartSeen, StartNotSeen, FailCreate, QuitFailedStart, ReleaseAdmission
<1>5. CASE UninstallStep(m) \/ Invoke(m)
  BY <1>3, <1>5
     DEF UninstallStep, ProveInactive, CommitUninstall, FinalizeUninstall, Invoke, StartCommand,
         StartUninstall, StartFinalize
<1> QED
  BY <1>1, <1>4, <1>5 DEF ManagerStep

LEMMA ChildOfStep == TypeOK /\ OnceInv /\ ChildOfInv /\ [Next]_vars => ChildOfInv'
<1> SUFFICES ASSUME TypeOK, OnceInv, ChildOfInv, [Next]_vars PROVE ChildOfInv'
  OBVIOUS
<1>0. RestOK /\ StoreOK
  BY TypeParts
<1>1. CASE UNCHANGED vars
  BY <1>1 DEF vars, ChildOfInv, SpawnInv, OwnInv
<1>2. ASSUME NEW m \in Manager, Invoke(m) \/ ManagerStep(m)
      PROVE  ChildOfInv'
  <2>1. SpawnInv'
    BY <1>2, ManagerBackend DEF ChildOfInv, SpawnInv, Spawnless
  <2>2. CASE rec' = rec
    BY <2>1, <2>2 DEF ChildOfInv, OwnInv
  <2>3. CASE FinalizeUninstall(m) /\ purge
    BY <1>0, <2>1, <2>3, MoveKeepsOwn DEF FinalizeUninstall, ChildOfInv, OwnInv, StoreOK
  <2>4. CASE rec' # rec /\ ~(FinalizeUninstall(m) /\ purge)
    <3>1. PICK s \in Session :
              /\ \A t \in Session \ {s} : rec'[t] = rec[t]
              /\ \/ RecordMove(rec[s], rec'[s])
                 \/ rec'[s] = FailLaunch(rec[s])
                 \/ rec[s].state = "absent" /\ rec'[s] = NewRecord
      BY <1>2, <2>4, ManagerWrites
    <3>2. OwnRunner(s, rec'[s])
      BY <1>0, <3>1, MoveKeepsOwn DEF ChildOfInv, OwnInv, StoreOK
    <3> QED
      BY <2>1, <3>1, <3>2 DEF ChildOfInv, OwnInv, OwnRunner
  <2> QED
    BY <2>2, <2>3, <2>4
<1>3. ASSUME NEW r \in Runner, RunnerStep(r)
      PROVE  ChildOfInv'
  <2>1. SessionOf[r] \in Session
    BY SessionOfAssumption
  <2>2. OwnRunner(SessionOf[r], rec'[SessionOf[r]])
    BY <1>0, <1>3, <2>1, RunnerMoves, RunnerKeepsOwn DEF ChildOfInv, OwnInv, StoreOK, RecordOf
  <2>3. OwnInv'
    BY <1>3, <2>2, RunnerMoves DEF ChildOfInv, OwnInv, OwnRunner
  <2>4. rpc'[r] \in Spawnless => rpc[r] \in Spawnless /\ backend'[r] = backend[r]
    BY <1>0, <1>3
       DEF RunnerStep, LoadRecord, ConsumeLaunch, PrepareFails, FailRunner, ClaimSession,
           StartBackend, MarkSessionStarted, StopRequested, Escalate, Reap, FinishSession,
           RunnerGoto, Spawnless, RestOK
  <2> QED
    BY <1>3, <2>3, <2>4, RunnerMoves DEF ChildOfInv, SpawnInv
<1>4. CASE Environment
  <2>1. OwnInv'
    BY <1>4, EnvironmentStore DEF store, ChildOfInv, OwnInv
  <2>2. \A r \in Runner : rpc'[r] \in Spawnless => rpc[r] \in Spawnless
    BY <1>0, <1>4
       DEF Environment, Setup, ManagerCrash, RunByHand, RunnerSignaled, BackendExits, RunnerCrash,
           ScreenDies, GraceEnds, RunnerGoto, Spawnless, RestOK
  <2>3. \A r \in Runner : backend[r] = "none" => backend'[r] = "none"
    BY <1>0, <1>4
       DEF Environment, Setup, ManagerCrash, RunByHand, RunnerSignaled, BackendExits, RunnerCrash,
           ScreenDies, GraceEnds, RestOK
  <2> QED
    BY <2>1, <2>2, <2>3 DEF ChildOfInv, SpawnInv
<1> QED
  BY <1>1, <1>2, <1>3, <1>4 DEF Next

LEMMA ChildOfInvariant == Spec => []ChildOfInv
BY InitChildOf, ChildOfStep, TypeCorrect, OnceInvariant, PTL DEF Spec

LEMMA ClaimKeeps ==
    ASSUME NEW r \in Runner, backend[r] = "none", NEW d \in Record, ValidRecord(d), ClaimedBy(d),
           CanClaimRunner(d)
    PROVE  Keeps(d, ClaimRunner(d, r))
<1> DEFINE e == ClaimRunner(d, r)
<1>1. e \in Record /\ e.runner = r /\ r # NoRunner /\ e.state = d.state /\ ExitUnconfirmed(e)
  BY NoRunnerAssumption
     DEF ClaimRunner, CanClaimRunner, ValidRecord, ClaimedBy, ExitUnconfirmed, Record
<1>2. AbstractChild(d) = "none" /\ AbstractChild(e) = "claimed"
  BY <1>1, Unclaimed DEF CanClaimRunner, AbstractChild
<1>3. AbstractPhase(d) = "open" /\ AbstractPhase(e) = "open"
  BY <1>1, Phases DEF CanClaimRunner, Runnable
<1> QED
  BY <1>2, <1>3 DEF Keeps, ContractMove

LEMMA MarkKeeps ==
    ASSUME NEW r \in Runner, NEW d \in Record, Named(d, r), CanMarkStarted(d, r)
    PROVE  Keeps(d, MarkStarted(d, r))
<1> DEFINE e == MarkStarted(d, r)
<1>1. e \in Record /\ e.runner = d.runner /\ e.state = "running" /\ ExitUnconfirmed(d)
      /\ ExitUnconfirmed(e)
  BY NoRunnerAssumption DEF MarkStarted, Named, ExitUnconfirmed, Record, State
<1>2. AbstractChild(e) = AbstractChild(d)
  BY <1>1, SameClaim
<1>3. AbstractPhase(d) = "open" /\ AbstractPhase(e) = "open"
  BY <1>1, Phases DEF CanMarkStarted
<1> QED
  BY <1>2, <1>3 DEF Keeps, ContractMove

LEMMA FinishKeeps ==
    ASSUME NEW r \in Runner, backend[r] \in {"none", "dead"}, NEW d \in Record, Named(d, r)
    PROVE  Keeps(d, Finish(d))
<1> DEFINE e == Finish(d)
<1>1. r # NoRunner /\ d.runner = r /\ ExitUnconfirmed(d)
  BY NoRunnerAssumption DEF Named
<1>2. AbstractChild(d) \in {"claimed", "gone"}
  BY <1>1 DEF AbstractChild
<1>3. CASE e = d
  BY <1>3, KeepsSame
<1>4. CASE e # d
  <2>1. e \in Record /\ e.runner = r /\ ~ExitUnconfirmed(e)
        /\ \/ d.state \in {"starting", "running", "stopping"} /\ e.state = "stopped"
           \/ d.state \in {"stopping", "failed"} /\ e.state = d.state
    BY <1>1, <1>4
       DEF Named, Finish, FinishAcknowledged, FinishLegacy, ExitUnconfirmed, Runnable, Record, State
  <2>2. AbstractChild(e) = "acknowledged"
    BY <1>1, <2>1 DEF AbstractChild
  <2>3. \/ AbstractPhase(d) \in {"open", "stopping"} /\ AbstractPhase(e) = "ended"
        \/ AbstractPhase(d) \in {"stopping", "failed"} /\ AbstractPhase(e) = AbstractPhase(d)
    BY <2>1, Phases
  <2> QED
    BY <1>2, <2>2, <2>3 DEF Keeps, ContractMove
<1> QED
  BY <1>3, <1>4

\* The child of a runner that its record names goes on.
LEMMA ChildIsContract ==
    ASSUME TypeOK, ChildOfInv, NEW r \in Runner, Named(RecordOf(r), r), UNCHANGED rec,
           \/ backend[r] = "none" /\ backend' = [backend EXCEPT ![r] = "alive"]
           \/ backend[r] = "alive" /\ backend' = [backend EXCEPT ![r] = "dead"]
    PROVE  [Contract!Next]_Contract!vars
<1> DEFINE s == SessionOf[r]
<1>0. RestOK /\ s \in Session /\ r # NoRunner
  BY TypeParts, SessionOfAssumption, NoRunnerAssumption
<1>1. rec[s].runner = r /\ ExitUnconfirmed(rec[s])
  BY DEF Named, RecordOf
<1>2. \A t \in Session : PhaseOf(t)' = PhaseOf(t)
  BY DEF PhaseOf, AbstractPhase
<1>3. ASSUME NEW t \in Session \ {s} PROVE ChildOf(t)' = ChildOf(t)
  <2>1. rec[t].runner = NoRunner \/ (rec[t].runner \in Runner /\ rec[t].runner # r)
    BY <1>3 DEF ChildOfInv, OwnInv, OwnRunner
  <2>2. rec[t].runner # NoRunner => backend'[rec[t].runner] = backend[rec[t].runner]
    BY <1>0, <2>1 DEF RestOK
  <2> QED
    BY <2>2 DEF ChildOf, AbstractChild
<1>4. \/ backend[r] = "none" /\ backend'[r] = "alive"
      \/ backend[r] = "alive" /\ backend'[r] = "dead"
  BY <1>0 DEF RestOK
<1>5. \/ ChildOf(s) = "claimed" /\ ChildOf(s)' = "alive"
      \/ ChildOf(s) = "alive" /\ ChildOf(s)' = "gone"
  BY <1>0, <1>1, <1>4 DEF ChildOf, AbstractChild
<1> QED
  BY <1>0, <1>2, <1>3, <1>5, MoveIsContract DEF ContractMove

LEMMA ContractStep ==
    ASSUME TypeOK, OnceInv, OwnerInv, ChildOfInv, ~Purged, ~Purged', [Next]_vars
    PROVE  [Contract!Next]_Contract!vars
<1>0. StoreOK /\ RestOK
  BY TypeParts
<1>1. CASE UNCHANGED <<rec, backend>>
  BY <1>1, SameIsContract
<1>2. ASSUME NEW m \in Manager, Invoke(m) \/ ManagerStep(m)
      PROVE  [Contract!Next]_Contract!vars
  <2>1. UNCHANGED backend
    BY <1>2, ManagerBackend
  <2>2. CASE rec' = rec
    BY <1>1, <2>1, <2>2
  <2>3. CASE rec' # rec
    <3>1. ~(FinalizeUninstall(m) /\ purge)
      BY DEF FinalizeUninstall, Purged
    <3>2. PICK s \in Session :
              /\ \A t \in Session \ {s} : rec'[t] = rec[t]
              /\ \/ RecordMove(rec[s], rec'[s])
                 \/ rec'[s] = FailLaunch(rec[s])
                 \/ rec[s].state = "absent" /\ rec'[s] = NewRecord
      BY <1>2, <2>3, <3>1, ManagerWrites
    <3>3. rec[s] \in Record /\ (rec[s].state = "absent" => rec[s].runner = NoRunner)
      BY <1>0 DEF StoreOK, ChildOfInv, OwnInv, OwnRunner
    <3>4. Keeps(rec[s], rec'[s])
      BY <3>2, <3>3, MoveKeeps, FailKeeps, SaveKeeps
    <3> QED
      BY <2>1, <3>2, <3>4, KeptIsContract
  <2> QED
    BY <2>2, <2>3
<1>3. ASSUME NEW r \in Runner, RunnerStep(r)
      PROVE  [Contract!Next]_Contract!vars
  <2> DEFINE s == SessionOf[r]
  <2>1. s \in Session /\ RecordOf(r) = rec[s] /\ rec[s] \in Record /\ ValidRecord(rec[s])
        /\ ClaimedBy(rec[s])
    BY <1>0, SessionOfAssumption DEF RecordOf, StoreOK, OwnerInv, ProtocolInv
  <2>2. CASE StartBackend(r) /\ backend' # backend
    <3>1. Named(RecordOf(r), r) /\ backend[r] = "none"
      BY <2>2 DEF StartBackend, OwnerInv, ClaimInv, Bound, Owning, ChildOfInv, SpawnInv, Spawnless
    <3> QED
      BY <2>2, <3>1, ChildIsContract DEF StartBackend, store
  <2>3. CASE UNCHANGED backend
    <3>1. RunnerMove(r, rec[s], rec'[s]) /\ \A t \in Session \ {s} : rec'[t] = rec[t]
      BY <1>3, <2>1, RunnerMoves DEF RecordOf
    <3>2. rpc[r] = "claim" => backend[r] = "none"
      BY DEF ChildOfInv, SpawnInv, Spawnless
    <3>3. rpc[r] \in {"mark", "finish"} => Named(rec[s], r)
      BY <2>1 DEF OwnerInv, ClaimInv, Bound, Owning
    <3>4. rpc[r] = "finish" => backend[r] \in {"none", "dead"}
      BY <1>0 DEF OwnerInv, ChildInv, Childless, Live, RestOK
    <3>5. Keeps(rec[s], rec'[s])
      BY <2>1, <3>1, <3>2, <3>3, <3>4, KeepsSame, FailKeeps, ClaimKeeps, MarkKeeps, FinishKeeps
         DEF RunnerMove
    <3> QED
      BY <2>1, <2>3, <3>1, <3>5, KeptIsContract
  <2> QED
    BY <1>3, <2>2, <2>3
       DEF RunnerStep, LoadRecord, ConsumeLaunch, PrepareFails, FailRunner, ClaimSession,
           StartBackend, MarkSessionStarted, StopRequested, Escalate, Reap, FinishSession
<1>4. ASSUME NEW r \in Runner, BackendExits(r)
      PROVE  [Contract!Next]_Contract!vars
  <2>1. Named(RecordOf(r), r)
    BY <1>4 DEF BackendExits, OwnerInv, ClaimInv, Bound, Live
  <2> QED
    BY <1>4, <2>1, ChildIsContract DEF BackendExits, store
<1>5. CASE Environment
  BY <1>1, <1>4, <1>5
     DEF Environment, Setup, ManagerCrash, RunByHand, RunnerSignaled, RunnerCrash, ScreenDies,
         GraceEnds, store
<1> QED
  BY <1>1, <1>2, <1>3, <1>5 DEF Next, vars

LEMMA InitContract == Init => Contract!Init
<1> SUFFICES ASSUME NEW old \in Legacy, InitWith(old) PROVE Contract!Init
  BY DEF Init
<1> DEFINE phase == [s \in Session |-> AbstractPhase(rec[s])]
           child == [s \in Session |-> AbstractChild(rec[s])]
<1>1. PICK state \in {"running", "stopping"} :
         rec = [s \in Session |->
                  IF s \in SessionsOf(old)
                  THEN LegacyRecord(CHOOSE r \in old : SessionOf[r] = s, state)
                  ELSE Absent]
  BY DEF InitWith
<1>2. TypeOK
  BY InitType DEF Init
<1>3. ASSUME NEW s \in Session
      PROVE  /\ phase[s] \in {"absent", "open", "stopping"}
             /\ child[s] = IF phase[s] = "absent" THEN "none" ELSE "alive"
  <2>0. rec[s] \in Record
    BY <1>2, TypeParts DEF StoreOK
  <2>1. CASE s \in SessionsOf(old)
    <3> DEFINE r == CHOOSE q \in old : SessionOf[q] = s
    <3>1. r \in old /\ r \in Runner /\ r # NoRunner
      BY <2>1, LegacyAssumption, NoRunnerAssumption DEF SessionsOf
    <3>2. rec[s].runner = r /\ rec[s].state = state /\ ExitUnconfirmed(rec[s])
      BY <1>1, <2>1, <3>1 DEF LegacyRecord, Absent, ExitUnconfirmed
    <3>3. backend[r] = "alive"
      BY <3>1 DEF InitWith
    <3>4. AbstractChild(rec[s]) = "alive"
      BY <3>1, <3>2, <3>3 DEF AbstractChild
    <3>5. AbstractPhase(rec[s]) \in {"open", "stopping"}
      BY <2>0, <3>2, Phases
    <3> QED
      BY <3>4, <3>5
  <2>2. CASE s \notin SessionsOf(old)
    <3>1. rec[s].state = "absent" /\ rec[s].runner = NoRunner
      BY <1>1, <2>2 DEF Absent
    <3> QED
      BY <2>0, <3>1, Phases, Unclaimed
  <2> QED
    BY <2>1, <2>2
<1>4. /\ phase \in [Session -> {"absent", "open", "stopping"}]
      /\ child = [s \in Session |-> IF phase[s] = "absent" THEN "none" ELSE "alive"]
  BY <1>3
<1> QED
  BY <1>4 DEF Contract!Init

\* The session manager implements SessionContract for as long as no uninstall
\* has purged the records: whatever managers, runners, Screen and crashes do
\* is publishing, claiming, spawning, ending, acknowledging or removing a
\* session as the contract allows, or nothing that the contract sees.
THEOREM ContractImplemented == Spec /\ []~Purged => ImplementsContract
<1>1. TypeOK /\ OnceInv /\ OwnerInv /\ ChildOfInv /\ ~Purged /\ ~Purged' /\ [Next]_vars
        => [Contract!Next]_Contract!vars
  BY ContractStep
<1> QED
  BY <1>1, InitContract, TypeCorrect, OnceInvariant, OwnerInvariant, ChildOfInvariant, PTL
     DEF Spec, ImplementsContract, Contract!Spec

=============================================================================
