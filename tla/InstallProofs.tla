----------------------------- MODULE InstallProofs -----------------------------
(***************************************************************************)
(* The install transaction keeps its types and never lets the link         *)
(* `current` dangle, for every set of releases, any number of launchers    *)
(* and whatever others do to launchers and release paths, and leaves alone *)
(* what is theirs.  If nobody changes a launcher, what it leaves is        *)
(* consistent and accounted for, and it implements InstallContract.        *)
(***************************************************************************)
EXTENDS InstallProperties, TLAPS

LEMMA PlaceFacts ==
    /\ Release \subseteq Place /\ Staging \in Place /\ Staging \notin Release
    /\ NoRelease \notin Release
BY ReleaseAssumption DEF Place

\* What a journal records is well typed.
LEMMA CaptureType ==
    ASSUME TypeOK, NEW t \in Release, CanCapture
    PROVE  Capture(t) \in Journal
<1> DEFINE gone == {r \in Superseded(t) : dir[r] # "foreign"}
<1>1. OwnedReleases \in SUBSET Release
  BY NoneAssumption DEF TypeOK, OwnedReleases, Ledger
<1>2. PreviousOf(t) \in Release \cup {NoRelease}
  BY NoneAssumption DEF TypeOK, PreviousOf, Ledger
<1>3. (IF ledger = NoLedger THEN {} ELSE ledger.codex) \in SUBSET Release
  BY NoneAssumption DEF TypeOK, Ledger
<1>4. NextLedger(t) \in Ledger
  BY <1>1, <1>2, <1>3 DEF NextLedger, Ledger
<1>5. Prunable(t) \in SUBSET Release
  BY <1>1 DEF Prunable, Superseded
<1>6. launcher \in [Launcher -> LauncherState \ {"file"}]
  BY DEF TypeOK, CanCapture, LauncherState
<1> QED
  BY <1>4, <1>5, <1>6 DEF Capture, Journal, TypeOK

LEMMA InitType == Init => TypeOK
<1> SUFFICES ASSUME Init PROVE TypeOK
  OBVIOUS
<1>1. op \in Op
  BY DEF Init, Op, OpPC
<1>2. journal \in Journal \cup {NoJournal} /\ trash \in [Place -> {"none", "ours", "stale"}]
  BY DEF Init
<1>3. CASE FreshInit
  BY <1>1, <1>2, <1>3 DEF FreshInit, TypeOK, LauncherState
<1>4. CASE OldInit
  <2>1. LauncherOf(2) \in SUBSET Launcher
    BY LaunchersAssumption DEF LauncherOf, Launcher
  <2>2. ledger \in Ledger
    BY <1>4, <2>1 DEF OldInit, Ledger
  <2>3. current \in Release
    BY <1>4, <2>2 DEF OldInit, Ledger
  <2> QED
    BY <1>1, <1>2, <1>4, <2>2, <2>3 DEF OldInit, TypeOK, LauncherState
<1> QED
  BY <1>3, <1>4 DEF Init

\* The fields of a well-typed operation record may be set one by one.
LEMMA OpFields ==
    ASSUME op \in Op, NEW pc \in OpPC, NEW todo \in SUBSET (Launcher \cup Place),
           NEW b \in BOOLEAN, NEW w \in BOOLEAN, NEW t \in Release
    PROVE  /\ [op EXCEPT !.pc = pc] \in Op
           /\ [op EXCEPT !.pc = pc, !.todo = todo] \in Op
           /\ [op EXCEPT !.pc = pc, !.recovering = b] \in Op
           /\ [op EXCEPT !.pc = pc, !.todo = todo, !.recovering = b] \in Op
           /\ [op EXCEPT !.pc = pc, !.tag = t] \in Op
           /\ [op EXCEPT !.todo = todo] \in Op
           /\ [op EXCEPT !.todo = todo, !.warned = w] \in Op
BY DEF Op

LEMMA PCs ==
    /\ {"idle", "recover", "preflight", "stage", "plan", "publish", "switch", "link",
         "ledger", "commit", "restoreCurrent", "restoreLaunchers", "restoreLedger",
         "removeNew", "restored", "prune", "clear"} = OpPC
BY DEF OpPC, ApplyPC, RestorePC, ForwardPC

\* Whoever applies, restores or finishes a transaction has a journal.
Journaled == op.pc \in ApplyPC \cup RestorePC \cup ForwardPC => journal # NoJournal

TypeInv == TypeOK /\ Journaled

LEMMA TypeStep == TypeInv /\ [Next]_vars => TypeInv'
<1> SUFFICES ASSUME TypeInv, [Next]_vars PROVE TypeInv'
  OBVIOUS
<1> USE PlaceFacts, PCs
<1> USE DEF TypeInv, Journaled, disk
<1>t. op \in Op /\ op.pc \in OpPC /\ op.todo \in SUBSET (Launcher \cup Place) /\ op.tag \in Release
  BY DEF TypeInv, TypeOK, Op
<1>j. journal # NoJournal =>
        /\ journal.prior \in Ledger \cup {NoLedger}
        /\ journal.priorCurrent \in Release \cup {NoRelease}
        /\ journal.priorLauncher \in [Launcher -> LauncherState]
        /\ journal.next \in Ledger /\ journal.next.current \in Release
        /\ journal.pruned \in SUBSET Release
  BY DEF TypeInv, TypeOK, Journal, Ledger
<1>d. ASSUME op' \in Op, UNCHANGED disk, op'.pc = op.pc \/ Journaled' PROVE TypeInv'
  BY <1>d DEF TypeInv, TypeOK, Journaled, disk, ApplyPC, RestorePC, ForwardPC
<1>r. ASSUME Return, UNCHANGED <<trash, current, launcher, ledger, journal>> PROVE TypeInv'
  <2>1. op' \in Op /\ op'.pc = "idle"
    BY <1>r, <1>t DEF Return, Op, ApplyPC, RestorePC, ForwardPC
  <2>2. dir' \in [Place -> {"none", "ours", "foreign"}]
    BY <1>r DEF Return, TypeInv, TypeOK, ApplyPC, RestorePC, ForwardPC
  <2> QED
    BY <1>r, <2>1, <2>2 DEF TypeInv, TypeOK, ApplyPC, RestorePC, ForwardPC
<1>1. CASE Started
  <2>1. op' \in Op /\ UNCHANGED disk
    BY <1>1, <1>t DEF Started, Begin, Op
  <2>2. Journaled'
    BY <1>1 DEF Started, Begin, ApplyPC, RestorePC, ForwardPC
  <2> QED
    BY <2>1, <2>2, <1>d
<1>2. CASE PreflightInstall
  <2>1. op' \in Op /\ UNCHANGED disk
    BY <1>2, <1>t, <1>j, OpFields DEF PreflightInstall, Goto
  <2>2. op'.pc = op.pc \/ Journaled'
    BY <1>2, <1>t DEF PreflightInstall, Goto, Op, ApplyPC, RestorePC, ForwardPC
  <2> QED
    BY <2>1, <2>2, <1>d
<1>3. CASE Linked
  <2>1. op' \in Op /\ UNCHANGED disk
    BY <1>3, <1>t, <1>j, OpFields DEF Linked, Goto
  <2>2. op'.pc = op.pc \/ Journaled'
    BY <1>3, <1>t DEF Linked, Goto, Op, ApplyPC, RestorePC, ForwardPC
  <2> QED
    BY <2>1, <2>2, <1>d
<1>4. CASE Commit
  <2>1. op' \in Op /\ UNCHANGED disk
    BY <1>4, <1>t, <1>j, OpFields DEF Commit, GotoWith, ApplyPC, RestorePC, ForwardPC
  <2>2. op'.pc = op.pc \/ Journaled'
    BY <1>4, <1>t DEF Commit, GotoWith, Op, ApplyPC, RestorePC, ForwardPC
  <2> QED
    BY <2>1, <2>2, <1>d
<1>5. CASE NothingToRecover
  <2>1. op' \in Op /\ UNCHANGED disk
    BY <1>5, <1>t, <1>j, OpFields DEF NothingToRecover, Goto
  <2>2. op'.pc = op.pc \/ Journaled'
    BY <1>5, <1>t DEF NothingToRecover, Goto, Op, ApplyPC, RestorePC, ForwardPC
  <2> QED
    BY <2>1, <2>2, <1>d
<1>6. CASE RecoverForward
  <2>1. op' \in Op /\ UNCHANGED disk
    BY <1>6, <1>t, <1>j, OpFields DEF RecoverForward
  <2>2. op'.pc = op.pc \/ Journaled'
    BY <1>6, <1>t DEF RecoverForward, Op, ApplyPC, RestorePC, ForwardPC
  <2> QED
    BY <2>1, <2>2, <1>d
<1>7. CASE RecoverBack
  <2>1. op' \in Op /\ UNCHANGED disk
    BY <1>7, <1>t, <1>j, OpFields DEF RecoverBack
  <2>2. op'.pc = op.pc \/ Journaled'
    BY <1>7, <1>t DEF RecoverBack, Op, ApplyPC, RestorePC, ForwardPC
  <2> QED
    BY <2>1, <2>2, <1>d
<1>8. CASE LaunchersRestored
  <2>1. op' \in Op /\ UNCHANGED disk
    BY <1>8, <1>t, <1>j, OpFields DEF LaunchersRestored, Goto
  <2>2. op'.pc = op.pc \/ Journaled'
    BY <1>8, <1>t DEF LaunchersRestored, Goto, Op, ApplyPC, RestorePC, ForwardPC
  <2> QED
    BY <2>1, <2>2, <1>d
<1>9. CASE NewRemoved
  <2>1. op' \in Op /\ UNCHANGED disk
    BY <1>9, <1>t, <1>j, OpFields DEF NewRemoved, Goto
  <2>2. op'.pc = op.pc \/ Journaled'
    BY <1>9, <1>t DEF NewRemoved, Goto, Op, ApplyPC, RestorePC, ForwardPC
  <2> QED
    BY <2>1, <2>2, <1>d
<1>10. CASE Pruned
  <2>1. op' \in Op /\ UNCHANGED disk
    BY <1>10, <1>t, <1>j DEF Pruned, Goto, Op
  <2>2. op'.pc = op.pc \/ Journaled'
    BY <1>10, <1>t DEF Pruned, Goto, Op, ApplyPC, RestorePC, ForwardPC
  <2> QED
    BY <2>1, <2>2, <1>d
<1>11. CASE Fail
  <2>1. op' \in Op /\ UNCHANGED disk
    BY <1>11, <1>t, <1>j, OpFields DEF Fail, GotoWith
  <2>2. op'.pc = op.pc \/ Journaled'
    BY <1>11, <1>t DEF Fail, GotoWith, Op, ApplyPC, RestorePC, ForwardPC
  <2> QED
    BY <2>1, <2>2, <1>d
<1>12. CASE PreflightRollback
  <2>1. ledger.previous \in Release
    BY <1>12, NoneAssumption DEF PreflightRollback, CanRollBack, TypeInv, TypeOK, Ledger
  <2>2. op' \in Op /\ UNCHANGED disk
    BY <1>12, <1>t, <2>1, OpFields DEF PreflightRollback
  <2>3. Journaled'
    BY <1>12, <1>t DEF PreflightRollback, Op, ApplyPC, RestorePC, ForwardPC
  <2> QED
    BY <2>2, <2>3, <1>d
<1>13. CASE \E p \in Place : PruneFails(p)
  <2>1. op' \in Op /\ UNCHANGED disk /\ op'.pc = op.pc
    BY <1>13, <1>t DEF PruneFails, Op
  <2> QED
    BY <2>1, <1>d
<1>14. CASE Refuse
  <2>1. Return /\ UNCHANGED <<trash, current, launcher, ledger, journal>>
    BY <1>14 DEF Refuse
  <2> QED
    BY <2>1, <1>r DEF ApplyPC, RestorePC, ForwardPC
<1>15. CASE Stop
  <2>1. Return /\ UNCHANGED <<trash, current, launcher, ledger, journal>>
    BY <1>15 DEF Stop
  <2> QED
    BY <2>1, <1>r DEF ApplyPC, RestorePC, ForwardPC
<1>16. CASE CannotRemoveNew
  <2>1. Return /\ UNCHANGED <<trash, current, launcher, ledger, journal>>
    BY <1>16 DEF CannotRemoveNew
  <2> QED
    BY <2>1, <1>r DEF ApplyPC, RestorePC, ForwardPC
<1>17. CASE CannotRestoreLauncher
  <2>1. Return /\ UNCHANGED <<trash, current, launcher, ledger, journal>>
    BY <1>17 DEF CannotRestoreLauncher
  <2> QED
    BY <2>1, <1>r DEF ApplyPC, RestorePC, ForwardPC
<1>18. CASE StageRelease
  <2>1. op' \in Op
    BY <1>18, <1>t, <1>j, OpFields DEF StageRelease, Goto
  <2>2. dir' \in [Place -> {"none", "ours", "foreign"}]
    BY <1>18, <1>t, <1>j DEF StageRelease, Goto, TypeOK
  <2>3. Journaled'
    BY <1>18, <1>t DEF StageRelease, Goto, Op, ApplyPC, RestorePC, ForwardPC
  <2> QED
    BY <2>1, <2>2, <2>3, <1>18 DEF StageRelease, Goto, TypeInv, TypeOK
<1>19. CASE WriteJournal
  <2>1. op' \in Op
    BY <1>19, <1>t, <1>j, OpFields DEF WriteJournal, Goto
  <2>2. journal' \in Journal /\ journal' # NoJournal
    BY <1>19, <1>t, <1>j, CaptureType, NoJournalAssumption DEF WriteJournal, Goto
  <2>3. Journaled'
    BY <1>19, <1>t, CaptureType, NoJournalAssumption DEF WriteJournal, Goto, Op, ApplyPC, RestorePC, ForwardPC
  <2> QED
    BY <2>1, <2>2, <2>3, <1>19 DEF WriteJournal, Goto, TypeInv, TypeOK
<1>20. CASE WriteJournalFails
  <2>1. op' \in Op
    BY <1>20, <1>t, <1>j, OpFields DEF WriteJournalFails, Goto
  <2>2. /\ journal' \in Journal \cup {NoJournal}
        /\ dir' \in [Place -> {"none", "ours", "foreign"}]
        /\ trash' \in [Place -> {"none", "ours", "stale"}]
    BY <1>20, <1>t, <1>j, CaptureType, NoJournalAssumption DEF WriteJournalFails, Goto, TypeOK
  <2>3. Journaled'
    BY <1>20, <1>t, CaptureType, NoJournalAssumption DEF WriteJournalFails, Goto, Op, ApplyPC, RestorePC, ForwardPC
  <2> QED
    BY <2>1, <2>2, <2>3, <1>20 DEF WriteJournalFails, Goto, TypeInv, TypeOK
<1>21. CASE Publish
  <2>1. op' \in Op
    BY <1>21, <1>t, <1>j, OpFields DEF Publish, Goto
  <2>2. dir' \in [Place -> {"none", "ours", "foreign"}]
    BY <1>21, <1>t, <1>j DEF Publish, Goto, TypeOK
  <2>3. Journaled'
    BY <1>21, <1>t DEF Publish, Goto, Op, ApplyPC, RestorePC, ForwardPC
  <2> QED
    BY <2>1, <2>2, <2>3, <1>21 DEF Publish, Goto, TypeInv, TypeOK
<1>22. CASE SwitchCurrent
  <2>1. op' \in Op
    BY <1>22, <1>t, <1>j, OpFields DEF SwitchCurrent, GotoWith, NewLaunchers
  <2>2. current' \in Release
    BY <1>22, <1>t, <1>j DEF SwitchCurrent, GotoWith
  <2>3. Journaled'
    BY <1>22, <1>t DEF SwitchCurrent, GotoWith, Op, ApplyPC, RestorePC, ForwardPC
  <2> QED
    BY <2>1, <2>2, <2>3, <1>22 DEF SwitchCurrent, GotoWith, TypeInv, TypeOK
<1>23. CASE WriteLedger
  <2>1. op' \in Op
    BY <1>23, <1>t, <1>j, OpFields DEF WriteLedger, Goto
  <2>2. ledger' \in Ledger
    BY <1>23, <1>t, <1>j DEF WriteLedger, Goto, TypeOK, ApplyPC, RestorePC, ForwardPC
  <2>3. Journaled'
    BY <1>23, <1>t DEF WriteLedger, Goto, Op, ApplyPC, RestorePC, ForwardPC
  <2> QED
    BY <2>1, <2>2, <2>3, <1>23 DEF WriteLedger, Goto, TypeInv, TypeOK
<1>24. CASE RestoreCurrent
  <2>1. op' \in Op
    BY <1>24, <1>t, <1>j, OpFields DEF RestoreCurrent, GotoWith
  <2>2. current' \in Release \cup {NoRelease}
    BY <1>24, <1>t, <1>j DEF RestoreCurrent, GotoWith, TypeOK, ApplyPC, RestorePC, ForwardPC
  <2>3. Journaled'
    BY <1>24, <1>t DEF RestoreCurrent, GotoWith, Op, ApplyPC, RestorePC, ForwardPC
  <2> QED
    BY <2>1, <2>2, <2>3, <1>24 DEF RestoreCurrent, GotoWith, TypeInv, TypeOK
<1>25. CASE RestoreLedger
  <2>1. op' \in Op
    BY <1>25, <1>t, <1>j DEF RestoreLedger, GotoWith, Op, ApplyPC, RestorePC, ForwardPC
  <2>2. ledger' \in Ledger \cup {NoLedger}
    BY <1>25, <1>t, <1>j DEF RestoreLedger, GotoWith, TypeOK, ApplyPC, RestorePC, ForwardPC
  <2>3. Journaled'
    BY <1>25, <1>t DEF RestoreLedger, GotoWith, Op, ApplyPC, RestorePC, ForwardPC
  <2> QED
    BY <2>1, <2>2, <2>3, <1>25 DEF RestoreLedger, GotoWith, TypeInv, TypeOK
<1>26. CASE ClearJournal
  <2>1. op' \in Op
    BY <1>26, <1>t, <1>j DEF ClearJournal, Op
  <2>2. trash' \in [Place -> {"none", "ours", "stale"}]
    BY <1>26, <1>t, <1>j DEF ClearJournal, TypeOK
  <2>3. Journaled'
    BY <1>26, <1>t DEF ClearJournal, Op, ApplyPC, RestorePC, ForwardPC
  <2> QED
    BY <2>1, <2>2, <2>3, <1>26 DEF ClearJournal, TypeInv, TypeOK
<1>27. CASE \E l \in Launcher : LinkLauncher(l)
  <2>1. op' \in Op
    BY <1>27, <1>t, <1>j DEF LinkLauncher, Visited, Op
  <2>2. launcher' \in [Launcher -> LauncherState]
    BY <1>27, <1>t, <1>j DEF LinkLauncher, Visited, LauncherState, TypeOK
  <2>3. Journaled'
    BY <1>27, <1>t DEF LinkLauncher, Visited, LauncherState, Op, ApplyPC, RestorePC, ForwardPC
  <2> QED
    BY <2>1, <2>2, <2>3, <1>27 DEF LinkLauncher, Visited, LauncherState, TypeInv, TypeOK
<1>28. CASE \E l \in Launcher : RestoreLauncher(l)
  <2>1. op' \in Op
    BY <1>28, <1>t, <1>j DEF RestoreLauncher, Visited, Op
  <2>2. launcher' \in [Launcher -> LauncherState]
    BY <1>28, <1>t, <1>j DEF RestoreLauncher, Visited, LauncherState, TypeOK, RestorePC
  <2>3. Journaled'
    BY <1>28, <1>t DEF RestoreLauncher, Visited, LauncherState, Op, ApplyPC, RestorePC, ForwardPC
  <2> QED
    BY <2>1, <2>2, <2>3, <1>28 DEF RestoreLauncher, Visited, LauncherState, TypeInv,
       TypeOK
<1>29. CASE \E p \in Place : MoveToTrash(p)
  <2>1. op' \in Op
    BY <1>29, <1>t, <1>j, OpFields DEF MoveToTrash
  <2>2. /\ dir' \in [Place -> {"none", "ours", "foreign"}]
        /\ trash' \in [Place -> {"none", "ours", "stale"}]
    BY <1>29, <1>t, <1>j DEF MoveToTrash, TypeOK
  <2>3. Journaled'
    BY <1>29, <1>t DEF MoveToTrash, Op, ApplyPC, RestorePC, ForwardPC
  <2> QED
    BY <2>1, <2>2, <2>3, <1>29 DEF MoveToTrash, TypeInv, TypeOK
<1>30. CASE \E p \in Place : EmptyTrash(p)
  <2>1. op' \in Op
    BY <1>30, <1>t, <1>j DEF EmptyTrash, Visited, Op
  <2>2. trash' \in [Place -> {"none", "ours", "stale"}]
    BY <1>30, <1>t, <1>j DEF EmptyTrash, Visited, TypeOK
  <2>3. Journaled'
    BY <1>30, <1>t DEF EmptyTrash, Visited, Op, ApplyPC, RestorePC, ForwardPC
  <2> QED
    BY <2>1, <2>2, <2>3, <1>30 DEF EmptyTrash, Visited, TypeInv, TypeOK
<1>31. CASE Others
  <2>1. op' = op /\ journal' = journal
    BY <1>31 DEF Others, EditLauncher, EditRelease
  <2>2. CASE \E l \in EditedLaunchers : EditLauncher(l)
    BY <2>1, <2>2, EditsAssumption DEF EditLauncher, LauncherState, TypeInv, TypeOK,
       Journaled
  <2>3. CASE \E t \in EditedReleases : EditRelease(t)
    BY <2>1, <2>3, EditsAssumption DEF EditRelease, TypeInv, TypeOK, Journaled
  <2> QED
    BY <2>2, <2>3, <1>31 DEF Others
<1>32. CASE UNCHANGED vars
  BY <1>32, <1>d, <1>t DEF vars, disk, TypeInv, Journaled
<1> QED
  BY <1>1, <1>2, <1>3, <1>4, <1>5, <1>6, <1>7, <1>8, <1>9, <1>10, <1>11, <1>12,
     <1>13, <1>14, <1>15, <1>16, <1>17, <1>18, <1>19, <1>20, <1>21, <1>22, <1>23, <1>24,
     <1>25, <1>26, <1>27, <1>28, <1>29, <1>30, <1>31, <1>32 DEF Next, Activate, Recover,
     Failure

\* The ledger, the journal, the links and what the operation in progress
\* remembers always have the form the code gives them; no step runs that needs
\* a journal and has none.
THEOREM InstallTypeCorrect == Spec => []TypeOK
<1>1. Init => TypeInv
  BY InitType DEF TypeInv, Journaled, Init, ApplyPC, RestorePC, ForwardPC
<1>2. TypeInv => TypeOK
  BY DEF TypeInv
<1> QED
  BY <1>1, <1>2, TypeStep, PTL DEF Spec

-----------------------------------------------------------------------------
(***************************************************************************)
(* CurrentNeverDangles.  Only two kinds of release directories are ever    *)
(* removed: the superseded ones a journal lists and the one it published.  *)
(* The link never names them at those steps, because a journal never lists *)
(* the release it switches to or from, restores the link before it removes *)
(* what it published, and finds the stage gone once that is published.     *)
(***************************************************************************)
\* Up to the journal: what is recorded is what the link names, and a release
\* is staged exactly if it is not there.
PlanInv ==
    /\ op.pc \in {"preflight", "stage", "plan"} => journal = NoJournal
    /\ op.pc \in {"stage", "plan"} /\ ledger # NoLedger => current = ledger.current
    /\ op.pc = "plan" => (dir[Staging] = "ours" <=> dir[op.tag] # "ours")
    /\ journal = NoJournal /\ op.pc # "plan" => dir[Staging] # "ours"

\* What the journal says is right for as long as it is there.
JournalInv ==
    journal # NoJournal =>
        /\ journal.priorCurrent # NoRelease => dir[journal.priorCurrent] = "ours"
        /\ journal.priorCurrent \notin journal.pruned
        /\ journal.next.current \notin journal.pruned
        /\ journal.created => journal.priorCurrent # journal.next.current
        /\ dir[Staging] = "ours" => journal.created /\ dir[journal.next.current] # "ours"

\* Which of its two releases the link names at each step.
LinkInv ==
    /\ op.pc \in ApplyPC => op.tag = journal.next.current
    /\ op.pc = "switch" => dir[op.tag] = "ours"
    /\ op.pc \in {"link", "ledger", "commit", "prune", "clear"} =>
           current = journal.next.current
    /\ op.pc = "prune" => op.todo \subseteq journal.pruned
    /\ op.pc \in {"restoreLaunchers", "restoreLedger", "removeNew", "restored"} =>
           current = journal.priorCurrent

\* The stage is removed before what was published, and both before the journal.
RemovalInv ==
    /\ op.pc = "removeNew" =>
           /\ op.todo \subseteq {Staging, journal.next.current}
           /\ op.todo # {} => journal.created
           /\ Staging \notin op.todo => dir[Staging] # "ours"
    /\ op.pc \in {"restored", "clear"} => dir[Staging] # "ours"

LinkedInv == TypeInv /\ CurrentNeverDangles /\ PlanInv /\ JournalInv /\ LinkInv /\ RemovalInv

\* A journal neither lists the release the link names nor the one it is to name.
LEMMA CaptureFacts ==
    ASSUME LinkedInv, op.pc = "plan"
    PROVE  LET c == Capture(op.tag) IN
           /\ c.priorCurrent = current /\ c.next.current = op.tag
           /\ c.created <=> dir[Staging] = "ours"
           /\ current \notin c.pruned /\ op.tag \notin c.pruned
<1>1. Prunable(op.tag) \subseteq Superseded(op.tag)
  BY DEF Prunable
<1>2. op.tag \notin Superseded(op.tag)
  BY DEF Superseded
<1>3. current \notin Superseded(op.tag)
  BY DEF Superseded, OwnedReleases, PreviousOf, LinkedInv, PlanInv
<1> QED
  BY <1>1, <1>2, <1>3 DEF Capture, NextLedger

LEMMA LinkedStep == LinkedInv /\ [Next]_vars => LinkedInv'
<1> SUFFICES ASSUME LinkedInv, [Next]_vars PROVE LinkedInv'
  OBVIOUS
<1> USE PlaceFacts
<1>0. TypeInv'
  BY TypeStep DEF LinkedInv
<1>t. /\ op \in Op /\ op.pc \in OpPC /\ op.todo \in SUBSET (Launcher \cup Place) /\ op.tag \in Release
      /\ current \in Release \cup {NoRelease}
      /\ dir \in [Place -> {"none", "ours", "foreign"}]
  BY DEF LinkedInv, TypeInv, TypeOK, Op
<1>j. journal # NoJournal =>
        /\ journal.priorCurrent \in Release \cup {NoRelease}
        /\ journal.next.current \in Release
        /\ journal.pruned \in SUBSET Release
  BY DEF LinkedInv, TypeInv, TypeOK, Journal, Ledger
<1> USE DEF LinkedInv, TypeInv, Journaled, CurrentNeverDangles, PlanInv, JournalInv,
            LinkInv, RemovalInv, ApplyPC, RestorePC, ForwardPC, Op, disk
<1>1. CASE Started
  BY <1>1, <1>0, <1>t, <1>j DEF Started, Begin
<1>2. CASE PreflightInstall
  BY <1>2, <1>0, <1>t, <1>j DEF PreflightInstall, CanInstall, Goto, Intact
<1>3. CASE PreflightRollback
  <2>1. ledger # NoLedger /\ ledger.previous \in Release
    BY <1>3, NoneAssumption DEF PreflightRollback, CanRollBack, TypeOK, Ledger
  <2> QED
    BY <1>3, <1>0, <1>t, <2>1 DEF PreflightRollback, CanRollBack, Intact
<1>4. CASE StageRelease
  BY <1>4, <1>0, <1>t, <1>j DEF StageRelease, CanStage, Goto
<1>5. CASE Refuse
  BY <1>5, <1>0, <1>t, <1>j DEF Refuse, Return
<1>6. CASE Stop
  BY <1>6, <1>0, <1>t, <1>j DEF Stop, Return
<1>7. CASE WriteJournal
  <2> DEFINE c == Capture(op.tag)
  <2>1. op.pc = "plan" /\ journal = NoJournal
    BY <1>7 DEF WriteJournal
  <2>2. /\ c.priorCurrent = current /\ c.next.current = op.tag
        /\ c.created <=> dir[Staging] = "ours"
        /\ current \notin c.pruned /\ op.tag \notin c.pruned
    BY <2>1, CaptureFacts
  <2> HIDE DEF c
  <2>3. journal' = c \/ journal' = NoJournal
    BY <1>7, <2>1 DEF WriteJournal, c
  <2> QED
    BY <1>7, <1>0, <1>t, <2>1, <2>2, <2>3 DEF WriteJournal, Goto
<1>8. CASE WriteJournalFails
  <2> DEFINE c == Capture(op.tag)
  <2>1. op.pc = "plan" /\ journal = NoJournal
    BY <1>8 DEF WriteJournalFails
  <2>2. /\ c.priorCurrent = current /\ c.next.current = op.tag
        /\ c.created <=> dir[Staging] = "ours"
        /\ current \notin c.pruned /\ op.tag \notin c.pruned
    BY <2>1, CaptureFacts
  <2>3. /\ \/ journal' = NoJournal /\ dir' = [dir EXCEPT ![Staging] = "none"]
           \/ /\ journal' = c /\ c # NoJournal
              /\ dir' \in {dir, [dir EXCEPT ![Staging] = "none"]}
        /\ op' = [op EXCEPT !.pc = "idle"] /\ UNCHANGED <<current, ledger>>
    BY <1>8, <1>t, <2>1, CaptureType, NoJournalAssumption DEF WriteJournalFails, Goto
  <2> HIDE DEF c
  <2> QED
    BY <1>0, <1>t, <2>1, <2>2, <2>3
<1>9. CASE Publish
  BY <1>9, <1>0, <1>t, <1>j DEF Publish, Goto
<1>10. CASE SwitchCurrent
  BY <1>10, <1>0, <1>t, <1>j DEF SwitchCurrent, GotoWith
<1>11. CASE \E l \in Launcher : LinkLauncher(l)
  BY <1>11, <1>0, <1>t, <1>j DEF LinkLauncher, Visited
<1>12. CASE Linked
  BY <1>12, <1>0, <1>t, <1>j DEF Linked, Goto
<1>13. CASE WriteLedger
  BY <1>13, <1>0, <1>t, <1>j DEF WriteLedger, Goto
<1>14. CASE Commit
  BY <1>14, <1>0, <1>t, <1>j DEF Commit, GotoWith
<1>15. CASE Fail
  BY <1>15, <1>0, <1>t, <1>j DEF Fail, GotoWith
<1>16. CASE NothingToRecover
  BY <1>16, <1>0, <1>t, <1>j DEF NothingToRecover, Goto
<1>17. CASE RecoverForward
  BY <1>17, <1>0, <1>t, <1>j DEF RecoverForward, Complete
<1>18. CASE RecoverBack
  BY <1>18, <1>0, <1>t, <1>j DEF RecoverBack
<1>19. CASE RestoreCurrent
  BY <1>19, <1>0, <1>t, <1>j DEF RestoreCurrent, GotoWith
<1>20. CASE \E l \in Launcher : RestoreLauncher(l)
  BY <1>20, <1>0, <1>t, <1>j DEF RestoreLauncher, Visited
<1>21. CASE LaunchersRestored
  BY <1>21, <1>0, <1>t, <1>j DEF LaunchersRestored, Goto
<1>22. CASE RestoreLedger
  BY <1>22, <1>0, <1>t, <1>j DEF RestoreLedger, GotoWith
<1>23. CASE \E p \in Place : MoveToTrash(p)
  BY <1>23, <1>0, <1>t, <1>j DEF MoveToTrash, NextArtifact
<1>24. CASE \E p \in Place : EmptyTrash(p)
  BY <1>24, <1>0, <1>t, <1>j DEF EmptyTrash, NextArtifact, Visited
<1>25. CASE \E p \in Place : PruneFails(p)
  BY <1>25, <1>0, <1>t, <1>j DEF PruneFails
<1>26. CASE CannotRemoveNew
  BY <1>26, <1>0, <1>t, <1>j DEF CannotRemoveNew, Return
<1>27. CASE CannotRestoreLauncher
  BY <1>27, <1>0, <1>t, <1>j DEF CannotRestoreLauncher, Return
<1>28. CASE Pruned
  BY <1>28, <1>0, <1>t, <1>j DEF Pruned, Goto
<1>29. CASE NewRemoved
  BY <1>29, <1>0, <1>t, <1>j DEF NewRemoved, Goto
<1>30. CASE ClearJournal
  BY <1>30, <1>0, <1>t, <1>j DEF ClearJournal
<1>31. CASE Others
  BY <1>31, <1>0, <1>t, <1>j, EditsAssumption DEF Others, EditLauncher, EditRelease
<1>32. CASE UNCHANGED vars
  BY <1>32, <1>0, <1>t, <1>j DEF vars
<1> QED
  BY <1>1, <1>2, <1>3, <1>4, <1>5, <1>6, <1>7, <1>8, <1>9, <1>10, <1>11, <1>12,
     <1>13, <1>14, <1>15, <1>16, <1>17, <1>18, <1>19, <1>20, <1>21, <1>22, <1>23, <1>24,
     <1>25, <1>26, <1>27, <1>28, <1>29, <1>30, <1>31, <1>32 DEF Next, Activate, Recover,
     Failure

LEMMA LinkedInit == Init => LinkedInv
<1> SUFFICES ASSUME Init PROVE LinkedInv
  OBVIOUS
<1>1. TypeInv
  BY InitType DEF TypeInv, Journaled, Init, ApplyPC, RestorePC, ForwardPC
<1>2. op.pc = "idle" /\ journal = NoJournal
  BY DEF Init
<1>3. dir[Staging] # "ours" /\ CurrentNeverDangles
  <2>1. CASE FreshInit
    BY <2>1, PlaceFacts DEF FreshInit, CurrentNeverDangles
  <2>2. CASE OldInit
    BY <2>2, <1>1, PlaceFacts DEF OldInit, CurrentNeverDangles, TypeInv, TypeOK
  <2> QED
    BY <2>1, <2>2 DEF Init
<1> QED
  BY <1>1, <1>2, <1>3 DEF LinkedInv, PlanInv, JournalInv, LinkInv, RemovalInv, ApplyPC

\* Whatever step of an installation, of an upgrade, of a rollback or of a
\* recovery fails or is cut off, and whatever others do to launchers and release
\* paths, `current` names a release that is there.
THEOREM CurrentPublished == Spec => []CurrentNeverDangles
<1>1. Init => LinkedInv
  BY LinkedInit
<1>2. LinkedInv => CurrentNeverDangles
  BY DEF LinkedInv
<1> QED
  BY <1>1, <1>2, LinkedStep, PTL DEF Spec

-----------------------------------------------------------------------------
(***************************************************************************)
(* Consistent and NothingForgotten, where nobody else changes a launcher.  *)
(* A journal is at every moment either complete, and then only superseded  *)
(* releases are still to be removed, or what was before it can be put back *)
(* from what it says.                                                      *)
(***************************************************************************)
WellFormed(l) ==
    /\ l.previous # l.current /\ l.files = LauncherOf(l.schema)
    /\ l.current \in l.releases /\ (l.previous # NoRelease => l.previous \in l.releases)

Owned(l) == IF l = NoLedger THEN {} ELSE l.releases

\* Without a journal the ledger says what there is, and all that is ours.
SettledInv ==
    journal = NoJournal =>
        /\ IF ledger = NoLedger THEN Unoccupied ELSE Intact(ledger) /\ WellFormed(ledger)
        /\ \A t \in Release : trash[t] = "none" /\ (dir[t] = "ours" => t \in Owned(ledger))

\* What was before the journal is still there to go back to.
Undoable ==
    /\ journal.prior # NoLedger =>
          \A t \in {journal.prior.current, journal.prior.previous} \ {NoRelease} :
              dir[t] = "ours"
    /\ \A t \in journal.pruned : trash[t] = "none"

\* The journal describes a state that was settled and one that will be, ...
PriorInv ==
    journal # NoJournal =>
        /\ journal.prior = NoLedger =>
              journal.priorCurrent = NoRelease
                  /\ \A l \in Launcher : journal.priorLauncher[l] = "none"
        /\ journal.prior # NoLedger =>
              /\ WellFormed(journal.prior) /\ journal.priorCurrent = journal.prior.current
              /\ journal.prior.files \subseteq Launcher
              /\ \A l \in journal.prior.files : journal.priorLauncher[l] = "ours"
              /\ journal.created =>
                    journal.next.current \notin {journal.prior.current, journal.prior.previous}

NextInv ==
    journal # NoJournal =>
        /\ WellFormed(journal.next) /\ journal.next.schema = 3
        /\ journal.next.previous # NoRelease =>
              dir[journal.next.previous] = "ours" /\ journal.next.previous \notin journal.pruned
        /\ ledger \in {journal.prior, journal.next}
        /\ Complete(journal) \/ Undoable

\* ... and accounts for all that is ours.
OwnedInv ==
    journal # NoJournal =>
        \A t \in Release :
            /\ trash[t] # "stale"
            /\ trash[t] = "ours" =>
                  \/ t \in journal.pruned
                  \/ t = journal.next.current /\ journal.created /\ dir[t] # "ours"
            /\ dir[t] = "ours" =>
                  /\ t \in journal.next.releases \cup journal.pruned
                  /\ t \in Owned(journal.prior) \/ (t = journal.next.current /\ journal.created)

\* How far the operation has come.
ProgressInv ==
    /\ op.pc \in ApplyPC \cup RestorePC => Undoable
    /\ op.pc \in ApplyPC => \A t \in Release : trash[t] = "none"
    /\ op.pc = "publish" => journal.created
    /\ op.pc \in {"publish", "switch"} => launcher = journal.priorLauncher
    /\ op.pc = "link" => \A l \in Launcher \ op.todo : launcher[l] = "ours"
    /\ op.pc \in {"ledger", "commit"} => \A l \in Launcher : launcher[l] = "ours"
    /\ op.pc = "commit" => ledger = journal.next
    /\ op.pc \in {"prune", "clear"} => Complete(journal)
    /\ op.pc = "prune" =>
          \A t \in journal.pruned :
              t \in op.todo \/ op.warned \/ (dir[t] # "ours" /\ trash[t] = "none")
    /\ op.pc = "clear" => \A t \in journal.pruned : dir[t] # "ours" /\ trash[t] = "none"
    /\ op.pc = "restoreLaunchers" =>
          \A l \in Launcher \ op.todo : launcher[l] = journal.priorLauncher[l]
    /\ op.pc \in {"restoreLedger", "removeNew", "restored"} =>
          launcher = journal.priorLauncher
    /\ op.pc \in {"removeNew", "restored"} => ledger = journal.prior
    /\ op.pc \in {"removeNew", "restored"} /\ journal.created =>
          \/ op.pc = "removeNew" /\ journal.next.current \in op.todo
          \/ dir[journal.next.current] # "ours" /\ trash[journal.next.current] = "none"

\* A step that touches at most the stage keeps what is said of the disk.
DiskInv == SettledInv /\ PriorInv /\ NextInv /\ OwnedInv

StageOnly ==
    /\ UNCHANGED <<current, launcher, ledger, journal>>
    /\ \A t \in Release : dir'[t] = dir[t] /\ trash'[t] = trash[t]

LEMMA StageOnlyKeeps == ASSUME LinkedInv, DiskInv, StageOnly PROVE DiskInv'
<1> USE DEF StageOnly, DiskInv
<1>1. journal # NoJournal =>
        /\ journal.next.current \in Release /\ journal.pruned \subseteq Release
        /\ journal.next.previous \in Release \cup {NoRelease}
        /\ journal.prior # NoLedger =>
              /\ journal.prior.current \in Release
              /\ journal.prior.previous \in Release \cup {NoRelease}
  BY DEF LinkedInv, TypeInv, TypeOK, Journal, Ledger
<1>2. ledger # NoLedger =>
        ledger.current \in Release /\ ledger.previous \in Release \cup {NoRelease}
  BY DEF LinkedInv, TypeInv, TypeOK, Ledger
<1>3. SettledInv'
  BY <1>2 DEF SettledInv, Unoccupied, Intact
<1>4. PriorInv'
  BY <1>1 DEF PriorInv
<1>5. NextInv'
  BY <1>1 DEF NextInv, Complete, Undoable
<1>6. OwnedInv'
  BY <1>1 DEF OwnedInv
<1> QED
  BY <1>3, <1>4, <1>5, <1>6

\* What a journal is written with.
LEMMA CaptureKept ==
    ASSUME LinkedInv, DiskInv, op.pc = "plan", CanCapture, journal' = Capture(op.tag),
           UNCHANGED <<current, launcher, ledger>>,
           \A t \in Release : dir'[t] = dir[t] /\ trash'[t] = trash[t]
    PROVE  /\ DiskInv' /\ Undoable' /\ journal' # NoJournal
           /\ journal'.priorLauncher = launcher
           /\ journal'.created <=> dir[Staging] = "ours"
           /\ \A t \in Release : trash'[t] = "none"
<1> DEFINE c == Capture(op.tag)
<1> DEFINE gone == {r \in Superseded(op.tag) : dir[r] # "foreign"}
<1>t. /\ op.tag \in Release /\ journal = NoJournal /\ c \in Journal /\ c # NoJournal
      /\ ledger \in Ledger \cup {NoLedger} /\ NoLedger \notin Ledger
      /\ ledger # NoLedger => /\ ledger.current \in Release /\ ledger.releases \in SUBSET Release
                              /\ ledger.previous \in Release \cup {NoRelease}
                              /\ ledger.files \in SUBSET Launcher
      /\ journal' = c
  BY CaptureType, NoJournalAssumption, NoneAssumption
     DEF LinkedInv, PlanInv, TypeInv, TypeOK, Op, Ledger
<1>s. /\ IF ledger = NoLedger THEN Unoccupied ELSE Intact(ledger) /\ WellFormed(ledger)
      /\ \A t \in Release : trash[t] = "none" /\ (dir[t] = "ours" => t \in Owned(ledger))
  BY <1>t DEF DiskInv, SettledInv
<1>c. /\ c.prior = ledger /\ c.priorCurrent = current /\ c.priorLauncher = launcher
      /\ c.created <=> dir[Staging] = "ours"
      /\ c.next = NextLedger(op.tag) /\ c.pruned = Prunable(op.tag)
      /\ dir[Staging] = "ours" <=> dir[op.tag] # "ours"
  BY <1>t DEF Capture, LinkedInv, PlanInv
<1>n. /\ c.next.schema = 3 /\ c.next.current = op.tag /\ c.next.previous = PreviousOf(op.tag)
      /\ c.next.releases = (OwnedReleases \cup {op.tag}) \ gone
      /\ c.next.files = Launcher
  BY <1>c DEF NextLedger
<1>p. /\ PreviousOf(op.tag) # op.tag
      /\ PreviousOf(op.tag) \notin Superseded(op.tag) /\ op.tag \notin Superseded(op.tag)
      /\ PreviousOf(op.tag) # NoRelease =>
            /\ PreviousOf(op.tag) \in OwnedReleases
            /\ dir[PreviousOf(op.tag)] = "ours"
  BY <1>s, <1>t, PlaceFacts DEF PreviousOf, Superseded, OwnedReleases, Intact, WellFormed
<1>u. Prunable(op.tag) \subseteq gone /\ OwnedReleases = Owned(ledger)
      /\ \A r \in gone : dir[r] = "ours" => r \in Prunable(op.tag)
  BY DEF Prunable, OwnedReleases, Owned
<1> HIDE DEF c
<1>o. Owned(ledger) \subseteq Release
  BY <1>t DEF Owned
<1>1. SettledInv'
  BY <1>t DEF SettledInv
<1>2. PriorInv'
  <2>1. c.prior = NoLedger => c.priorCurrent = NoRelease
                              /\ \A l \in Launcher : c.priorLauncher[l] = "none"
    BY <1>s, <1>c DEF Unoccupied
  <2>2. c.prior # NoLedger =>
          /\ WellFormed(c.prior) /\ c.priorCurrent = c.prior.current
          /\ c.prior.files \subseteq Launcher
          /\ \A l \in c.prior.files : c.priorLauncher[l] = "ours"
    BY <1>s, <1>c, <1>t DEF Intact, WellFormed
  <2>3. c.prior # NoLedger /\ c.created =>
          c.next.current \notin {c.prior.current, c.prior.previous}
    BY <1>s, <1>c, <1>n, <1>t, PlaceFacts DEF Intact
  <2> QED
    BY <1>t, <2>1, <2>2, <2>3 DEF PriorInv
<1>3. Undoable'
  <2>1. \A t \in Prunable(op.tag) : trash'[t] = "none"
    BY <1>s, <1>u, <1>o DEF Superseded, Prunable
  <2>2. ledger # NoLedger => \A t \in {ledger.current, ledger.previous} \ {NoRelease} :
                               dir'[t] = "ours"
    BY <1>s, <1>t DEF Intact
  <2> QED
    BY <1>t, <1>c, <2>1, <2>2 DEF Undoable
<1>4. NextInv'
  <2>1. WellFormed(c.next)
    BY <1>n, <1>p, <1>u DEF WellFormed, LauncherOf, Superseded
  <2>2. c.next.previous # NoRelease =>
          dir'[c.next.previous] = "ours" /\ c.next.previous \notin c.pruned
    BY <1>n, <1>p, <1>u, <1>c, <1>o DEF Prunable
  <2> QED
    BY <1>t, <1>c, <1>n, <1>3, <2>1, <2>2 DEF NextInv
<1>5. OwnedInv'
  BY <1>t, <1>s, <1>c, <1>n, <1>u, <1>p DEF OwnedInv
<1> QED
  BY <1>1, <1>2, <1>3, <1>4, <1>5, <1>t, <1>c, <1>s DEF DiskInv

\* Links and ledger go to and fro between the two states of the journal.
JournalStep ==
    /\ journal # NoJournal /\ UNCHANGED <<dir, trash, journal>>
    /\ ledger' \in {ledger, journal.prior, journal.next}

LEMMA JournalStepKeeps == ASSUME DiskInv, Undoable, JournalStep PROVE DiskInv' /\ Undoable'
<1>1. Undoable'
  BY DEF JournalStep, Undoable
<1>2. SettledInv' /\ PriorInv' /\ OwnedInv'
  BY DEF JournalStep, DiskInv, SettledInv, PriorInv, OwnedInv
<1>3. NextInv'
  BY <1>1 DEF JournalStep, DiskInv, NextInv
<1> QED
  BY <1>1, <1>2, <1>3 DEF DiskInv

\* A release goes, in two steps: a superseded one of a complete journal, or the
\* new one of a journal that is undone.
LEMMA RemovalKeeps ==
    ASSUME LinkedInv, DiskInv, ProgressInv, NEW p \in Place, MoveToTrash(p) \/ EmptyTrash(p)
    PROVE  /\ DiskInv'
           /\ op.pc = "removeNew" => Undoable'
           /\ op.pc = "prune" => Complete(journal)'
<1> USE PlaceFacts DEF NextArtifact
<1>t. /\ op.pc \in {"removeNew", "prune"} /\ p \in op.todo /\ journal # NoJournal
      /\ dir \in [Place -> {"none", "ours", "foreign"}]
      /\ trash \in [Place -> {"none", "ours", "stale"}]
      /\ UNCHANGED <<current, launcher, ledger, journal>>
  BY DEF MoveToTrash, EmptyTrash, LinkedInv, TypeInv, TypeOK, Journaled, RestorePC, ForwardPC
<1>j. /\ journal.next.current \in Release /\ journal.pruned \subseteq Release
      /\ journal.next.previous \in Release \cup {NoRelease}
      /\ journal.prior # NoLedger =>
            /\ journal.prior.current \in Release
            /\ journal.prior.previous \in Release \cup {NoRelease}
  BY <1>t DEF LinkedInv, TypeInv, TypeOK, Journal, Ledger
<1>d. /\ \A t \in Place \ {p} : dir'[t] = dir[t] /\ trash'[t] = trash[t]
      /\ dir'[p] = "none"
      /\ (trash'[p] = "ours" /\ dir[p] = "ours") \/ trash'[p] = "none"
  BY <1>t DEF MoveToTrash, EmptyTrash
<1>p. /\ op.pc = "prune" => p \in journal.pruned /\ Complete(journal)
      /\ op.pc = "removeNew" => /\ p \in {Staging, journal.next.current} /\ journal.created
                                /\ Undoable
      /\ journal.next.current \notin journal.pruned
  BY <1>t DEF LinkedInv, LinkInv, RemovalInv, JournalInv, ProgressInv, RestorePC
<1>x. /\ WellFormed(journal.next)
      /\ journal.next.previous # NoRelease =>
              dir[journal.next.previous] = "ours" /\ journal.next.previous \notin journal.pruned
  BY <1>t DEF DiskInv, NextInv
<1>1. SettledInv' /\ PriorInv'
  BY <1>t DEF DiskInv, SettledInv, PriorInv
<1>2. op.pc = "removeNew" => Undoable'
  BY <1>t, <1>j, <1>d, <1>p DEF DiskInv, PriorInv, Undoable
<1>3. op.pc = "prune" => Complete(journal)'
  BY <1>t, <1>j, <1>d, <1>p DEF Complete
<1>4. NextInv'
  <2>1. journal.next.previous # NoRelease => p # journal.next.previous
    BY <1>t, <1>p, <1>j, <1>x DEF WellFormed
  <2> QED
    BY <1>t, <1>j, <1>d, <1>x, <1>2, <1>3, <2>1 DEF DiskInv, NextInv
<1>5. OwnedInv'
  <2>1. ASSUME NEW t \in Release, t # p
        PROVE  dir'[t] = dir[t] /\ trash'[t] = trash[t]
    BY <1>d, <2>1
  <2> QED
    BY <1>t, <1>j, <1>d, <1>p, <2>1 DEF DiskInv, OwnedInv
<1> QED
  BY <1>1, <1>2, <1>3, <1>4, <1>5 DEF DiskInv

\* The journal is taken away when one of its two states is there again, whole.
LEMMA ClearKeeps ==
    ASSUME LinkedInv, DiskInv, ProgressInv, ClearJournal
    PROVE  DiskInv'
<1> USE PlaceFacts
<1>t. /\ op.pc \in {"clear", "restored"} /\ journal # NoJournal /\ journal' = NoJournal
      /\ trash \in [Place -> {"none", "ours", "stale"}]
      /\ UNCHANGED <<dir, current, launcher, ledger>>
      /\ \A t \in Release : trash[t] = "none" => trash'[t] = "none"
  BY DEF ClearJournal, LinkedInv, TypeInv, TypeOK, Journaled, RestorePC, ForwardPC
<1>j. /\ journal.next \in Ledger /\ journal.next # NoLedger
      /\ journal.next.current \in Release
      /\ journal.priorLauncher \in [Launcher -> LauncherState]
      /\ journal.next.files \subseteq Launcher
  BY <1>t, NoneAssumption DEF LinkedInv, TypeInv, TypeOK, Journal, Ledger
<1>1. PriorInv' /\ NextInv' /\ OwnedInv'
  BY <1>t DEF PriorInv, NextInv, OwnedInv
<1>2. CASE op.pc = "clear"
  <2>1. /\ Complete(journal) /\ WellFormed(journal.next) /\ journal.next.schema = 3
        /\ journal.next.previous # NoRelease => dir[journal.next.previous] = "ours"
        /\ \A t \in journal.pruned : dir[t] # "ours" /\ trash[t] = "none"
    BY <1>2, <1>t DEF ProgressInv, DiskInv, NextInv
  <2>2. Intact(ledger)' /\ WellFormed(ledger)' /\ ledger' # NoLedger
    BY <1>t, <1>j, <2>1 DEF Complete, Intact, WellFormed, LauncherOf
  <2>3. \A t \in Release : trash[t] = "none" /\ (dir[t] = "ours" => t \in Owned(ledger))
    BY <1>t, <1>j, <2>1 DEF DiskInv, OwnedInv, Complete, Owned
  <2> QED
    BY <1>1, <1>t, <2>2, <2>3 DEF DiskInv, SettledInv, Owned
<1>3. CASE op.pc = "restored"
  <2>1. /\ launcher = journal.priorLauncher /\ ledger = journal.prior /\ Undoable
        /\ current = journal.priorCurrent
        /\ journal.created => /\ dir[journal.next.current] # "ours"
                              /\ trash[journal.next.current] = "none"
    BY <1>3, <1>t DEF ProgressInv, RestorePC, LinkedInv, LinkInv
  <2>2. IF ledger = NoLedger THEN Unoccupied ELSE Intact(ledger) /\ WellFormed(ledger)
    <3>1. CASE ledger = NoLedger
      BY <1>t, <2>1, <3>1 DEF DiskInv, PriorInv, Unoccupied
    <3>2. CASE ledger # NoLedger
      BY <1>t, <2>1, <3>2 DEF DiskInv, PriorInv, Intact, WellFormed, Undoable
    <3> QED
      BY <3>1, <3>2
  <2>3. \A t \in Release : trash[t] = "none" /\ (dir[t] = "ours" => t \in Owned(ledger))
    BY <1>t, <1>j, <2>1 DEF DiskInv, OwnedInv, Undoable
  <2> QED
    BY <1>1, <1>t, <2>2, <2>3 DEF DiskInv, SettledInv, Owned, Intact, Unoccupied, WellFormed
<1> QED
  BY <1>t, <1>2, <1>3

\* Every step keeps what is said of the disk and how far the operation has come.
LEMMA KeptStep ==
    EditedLaunchers = {} /\ LinkedInv /\ DiskInv /\ ProgressInv /\ [Next]_vars
        => DiskInv' /\ ProgressInv'
<1> SUFFICES ASSUME EditedLaunchers = {}, LinkedInv, DiskInv, ProgressInv, [Next]_vars
             PROVE  DiskInv' /\ ProgressInv'
  OBVIOUS
<1> USE PlaceFacts, NoJournalAssumption
<1>t. /\ op \in Op /\ op.todo \in SUBSET (Launcher \cup Place) /\ op.tag \in Release
      /\ dir \in [Place -> {"none", "ours", "foreign"}]
      /\ trash \in [Place -> {"none", "ours", "stale"}]
      /\ launcher \in [Launcher -> LauncherState]
      /\ ledger # NoLedger => /\ ledger.current \in Release
                              /\ ledger.previous \in Release \cup {NoRelease}
  BY DEF LinkedInv, TypeInv, TypeOK, Op, Ledger
<1>j. journal # NoJournal =>
        /\ journal.next.current \in Release /\ journal.pruned \subseteq Release
        /\ journal.next.previous \in Release \cup {NoRelease}
        /\ journal.next \in Ledger /\ journal.next # NoLedger
        /\ journal.priorLauncher \in [Launcher -> LauncherState]
        /\ journal.prior # NoLedger =>
              /\ journal.prior.current \in Release
              /\ journal.prior.previous \in Release \cup {NoRelease}
  BY NoneAssumption DEF LinkedInv, TypeInv, TypeOK, Journal, Ledger
<1>k. op.pc \in ApplyPC \cup RestorePC \cup ForwardPC => journal # NoJournal
  BY DEF LinkedInv, TypeInv, Journaled
<1>q. /\ UNCHANGED disk => /\ DiskInv' /\ (Undoable => Undoable')
                         /\ (Complete(journal) => Complete(journal)')
      /\ op'.pc \in {"idle", "recover", "preflight", "stage", "plan"} => ProgressInv'
  <2>1. UNCHANGED disk => StageOnly
    BY DEF disk, StageOnly
  <2>2. UNCHANGED disk => (Undoable => Undoable') /\ (Complete(journal) => Complete(journal)')
    BY DEF disk, Undoable, Complete
  <2>3. op'.pc \in {"idle", "recover", "preflight", "stage", "plan"} => ProgressInv'
    BY DEF ProgressInv, ApplyPC, RestorePC
  <2> QED
    BY <2>1, <2>2, <2>3, StageOnlyKeeps
<1>r. Return => op'.pc = "idle" /\ \A t \in Release : dir'[t] = dir[t]
  BY <1>t DEF Return, Op
<1>1. CASE Started \/ PreflightInstall \/ PreflightRollback \/ NothingToRecover
  <2>1. UNCHANGED disk
    BY <1>1 DEF Started, Begin, PreflightInstall, PreflightRollback, NothingToRecover
  <2>2. Started => op'.pc = "recover"
    BY DEF Started, Begin
  <2>3. (PreflightInstall => op'.pc = "stage") /\ (NothingToRecover => op'.pc = "preflight")
    BY <1>t DEF PreflightInstall, NothingToRecover, Goto, Op
  <2>4. PreflightRollback => op'.pc = "plan"
    BY <1>t DEF PreflightRollback, Op
  <2> QED
    BY <1>1, <2>1, <2>2, <2>3, <2>4, <1>q
<1>2. CASE StageRelease
  <2>1. StageOnly /\ op'.pc = "plan"
    BY <1>2, <1>t DEF StageRelease, Goto, Op, StageOnly
  <2> QED
    BY <2>1, <1>q, StageOnlyKeeps
<1>3. CASE Refuse \/ Stop \/ CannotRemoveNew \/ CannotRestoreLauncher
  <2>1. StageOnly /\ op'.pc = "idle"
    BY <1>3, <1>r DEF Refuse, Stop, CannotRemoveNew, CannotRestoreLauncher, StageOnly
  <2> QED
    BY <2>1, <1>q, StageOnlyKeeps
<1>4. CASE WriteJournal
  <2>1. /\ op.pc = "plan" /\ op'.pc \in {"publish", "switch"}
        /\ DiskInv' /\ Undoable' /\ journal'.priorLauncher = launcher /\ launcher' = launcher
        /\ \A t \in Release : trash'[t] = "none"
        /\ op'.pc = "publish" => journal'.created
    BY <1>4, <1>t, CaptureKept DEF WriteJournal, Goto, Op
  <2> QED
    BY <2>1 DEF ProgressInv
<1>5. CASE WriteJournalFails
  <2>1. /\ op.pc = "plan" /\ op'.pc = "idle" /\ UNCHANGED <<current, launcher, ledger>>
        /\ \A t \in Release : dir'[t] = dir[t] /\ trash'[t] = trash[t]
        /\ journal' = journal \/ (CanCapture /\ journal' = Capture(op.tag))
    BY <1>5, <1>t DEF WriteJournalFails, Goto, Op
  <2>2. StageOnly \/ DiskInv'
    BY <2>1, CaptureKept DEF StageOnly
  <2> QED
    BY <2>1, <2>2, <1>q, StageOnlyKeeps
<1>6. CASE Publish
  <2>1. /\ op.pc = "publish" /\ op'.pc = "switch" /\ journal # NoJournal
        /\ op.tag = journal.next.current /\ dir[op.tag] = "none"
        /\ dir'[op.tag] = "ours" /\ \A t \in Release \ {op.tag} : dir'[t] = dir[t]
        /\ UNCHANGED <<trash, current, launcher, ledger, journal>>
    BY <1>6, <1>t, <1>k DEF Publish, Goto, Op, LinkedInv, LinkInv, ApplyPC
  <2>2. journal.created /\ Undoable /\ (\A t \in Release : trash[t] = "none")
        /\ launcher = journal.priorLauncher
    BY <2>1 DEF ProgressInv, ApplyPC
  <2>3. SettledInv' /\ PriorInv'
    BY <2>1 DEF DiskInv, SettledInv, PriorInv
  <2>4. Undoable'
    BY <2>1, <2>2, <1>j DEF Undoable
  <2>5. NextInv'
    BY <2>1, <2>4, <1>j DEF DiskInv, NextInv
  <2>6. OwnedInv'
    <3>1. op.tag \in journal.next.releases
      BY <2>1 DEF DiskInv, NextInv, WellFormed
    <3> QED
      BY <2>1, <2>2, <3>1 DEF DiskInv, OwnedInv
  <2> QED
    BY <2>1, <2>2, <2>3, <2>4, <2>5, <2>6 DEF DiskInv, ProgressInv
<1>7. CASE SwitchCurrent
  <2>1. op.pc = "switch" /\ op'.pc = "link" /\ op'.todo = NewLaunchers
        /\ UNCHANGED <<dir, trash, launcher, ledger, journal>> /\ journal # NoJournal
    BY <1>7, <1>t, <1>k DEF SwitchCurrent, GotoWith, Op, ApplyPC
  <2>2. DiskInv' /\ Undoable'
    BY <2>1, JournalStepKeeps DEF JournalStep, ProgressInv, ApplyPC
  <2>3. \A l \in Launcher \ NewLaunchers : launcher[l] = "ours"
    BY <2>1 DEF ProgressInv, NewLaunchers, OwnedFiles, DiskInv, PriorInv
  <2>4. \A t \in Release : trash[t] = "none"
    BY <2>1 DEF ProgressInv, ApplyPC
  <2> QED
    BY <2>1, <2>2, <2>3, <2>4 DEF ProgressInv
<1>8. CASE \E l \in Launcher : LinkLauncher(l)
  <2>1. PICK l \in Launcher : LinkLauncher(l)
    BY <1>8
  <2>2. /\ op.pc = "link" /\ op'.pc = "link" /\ op'.todo = op.todo \ {l} /\ launcher'[l] = "ours"
        /\ \A k \in Launcher \ {l} : launcher'[k] = launcher[k]
        /\ UNCHANGED <<dir, trash, ledger, journal>> /\ journal # NoJournal
    BY <2>1, <1>t, <1>k DEF LinkLauncher, Visited, Op, ApplyPC
  <2>3. DiskInv' /\ Undoable'
    BY <2>2, JournalStepKeeps DEF JournalStep, ProgressInv, ApplyPC
  <2>4. \A t \in Release : trash[t] = "none"
    BY <2>2 DEF ProgressInv, ApplyPC
  <2> QED
    BY <2>2, <2>3, <2>4 DEF ProgressInv
<1>9. CASE Linked
  BY <1>9, <1>q, <1>t, <1>k DEF Linked, Goto, Op, ProgressInv, ApplyPC, RestorePC, disk
<1>10. CASE WriteLedger
  <2>1. /\ op.pc = "ledger" /\ op'.pc = "commit" /\ ledger' = journal.next
        /\ UNCHANGED <<dir, trash, launcher, journal>> /\ journal # NoJournal
    BY <1>10, <1>t, <1>k DEF WriteLedger, Goto, Op, ApplyPC
  <2>2. DiskInv' /\ Undoable'
    BY <2>1, JournalStepKeeps DEF JournalStep, ProgressInv, ApplyPC
  <2>3. \A t \in Release : trash[t] = "none"
    BY <2>1 DEF ProgressInv, ApplyPC
  <2> QED
    BY <2>1, <2>2, <2>3 DEF ProgressInv
<1>11. CASE Commit
  <2>1. /\ op.pc = "commit" /\ op'.pc = "prune" /\ op'.todo = journal.pruned
        /\ UNCHANGED disk /\ journal # NoJournal /\ journal' = journal
    BY <1>11, <1>t, <1>k, <1>j DEF Commit, GotoWith, Op, ApplyPC, disk
  <2>2. current = journal.next.current /\ dir[current] = "ours"
    BY <2>1, <1>j DEF LinkedInv, LinkInv, CurrentNeverDangles
  <2>3. Complete(journal)
    BY <2>1, <2>2 DEF Complete, ProgressInv
  <2>4. DiskInv' /\ Complete(journal)'
    BY <2>1, <2>3, <1>q
  <2>5. ProgressInv'
    BY <2>1, <2>4 DEF ProgressInv, ApplyPC, RestorePC
  <2> QED
    BY <2>4, <2>5
<1>12. CASE Fail
  <2>1. op.pc \in ApplyPC /\ op'.pc = "restoreCurrent" /\ UNCHANGED disk
    BY <1>12, <1>t DEF Fail, GotoWith, Op
  <2>2. Undoable
    BY <2>1 DEF ProgressInv
  <2> QED
    BY <2>1, <2>2, <1>q DEF ProgressInv, ApplyPC
<1>13. CASE RecoverForward
  BY <1>13, <1>q, <1>t, <1>k DEF RecoverForward, Op, ProgressInv, disk, ApplyPC, RestorePC
<1>14. CASE RecoverBack
  BY <1>14, <1>q, <1>t, <1>k DEF RecoverBack, Op, ProgressInv, ApplyPC, DiskInv, NextInv
<1>15. CASE RestoreCurrent
  <2>1. /\ op.pc = "restoreCurrent" /\ op'.pc = "restoreLaunchers" /\ op'.todo = Launcher
        /\ UNCHANGED <<dir, trash, launcher, ledger, journal>> /\ journal # NoJournal
    BY <1>15, <1>t, <1>k DEF RestoreCurrent, GotoWith, Op, RestorePC
  <2>2. DiskInv' /\ Undoable'
    BY <2>1, JournalStepKeeps DEF JournalStep, ProgressInv, RestorePC
  <2> QED
    BY <2>1, <2>2 DEF ProgressInv, ApplyPC
<1>16. CASE \E l \in Launcher : RestoreLauncher(l)
  <2>1. PICK l \in Launcher : RestoreLauncher(l)
    BY <1>16
  <2>2. /\ op.pc = "restoreLaunchers" /\ op'.pc = op.pc /\ op'.todo = op.todo \ {l}
        /\ launcher'[l] = journal.priorLauncher[l]
        /\ \A k \in Launcher \ {l} : launcher'[k] = launcher[k]
        /\ UNCHANGED <<dir, trash, ledger, journal>> /\ journal # NoJournal
    BY <2>1, <1>t, <1>k DEF RestoreLauncher, Visited, Op, RestorePC
  <2>3. DiskInv' /\ Undoable'
    BY <2>2, JournalStepKeeps DEF JournalStep, ProgressInv, RestorePC
  <2> QED
    BY <2>2, <2>3 DEF ProgressInv, ApplyPC
<1>17. CASE LaunchersRestored
  <2>1. /\ op.pc = "restoreLaunchers" /\ op'.pc = "restoreLedger" /\ op.todo = {}
        /\ UNCHANGED disk /\ journal # NoJournal
    BY <1>17, <1>t, <1>k DEF LaunchersRestored, Goto, Op, RestorePC
  <2>2. Undoable /\ \A l \in Launcher : launcher[l] = journal.priorLauncher[l]
    BY <2>1 DEF ProgressInv, RestorePC
  <2>3. launcher = journal.priorLauncher
    BY <2>1, <2>2, <1>t, <1>j
  <2> QED
    BY <2>1, <2>2, <2>3, <1>q DEF ProgressInv, ApplyPC, disk
<1>18. CASE RestoreLedger
  <2>1. /\ op.pc = "restoreLedger" /\ op'.pc = "removeNew" /\ ledger' = journal.prior
        /\ op'.todo = IF journal.created THEN {Staging, journal.next.current} ELSE {}
        /\ UNCHANGED <<dir, trash, launcher, journal>> /\ journal # NoJournal
    BY <1>18, <1>t, <1>k DEF RestoreLedger, GotoWith, Op, RestorePC
  <2>2. DiskInv' /\ Undoable'
    BY <2>1, JournalStepKeeps DEF JournalStep, ProgressInv, RestorePC
  <2> QED
    BY <2>1, <2>2 DEF ProgressInv, ApplyPC
<1>19. CASE \E p \in Place : MoveToTrash(p)
  <2>1. PICK p \in Place : MoveToTrash(p)
    BY <1>19
  <2>2. /\ op' = op /\ op.pc \in {"removeNew", "prune"} /\ p \in op.todo
        /\ op.pc = "removeNew" /\ Staging \in op.todo => p = Staging
        /\ UNCHANGED <<launcher, ledger, journal>>
        /\ \A t \in Place \ {p} : dir'[t] = dir[t] /\ trash'[t] = trash[t]
    BY <2>1, <1>t DEF MoveToTrash, NextArtifact
  <2>3. DiskInv' /\ (op.pc = "removeNew" => Undoable') /\ (op.pc = "prune" => Complete(journal)')
    BY <2>1, RemovalKeeps
  <2>4. journal # NoJournal
    BY <2>2, <1>k DEF RestorePC, ForwardPC
  <2>5. CASE op.pc = "prune"
    <3>1. \A t \in journal.pruned :
              t \in op.todo \/ op.warned \/ (dir'[t] # "ours" /\ trash'[t] = "none")
      BY <2>2, <2>4, <2>5, <1>j DEF ProgressInv
    <3> QED
      BY <2>2, <2>3, <2>5, <3>1 DEF ProgressInv, ApplyPC, RestorePC
  <2>6. CASE op.pc = "removeNew"
    <3>1. launcher = journal.priorLauncher /\ ledger = journal.prior
      BY <2>6 DEF ProgressInv
    <3>2. journal.created =>
              \/ journal.next.current \in op.todo
              \/ dir'[journal.next.current] # "ours" /\ trash'[journal.next.current] = "none"
      BY <2>2, <2>4, <2>6, <1>j DEF ProgressInv
    <3> QED
      BY <2>2, <2>3, <2>6, <3>1, <3>2 DEF ProgressInv, ApplyPC
  <2> QED
    BY <2>2, <2>3, <2>5, <2>6
<1>20. CASE \E p \in Place : EmptyTrash(p)
  <2>1. PICK p \in Place : EmptyTrash(p)
    BY <1>20
  <2>2. /\ op'.pc = op.pc /\ op'.warned = op.warned /\ op'.todo = op.todo \ {p}
        /\ op.pc \in {"removeNew", "prune"} /\ p \in op.todo
        /\ UNCHANGED <<dir, launcher, ledger, journal>>
        /\ dir[p] = "none" /\ trash'[p] = "none"
        /\ \A t \in Place \ {p} : trash'[t] = trash[t]
    BY <2>1, <1>t DEF EmptyTrash, NextArtifact, Visited, Op
  <2>3. DiskInv' /\ (op.pc = "removeNew" => Undoable') /\ (op.pc = "prune" => Complete(journal)')
    BY <2>1, RemovalKeeps
  <2>4. journal # NoJournal
    BY <2>2, <1>k DEF RestorePC, ForwardPC
  <2>5. CASE op.pc = "prune"
    <3>1. \A t \in journal.pruned :
              t \in op'.todo \/ op'.warned \/ (dir'[t] # "ours" /\ trash'[t] = "none")
      <4> SUFFICES ASSUME NEW t \in journal.pruned
                   PROVE  t \in op'.todo \/ op'.warned \/ (dir'[t] # "ours" /\ trash'[t] = "none")
        OBVIOUS
      <4>1. CASE t = p
        BY <2>2, <4>1
      <4>2. CASE t # p
        BY <2>2, <2>4, <2>5, <1>j, <4>2 DEF ProgressInv
      <4> QED
        BY <4>1, <4>2
    <3> QED
      BY <2>2, <2>3, <2>5, <3>1 DEF ProgressInv, ApplyPC, RestorePC
  <2>6. CASE op.pc = "removeNew"
    <3>1. launcher = journal.priorLauncher /\ ledger = journal.prior
      BY <2>6 DEF ProgressInv
    <3>2. journal.created =>
              \/ journal.next.current \in op'.todo
              \/ dir'[journal.next.current] # "ours" /\ trash'[journal.next.current] = "none"
      <4>1. CASE journal.next.current = p
        BY <2>2, <4>1
      <4>2. CASE journal.next.current # p
        BY <2>2, <2>4, <2>6, <1>j, <4>2 DEF ProgressInv
      <4> QED
        BY <4>1, <4>2
    <3> QED
      BY <2>2, <2>3, <2>6, <3>1, <3>2 DEF ProgressInv, ApplyPC
  <2> QED
    BY <2>2, <2>3, <2>5, <2>6
<1>21. CASE \E p \in Place : PruneFails(p)
  BY <1>21, <1>q, <1>t, <1>k DEF PruneFails, Op, ProgressInv, ApplyPC, RestorePC, disk
<1>22. CASE Pruned
  BY <1>22, <1>q, <1>t, <1>k DEF Pruned, Goto, Op, ProgressInv, ApplyPC, RestorePC, disk
<1>23. CASE NewRemoved
  BY <1>23, <1>q, <1>t, <1>k DEF NewRemoved, Goto, Op, ProgressInv, ApplyPC, RestorePC, disk
<1>24. CASE ClearJournal
  <2>1. op'.pc \in {"preflight", "idle"}
    BY <1>24, <1>t DEF ClearJournal, Op
  <2> QED
    BY <1>24, <2>1, <1>q, ClearKeeps
<1>25. CASE Others
  <2>1. PICK r \in Release : EditRelease(r)
    BY <1>25, EditsAssumption DEF Others
  <2>2. /\ dir[r] # "ours" /\ dir'[r] # "ours" /\ \A t \in Place \ {r} : dir'[t] = dir[t]
        /\ UNCHANGED <<trash, current, launcher, ledger, journal, op>>
    BY <2>1, <1>t DEF EditRelease
  <2>3. \A t \in Place : dir[t] = "ours" <=> dir'[t] = "ours"
    BY <2>2
  <2>4. SettledInv'
    BY <2>2, <2>3, <1>t DEF DiskInv, SettledInv, Intact, Unoccupied
  <2>5. PriorInv' /\ OwnedInv'
    BY <2>2, <2>3 DEF DiskInv, PriorInv, OwnedInv
  <2>6. journal # NoJournal =>
            (Undoable <=> Undoable') /\ (Complete(journal) <=> Complete(journal)')
    BY <2>2, <2>3, <1>j DEF Undoable, Complete
  <2>7. NextInv'
    BY <2>2, <2>3, <2>6, <1>j DEF DiskInv, NextInv
  <2>8. /\ op.pc \in ApplyPC \cup RestorePC => Undoable'
        /\ op.pc \in {"prune", "clear"} => Complete(journal)'
    BY <2>6, <1>k DEF ProgressInv, ForwardPC
  <2>9. /\ op.pc = "prune" => \A t \in journal.pruned :
              t \in op.todo \/ op.warned \/ (dir'[t] # "ours" /\ trash[t] = "none")
        /\ op.pc = "clear" => \A t \in journal.pruned : dir'[t] # "ours" /\ trash[t] = "none"
    BY <2>3, <1>j, <1>k DEF ProgressInv, ForwardPC
  <2>10. op.pc \in {"removeNew", "restored"} /\ journal.created =>
          \/ op.pc = "removeNew" /\ journal.next.current \in op.todo
          \/ dir'[journal.next.current] # "ours" /\ trash[journal.next.current] = "none"
    BY <2>3, <1>j, <1>k DEF ProgressInv, RestorePC
  <2>11. ProgressInv'
    BY <2>2, <2>8, <2>9, <2>10 DEF ProgressInv
  <2> QED
    BY <2>4, <2>5, <2>7, <2>11 DEF DiskInv
<1>26. CASE UNCHANGED vars
  BY <1>26, <1>q DEF vars, disk, ProgressInv
<1> QED
  BY <1>1, <1>2, <1>3, <1>4, <1>5, <1>6, <1>7, <1>8, <1>9, <1>10, <1>11, <1>12, <1>13,
     <1>14, <1>15, <1>16, <1>17, <1>18, <1>19, <1>20, <1>21, <1>22, <1>23, <1>24, <1>25,
     <1>26 DEF Next, Activate, Recover, Failure

\* An installation starts with nothing, or with one of the release before.
LEMMA KeptInit == Init => DiskInv /\ ProgressInv
<1> SUFFICES ASSUME Init PROVE DiskInv /\ ProgressInv
  OBVIOUS
<1>1. /\ op.pc = "idle" /\ journal = NoJournal
      /\ \A t \in Release : trash[t] = "none"
  BY PlaceFacts DEF Init
<1>2. ProgressInv
  BY <1>1 DEF ProgressInv, ApplyPC, RestorePC
<1>3. ASSUME FreshInit PROVE SettledInv
  <2>1. Unoccupied /\ \A t \in Release : dir[t] # "ours"
    BY <1>3, PlaceFacts DEF FreshInit, Unoccupied
  <2> QED
    BY <1>1, <1>3, <2>1 DEF FreshInit, SettledInv
<1>4. ASSUME OldInit PROVE SettledInv
  <2>1. /\ ledger # NoLedger /\ ledger.schema = 2 /\ ledger.files = LauncherOf(2)
        /\ ledger.current \in Release /\ ledger.previous \in Release \cup {NoRelease}
        /\ ledger.previous # ledger.current
        /\ ledger.releases = {ledger.current, ledger.previous} \ {NoRelease}
        /\ ledger \in Ledger
    <3>1. LauncherOf(2) \in SUBSET Launcher
      BY LaunchersAssumption DEF LauncherOf, Launcher
    <3>2. ledger \in Ledger
      BY <1>4, <3>1 DEF OldInit, Ledger
    <3> QED
      BY <1>4, <3>2, NoneAssumption DEF OldInit, Ledger
  <2>2. LauncherOf(2) \subseteq Launcher
    BY LaunchersAssumption DEF LauncherOf, Launcher
  <2>3. WellFormed(ledger)
    BY <2>1, PlaceFacts DEF WellFormed
  <2>4. \A t \in Release : dir[t] = "ours" <=> t \in ledger.releases
    BY <1>4, <2>1, PlaceFacts DEF OldInit
  <2>5. Intact(ledger)
    BY <1>4, <2>1, <2>2, <2>4, PlaceFacts DEF OldInit, Intact
  <2> QED
    BY <1>1, <2>1, <2>3, <2>4, <2>5 DEF SettledInv, Owned
<1>5. SettledInv
  BY <1>3, <1>4 DEF Init
<1> QED
  BY <1>1, <1>2, <1>5 DEF DiskInv, PriorInv, NextInv, OwnedInv

LEMMA Kept == EditedLaunchers = {} => (Spec => [](LinkedInv /\ DiskInv /\ ProgressInv))
<1> SUFFICES ASSUME EditedLaunchers = {} PROVE Spec => [](LinkedInv /\ DiskInv /\ ProgressInv)
  OBVIOUS
<1>1. Init => LinkedInv /\ DiskInv /\ ProgressInv
  BY LinkedInit, KeptInit
<1>2. LinkedInv /\ DiskInv /\ ProgressInv /\ [Next]_vars => (LinkedInv /\ DiskInv /\ ProgressInv)'
  BY LinkedStep, KeptStep
<1> QED
  BY <1>1, <1>2, PTL DEF Spec

\* If nobody else changes a launcher, then between operations, with no journal
\* left, what is installed passes the check every later operation starts with
\* (preflightLedger), or nothing is installed and nothing is in the way
\* (preflightFreshInstall): whatever step failed, was cut off or was recovered.
THEOREM InstallConsistent == EditedLaunchers = {} => (Spec => []Consistent)
<1>1. LinkedInv /\ DiskInv /\ ProgressInv => Consistent
  BY DEF DiskInv, SettledInv, Consistent
<1> QED
  BY <1>1, Kept, PTL

\* If nobody else changes a launcher, then between operations every release of
\* ours on disk, in its place or half removed, is in the ledger or in a journal
\* recovery will work off (pruned, removeJournalReleaseArtifacts).
THEOREM ReleasesAccounted == EditedLaunchers = {} => (Spec => []NothingForgotten)
<1>1. LinkedInv /\ DiskInv /\ ProgressInv => NothingForgotten
  <2> SUFFICES ASSUME LinkedInv, DiskInv, NEW t \in Release, dir[t] = "ours" \/ trash[t] # "none"
               PROVE  \/ ledger # NoLedger /\ t \in ledger.releases
                      \/ journal # NoJournal /\ t \in journal.pruned \cup {journal.next.current}
    BY DEF NothingForgotten
  <2>t. trash[t] \in {"none", "ours", "stale"}
    BY PlaceFacts DEF LinkedInv, TypeInv, TypeOK
  <2>1. CASE journal = NoJournal
    BY <2>1 DEF DiskInv, SettledInv, Owned
  <2>2. CASE journal # NoJournal /\ dir[t] # "ours"
    BY <2>2, <2>t DEF DiskInv, OwnedInv
  <2>3. CASE journal # NoJournal /\ dir[t] = "ours"
    <3>1. /\ ledger \in {journal.prior, journal.next} /\ journal.next # NoLedger
          /\ t \in journal.next.releases \cup journal.pruned
          /\ t \in Owned(journal.prior) \/ t = journal.next.current
      BY <2>3, NoneAssumption DEF DiskInv, NextInv, OwnedInv, LinkedInv, TypeInv, TypeOK, Journal
    <3> QED
      BY <2>3, <3>1 DEF Owned
  <2> QED
    BY <2>1, <2>2, <2>3
<1> QED
  BY <1>1, Kept, PTL

-----------------------------------------------------------------------------
\* What others made is left alone: a link is put where nothing is, a launcher
\* is put back over our link only, and what is renamed is a release of ours.
THEOREM ForeignLeftAlone == Spec => ForeignUntouched
<1>1. ASSUME TypeOK, Next, ~Others
      PROVE  /\ \A l \in Launcher : launcher[l] \in {"file", "link"} => launcher'[l] = launcher[l]
             /\ \A t \in Release : dir[t] = "foreign" => dir'[t] = "foreign"
  <2> USE PlaceFacts DEF disk
  <2>t. launcher \in [Launcher -> LauncherState] /\ dir \in [Place -> {"none", "ours", "foreign"}]
    BY <1>1 DEF TypeOK
  <2>1. CASE UNCHANGED <<dir, launcher>>
    BY <2>1
  <2>2. ASSUME UNCHANGED launcher, \A t \in Release : dir'[t] = dir[t]
        PROVE  /\ \A l \in Launcher : launcher[l] \in {"file", "link"} => launcher'[l] = launcher[l]
               /\ \A t \in Release : dir[t] = "foreign" => dir'[t] = "foreign"
    BY <2>2
  <2>3. Return => \A t \in Release : dir'[t] = dir[t]
    BY <2>t DEF Return
  <2>4. CASE StageRelease \/ WriteJournalFails \/ Publish
    BY <2>t, <2>4 DEF StageRelease, WriteJournalFails, Publish
  <2>5. CASE Stop \/ Refuse \/ CannotRemoveNew \/ CannotRestoreLauncher
    BY <2>2, <2>3, <2>5 DEF Stop, Refuse, CannotRemoveNew, CannotRestoreLauncher
  <2>6. CASE \E p \in Place : MoveToTrash(p)
    BY <2>t, <2>6 DEF MoveToTrash
  <2>7. CASE \E l \in Launcher : LinkLauncher(l)
    BY <2>t, <2>7 DEF LinkLauncher
  <2>8. CASE \E l \in Launcher : RestoreLauncher(l)
    BY <2>t, <2>8 DEF RestoreLauncher, Restorable
  <2> QED
    BY <1>1, <2>1, <2>4, <2>5, <2>6, <2>7, <2>8
       DEF Next, Started, Begin, Activate, Recover, Failure, PreflightInstall, PreflightRollback,
           WriteJournal, SwitchCurrent, Linked, WriteLedger, Commit, NothingToRecover,
           RecoverForward, RecoverBack, RestoreCurrent, LaunchersRestored, RestoreLedger,
           NewRemoved, Pruned, ClearJournal, EmptyTrash, PruneFails, Fail
<1>2. TypeOK /\ [Next]_vars =>
        [/\ \A l \in Launcher : launcher[l] \in {"file", "link"}
              /\ launcher'[l] # launcher[l] => Others
         /\ \A t \in Release : dir[t] = "foreign" /\ dir'[t] # "foreign" => Others]_vars
  BY <1>1
<1> QED
  BY <1>2, InstallTypeCorrect, PTL DEF Spec, ForeignUntouched

-----------------------------------------------------------------------------
(***************************************************************************)
(* The contract.  What a recovery would make of the disk goes from the     *)
(* state before to the state after, once, and never back.                  *)
(***************************************************************************)
CapturedInv ==
    journal # NoJournal =>
        journal.next.previous =
            IF journal.prior = NoLedger THEN NoRelease
            ELSE IF journal.prior.current # journal.next.current THEN journal.prior.current
            ELSE journal.prior.previous

ChangedOnce ==
    \/ Effective' = Effective
    \/ /\ journal # NoJournal /\ journal' = journal
       /\ Effective = journal.prior /\ Effective' = journal.next

LEMMA JournalSteps ==
    ASSUME [Next]_vars
    PROVE  \/ journal' = journal
           \/ /\ op.pc = "plan" /\ journal' = Capture(op.tag) /\ UNCHANGED ledger
           \/ ClearJournal
BY DEF Next, vars, disk, Started, Begin, Activate, Recover, Failure, Others, PreflightInstall,
       PreflightRollback, StageRelease, Refuse, Return, WriteJournal, WriteJournalFails, Publish,
       SwitchCurrent, LinkLauncher, Linked, WriteLedger, Commit, NothingToRecover, RecoverForward,
       RecoverBack, RestoreCurrent, RestoreLauncher, LaunchersRestored, RestoreLedger, MoveToTrash,
       EmptyTrash, PruneFails, CannotRemoveNew, CannotRestoreLauncher, NewRemoved, Pruned, Stop,
       Fail, EditLauncher, EditRelease

LEMMA CapturedStep == CapturedInv /\ [Next]_vars => CapturedInv'
<1> SUFFICES ASSUME CapturedInv, [Next]_vars PROVE CapturedInv'
  OBVIOUS
<1>1. CASE journal' = journal
  BY <1>1 DEF CapturedInv
<1>2. CASE journal' = Capture(op.tag)
  BY <1>2 DEF CapturedInv, Capture, NextLedger, PreviousOf
<1>3. CASE ClearJournal
  BY <1>3 DEF ClearJournal, CapturedInv
<1> QED
  BY <1>1, <1>2, <1>3, JournalSteps

\* A complete journal that nobody applies or restores stays complete.
LEMMA CompleteStays ==
    ASSUME LinkedInv, DiskInv, ProgressInv, [Next]_vars, EditedLaunchers = {},
           journal # NoJournal, journal' = journal, op.pc \notin ApplyPC \cup RestorePC,
           Complete(journal)
    PROVE  op'.pc \notin ApplyPC \cup RestorePC /\ Complete(journal)'
<1> USE PlaceFacts DEF disk
<1>1. op.pc \in {"idle", "recover", "prune", "clear"}
  BY PCs DEF LinkedInv, TypeInv, TypeOK, PlanInv, Op, ApplyPC, RestorePC
<1>2. journal.next.current \in Release /\ journal.next.current \notin journal.pruned
      /\ op \in Op /\ dir \in [Place -> {"none", "ours", "foreign"}]
  BY DEF LinkedInv, TypeInv, TypeOK, Journal, Ledger, JournalInv
<1>3. ASSUME UNCHANGED <<launcher, current, ledger>>,
             dir'[journal.next.current] = dir[journal.next.current]
      PROVE  Complete(journal)'
  BY <1>3 DEF Complete
<1>4. CASE Started
  <2>1. op'.pc = "recover" /\ UNCHANGED disk
    BY <1>4 DEF Started, Begin
  <2> QED
    BY <1>3, <2>1 DEF ApplyPC, RestorePC
<1>5. CASE Stop
  BY <1>2, <1>3, <1>5 DEF Stop, Return, Op, ApplyPC, RestorePC
<1>6. CASE \E p \in Place : MoveToTrash(p)
  <2>1. PICK p \in Place : MoveToTrash(p)
    BY <1>6
  <2>2. op.pc = "prune" /\ p \in journal.pruned
    BY <1>1, <2>1 DEF MoveToTrash, NextArtifact, LinkedInv, LinkInv
  <2> QED
    BY <1>2, <1>3, <2>1, <2>2 DEF MoveToTrash, ApplyPC, RestorePC
<1>7. CASE \E p \in Place : EmptyTrash(p) \/ PruneFails(p)
  BY <1>1, <1>2, <1>3, <1>7
     DEF EmptyTrash, PruneFails, NextArtifact, Visited, Op, ApplyPC, RestorePC
<1>8. CASE Pruned
  BY <1>2, <1>3, <1>8 DEF Pruned, Goto, Op, ApplyPC, RestorePC
<1>9. CASE Others
  BY <1>2, <1>3, <1>9, EditsAssumption DEF Others, EditRelease, Complete
<1>10. CASE UNCHANGED vars
  BY <1>3, <1>10 DEF vars
<1>11. ~ClearJournal
  BY DEF ClearJournal
<1>12. CASE RecoverForward
  <2>1. op'.pc = "prune" /\ UNCHANGED disk
    BY <1>2, <1>12 DEF RecoverForward, Op
  <2> QED
    BY <1>3, <2>1 DEF ApplyPC, RestorePC
<1> QED
  BY <1>1, <1>4, <1>5, <1>6, <1>7, <1>8, <1>9, <1>10, <1>11, <1>12
     DEF Next, Activate, Recover, Failure, PreflightInstall, PreflightRollback, StageRelease,
         Refuse, WriteJournal, WriteJournalFails, Publish, SwitchCurrent, LinkLauncher, Linked,
         WriteLedger, Commit, NothingToRecover, RecoverBack, RestoreCurrent, RestoreLauncher,
         LaunchersRestored, RestoreLedger, CannotRemoveNew, CannotRestoreLauncher, NewRemoved, Fail,
         ApplyPC

LEMMA EffectiveSteps ==
    ASSUME LinkedInv, DiskInv, ProgressInv, [Next]_vars, EditedLaunchers = {}
    PROVE  ChangedOnce
<1>1. CASE journal # NoJournal /\ journal' = journal
  <2>1. Effective \in {journal.prior, journal.next} /\ Effective' \in {journal.prior, journal.next}
    BY <1>1 DEF Effective
  <2>2. CASE op.pc \notin ApplyPC \cup RestorePC /\ Complete(journal)
    BY <1>1, <2>2, CompleteStays DEF Effective, ChangedOnce
  <2>3. CASE ~(op.pc \notin ApplyPC \cup RestorePC /\ Complete(journal))
    <3>1. Effective = journal.prior
      BY <1>1, <2>3 DEF Effective
    <3> QED
      BY <1>1, <2>1, <3>1 DEF ChangedOnce
  <2> QED
    BY <2>2, <2>3
<1>2. CASE journal = NoJournal /\ journal' = journal
  <2>1. op.pc \notin ApplyPC \cup RestorePC
    BY <1>2 DEF LinkedInv, TypeInv, Journaled
  <2>2. ledger' = ledger
    BY <2>1
       DEF Next, vars, disk, Started, Begin, Activate, Recover, Failure, Others, PreflightInstall,
           PreflightRollback, StageRelease, Refuse, Return, WriteJournal, WriteJournalFails,
           Publish, SwitchCurrent, LinkLauncher, Linked, WriteLedger, Commit, NothingToRecover,
           RecoverForward, RecoverBack, RestoreCurrent, RestoreLauncher, LaunchersRestored,
           RestoreLedger, MoveToTrash, EmptyTrash, PruneFails, CannotRemoveNew,
           CannotRestoreLauncher, NewRemoved, Pruned, ClearJournal, Stop, Fail, EditLauncher,
           EditRelease, ApplyPC, RestorePC
  <2> QED
    BY <1>2, <2>2 DEF Effective, ChangedOnce
<1>3. CASE op.pc = "plan" /\ journal' = Capture(op.tag) /\ UNCHANGED ledger
  <2>1. journal = NoJournal
    BY <1>3 DEF LinkedInv, PlanInv
  <2>2. journal'.prior = ledger
    BY <1>3 DEF Capture
  <2>3. Complete(journal)' => journal'.next = ledger
    BY <1>3 DEF Complete
  <2> QED
    BY <1>3, <2>1, <2>2, <2>3 DEF Effective, ChangedOnce
<1>4. CASE ClearJournal
  <2>1. journal # NoJournal
    BY <1>4 DEF ClearJournal, LinkedInv, TypeInv, Journaled, RestorePC, ForwardPC
  <2>2. Effective = ledger
    BY <1>4, <2>1
       DEF ClearJournal, Effective, ProgressInv, ApplyPC, RestorePC, Complete
  <2> QED
    BY <1>4, <2>2 DEF ClearJournal, Effective, ChangedOnce
<1> QED
  BY <1>1, <1>2, <1>3, <1>4, JournalSteps

LEMMA ContractStep ==
    ASSUME LinkedInv, CapturedInv, ChangedOnce
    PROVE  [Contract!Next]_Contract!vars
<1>1. CASE Effective' = Effective
  BY <1>1 DEF Contract!vars
<1>2. CASE /\ journal # NoJournal /\ journal' = journal
           /\ Effective = journal.prior /\ Effective' = journal.next
  <2>1. /\ journal.next # NoLedger /\ journal.next.current \in Release
        /\ journal.prior # NoLedger => journal.prior.current \in Release
    BY <1>2, NoneAssumption DEF LinkedInv, TypeInv, TypeOK, Journal, Ledger
  <2>2. CASE journal.prior # NoLedger /\ journal.prior.current = journal.next.current
    BY <1>2, <2>1, <2>2 DEF CapturedInv, Contract!vars
  <2>3. CASE ~(journal.prior # NoLedger /\ journal.prior.current = journal.next.current)
    <3>1. Contract!Activate(journal.next.current)
      BY <1>2, <2>1, <2>3, PlaceFacts DEF CapturedInv, Contract!Activate
    <3> QED
      BY <2>1, <3>1 DEF Contract!Next
  <2> QED
    BY <2>2, <2>3
<1> QED
  BY <1>1, <1>2 DEF ChangedOnce

LEMMA InitContract == Init => Contract!Init
<1> SUFFICES ASSUME Init PROVE Contract!Init
  OBVIOUS
<1>1. Effective = ledger
  BY DEF Init, Effective
<1>2. ledger # NoLedger =>
        /\ ledger.current \in Release /\ ledger.previous \in Release \cup {NoRelease}
        /\ ledger.previous # ledger.current
  <2>1. ledger \in Ledger \cup {NoLedger}
    BY InitType DEF TypeOK
  <2> QED
    BY <2>1 DEF Init, FreshInit, OldInit, Ledger
<1> QED
  BY <1>1, <1>2, PlaceFacts DEF Contract!Init

\* If nobody else changes a launcher, installing is atomic: at every step, of
\* an operation, of its undoing, of a recovery or of a crash, the installation
\* that the next operation would find changes at once to the new release with
\* the old one kept to go back to, or not at all, and is never taken back.
THEOREM InstallIsAtomic == EditedLaunchers = {} => (Spec => ImplementsContract)
<1> SUFFICES ASSUME EditedLaunchers = {} PROVE Spec => ImplementsContract
  OBVIOUS
<1>1. Spec => [](LinkedInv /\ DiskInv /\ ProgressInv)
  BY Kept
<1>2. Init => CapturedInv
  BY DEF Init, CapturedInv
<1>3. LinkedInv /\ DiskInv /\ ProgressInv /\ CapturedInv /\ [Next]_vars
        => [Contract!Next]_Contract!vars
  BY EffectiveSteps, ContractStep
<1> QED
  BY <1>1, <1>2, <1>3, CapturedStep, InitContract, PTL DEF Spec, ImplementsContract, Contract!Spec
=============================================================================
