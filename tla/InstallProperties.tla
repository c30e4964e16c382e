--------------------------- MODULE InstallProperties ---------------------------
(***************************************************************************)
(* What install, upgrade, rollback and their recovery promise together.    *)
(***************************************************************************)
EXTENDS InstallTransaction

\* `sclaude` always starts something: the link the launchers go through never
\* names a release that is not there, whatever step is being taken, undone or
\* was cut off (atomicSymlink after publication, restoreLink before removal).
CurrentNeverDangles == current # NoRelease => dir[current] = "ours"

\* Between operations and without a journal, ledger, link, launchers and the
\* two kept releases agree, so that preflightLedger accepts them: no failure
\* leaves an installation that refuses every further operation.
Consistent ==
    op.pc = "idle" /\ journal = NoJournal =>
        IF ledger = NoLedger THEN Unoccupied ELSE Intact(ledger)

\* A release is on disk for a reason: it is recorded, or the journal that is
\* still there accounts for it (removeJournalReleaseArtifacts, pruned).
NothingForgotten ==
    op.pc = "idle" =>
        \A t \in Release : (dir[t] = "ours" \/ trash[t] # "none") =>
            \/ ledger # NoLedger /\ t \in ledger.releases
            \/ journal # NoJournal /\ t \in journal.pruned \cup {journal.next.current}

\* docs/USAGE.md: "The current and previous verified releases are retained".
PreviousRetained ==
    op.pc = "idle" /\ journal = NoJournal /\ ledger # NoLedger =>
        \A t \in {ledger.current, ledger.previous} \ {NoRelease} : dir[t] = "ours"

\* A launcher path or a release directory that is somebody else's changes only
\* by their hand (os.Symlink, restoreLauncher, RenameNoReplace, identities).
ForeignUntouched ==
    [][/\ \A l \in Launcher : launcher[l] \in {"file", "link"}
              /\ launcher'[l] # launcher[l] => Others
       /\ \A t \in Release : dir[t] = "foreign" /\ dir'[t] # "foreign" => Others]_vars

\* Once nothing fails any more, the next operations clear the journal: no
\* state a failure leaves is one that recovery cannot get out of.
RecoveryCompletes ==
    <>[][Started \/ Activate \/ Recover]_vars =>
        []<>(journal = NoJournal)

-----------------------------------------------------------------------------
\* What the next operation will take the installation to be.
Effective ==
    CASE journal = NoJournal -> ledger
      [] journal # NoJournal /\ op.pc \in ApplyPC \cup RestorePC -> journal.prior
      [] journal # NoJournal /\ op.pc \notin ApplyPC \cup RestorePC ->
            IF Complete(journal) THEN journal.next ELSE journal.prior

Contract == INSTANCE InstallContract WITH
    active <- IF Effective = NoLedger THEN NoRelease ELSE Effective.current,
    fallback <- IF Effective = NoLedger THEN NoRelease ELSE Effective.previous

\* Upgrades and rollbacks happen at once and stay: whatever fails in between,
\* the installation is the old one or the new one, never a mixture, and one
\* that took effect is never undone (USAGE.md: "pending cleanup is reported
\* without undoing a successful activation").
ImplementsContract == Contract!Spec
=============================================================================
