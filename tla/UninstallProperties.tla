-------------------------- MODULE UninstallProperties --------------------------
(***************************************************************************)
(* What an uninstall and its recovery promise.                             *)
(***************************************************************************)
EXTENDS UninstallTransaction

\* Without a journal the program is there with all it owns, or gone with all of
\* it, and no backup is left that nothing would ever find again.
AllOrNothing ==
    removal = NoRemoval =>
        /\ backup = {}
        /\ \A e \in Required : at[e] = "original" <=> installed

\* Until the commit the original of everything listed is at its path or at its
\* backup name, never at both, whatever step is being taken, undone or was cut
\* off (restoreUninstallJournal: "original and backup are both missing").
NothingLost ==
    removal # NoRemoval /\ ~removal.committed =>
        /\ installed
        /\ \A e \in removal.entries : (at[e] = "original") # (e \in backup)

\* A committed uninstall is only ever finished, by whichever operation comes
\* next: its journal goes when ledger, backups and, with a purge, the sessions
\* have gone.
CommittedIsFinal ==
    [][removal # NoRemoval /\ removal.committed /\ removal' # removal =>
           /\ removal' = NoRemoval
           /\ ~installed /\ backup = {}
           /\ removal.purge => ~sessions]_uninstallVars

\* Once nothing fails any more, uninstall finishes or undoes what was cut off.
RemovalCompletes ==
    <>[][TaskStarted \/ Work \/ RefuseTask]_uninstallVars => []<>(removal = NoRemoval)

\* docs/USAGE.md: "--purge-state additionally removes the project runtime
\* configuration, credential, settings overlay, and known session/launch/
\* install-state children", when the command that says so succeeds.
PurgeRemovesState ==
    [][task.pc = "forget" /\ task.kind = "uninstall" /\ task.purge /\ removal' = NoRemoval =>
           ~sessions /\ \A e \in Private : at[e] # "original"]_uninstallVars
=============================================================================
