------------------------------ MODULE MCRecovery ------------------------------
(***************************************************************************)
(* Small instances of InstallProperties, UninstallProperties and           *)
(* SessionFiles for TLC, one of them by `part`: what was cut off is        *)
(* recovered, by whichever operation comes next.  Launcher 1 stands for    *)
(* the two of schema 2, launcher 2 for scodex.                             *)
(***************************************************************************)
EXTENDS InstallProperties, UninstallProperties, SessionFiles

CONSTANTS v1, v2, v3, s1  \* the tags and the session

VARIABLE part             \* never changes

RecoveryInit ==
    /\ part \in {"install", "uninstall", "session"}
    /\ Init /\ (part # "install" => FreshInit /\ op.tag = v1)
    /\ UninstallInit /\ (part # "uninstall" => \A e \in Entry : at[e] = "original")
    /\ FilesInit /\ (part # "session" => \A n \in Name : ~IsThere(n))

RecoveryNext ==
    \/ part = "install" /\ Next /\ UNCHANGED <<part, uninstallVars, filesVars>>
    \/ part = "uninstall" /\ UninstallNext /\ UNCHANGED <<part, vars, filesVars>>
    \/ part = "session" /\ FilesNext /\ UNCHANGED <<part, vars, uninstallVars>>

\* That of either module: an operation goes on, the user runs another.
FairInstall ==
    /\ WF_vars(part = "install" /\ (Activate \/ Recover))
    /\ WF_vars(part = "install" /\ Started)
FairUninstall ==
    /\ WF_uninstallVars(part = "uninstall" /\ (Work \/ RefuseTask))
    /\ SF_uninstallVars(part = "uninstall" /\ \E purge \in BOOLEAN : BeginTask("uninstall", purge))

RecoverySpec ==
    /\ RecoveryInit /\ [][RecoveryNext]_<<part, vars, uninstallVars, filesVars>>
    /\ FairInstall /\ FairUninstall

\* Once nothing fails any more, the journal goes: that of an install, upgrade or
\* rollback, and that of an uninstall.
BothRecover == RecoveryCompletes /\ RemovalCompletes
===============================================================================
