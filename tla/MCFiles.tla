-------------------------------- MODULE MCFiles --------------------------------
(***************************************************************************)
(* Small instances for TLC of what shares files with their user and other  *)
(* programs, one at a time by `part`: the setup transaction, installations *)
(* whose launchers and releases somebody else changes, a private file, the *)
(* shell startup file, the proxy's file.                                   *)
(***************************************************************************)
EXTENDS SetupProperties, PrivateFile, StartupFile, ProxyConfig

CONSTANTS i1, i2, i3, i4,                   \* files
          v1, v2, v3,                       \* the tags
          Release, NoRelease, Staging, NoLedger,
          Launchers, OldLaunchers, EditedLaunchers, EditedReleases

VARIABLES
    part,                                   \* never changes
    dir, trash, current, launcher, ledger,  \* as in InstallTransaction
    activation, activity                    \* its journal and op

I == INSTANCE InstallProperties WITH
        journal <- activation, op <- activity

installVars == <<dir, trash, current, launcher, ledger, activation, activity>>

Part == {"setup", "launchers", "releases", "private", "startup", "proxy"}

\* Elsewhere than behind the start of a block, a directory is a line like others.
StartsShort == \A i \in DOMAIN file.lines :
    file.lines[i] \in Bin => i > 1 /\ file.lines[i - 1] = "start"

\* The parts that are not looked at stay in one of their initial states.
MCInit ==
    /\ part \in Part
    /\ Init
    /\ part # "setup" => at = [p \in Target |-> At("none")] /\ service = Untouched
    /\ I!Init
    /\ part = "launchers" => dir[v3] = "none"
    /\ part \notin {"launchers", "releases"} => I!FreshInit
    /\ activity.tag = v1
    /\ PrivateInit
    /\ part # "private" => target = NoFile
    /\ StartupInit
    /\ part # "startup" => file = Absent
    /\ file # Absent => StartsShort
    /\ ProxyInit

\* Others change one target at a time, ...
OneTarget == \A p, q \in Target : edit[p] # "none" /\ edit[q] # "none" => p = q

\* ... and either launchers, between two releases, or the directories of three.
TwoTags == activity.tag # v3 /\ \A t \in Release : dir[t] # "foreign"
LaunchersOwn == \A l \in I!Launcher : launcher[l] \in {"none", "ours"}

\* A startup file whose user edits it sees no update that is cut off.
UpdateOrEdit == update # NoUpdate \/ crossed => edits = 0

MCNext ==
    \/ /\ part = "setup" /\ Next /\ OneTarget'
       /\ UNCHANGED <<installVars, privateVars, startupVars, proxyVars>>
    \/ /\ \/ part = "launchers" /\ I!Next /\ TwoTags'
          \/ part = "releases" /\ I!Next /\ LaunchersOwn'
       /\ UNCHANGED <<vars, privateVars, startupVars, proxyVars>>
    \/ /\ part = "private" /\ PrivateNext
       /\ UNCHANGED <<vars, installVars, startupVars, proxyVars>>
    \/ /\ part = "startup" /\ StartupNext /\ UpdateOrEdit'
       /\ UNCHANGED <<vars, installVars, privateVars, proxyVars>>
    \/ /\ part = "proxy" /\ ProxyNext
       /\ UNCHANGED <<vars, installVars, privateVars, startupVars>>

allVars == <<part, vars, installVars, privateVars, startupVars, proxyVars>>

MCSpec == MCInit /\ [][MCNext /\ UNCHANGED part]_allVars

\* Of InstallProperties: a launcher or a release directory that is somebody
\* else's changes only by their hand.
ForeignUntouched == I!ForeignUntouched
===============================================================================
