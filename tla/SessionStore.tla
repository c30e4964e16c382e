---------------------------- MODULE SessionStore ----------------------------
(***************************************************************************)
(* The durable session record of internal/session/model.go and the pure    *)
(* part of every transition of internal/session/store.go.  Each operation  *)
(* of Store runs under the store's flock and re-reads the record there, so *)
(* it is a function of the record found under the lock: CanX(d) says when  *)
(* the operation returns no error, X(d) is the record it writes.           *)
(*                                                                         *)
(* A PID is abstracted to the runner process that owns it (RunnerPID) or   *)
(* to its presence (BackendPID); ExitCode to its presence; times, topics,  *)
(* working directories and reasons are left out: no transition reads them, *)
(* CreatedAt excepted, which SessionLifecycle keeps as the session's age.  *)
(*                                                                         *)
(* Here and in the other modules a definition whose comment begins with    *)
(* "Mutant" is a variant with a plausible bug of the definition after it;  *)
(* it takes its place only to see that a property notices.                 *)
(***************************************************************************)
EXTENDS Integers

CONSTANTS Runner,       \* the _run-session processes
          NoRunner      \* RunnerPID = 0

ASSUME NoRunnerAssumption == NoRunner \notin Runner

State == {"absent", "starting", "running", "stopping", "stopped", "failed"}

Record == [state : State,
           proto : {0, 1},                    \* ShutdownProtocol
           runner : Runner \cup {NoRunner},   \* RunnerPID
           backendPID : BOOLEAN,              \* BackendPID > 0
           exited : BOOLEAN,                  \* BackendExited
           code : BOOLEAN]                    \* ExitCode # nil

\* No file sessions/<id>.json.
Absent == [state |-> "absent", proto |-> 0, runner |-> NoRunner,
           backendPID |-> FALSE, exited |-> FALSE, code |-> FALSE]

NewRecord == [Absent EXCEPT !.state = "starting"]

\* A record as a release without ShutdownProtocol left it for a live session.
LegacyRecord(r, state) ==
    [Absent EXCEPT !.state = state, !.runner = r, !.backendPID = TRUE]

\* What validateRecord demands of an acknowledgement before every write.
ValidRecord(d) == d.exited => d.proto = 1 /\ d.code

Present(d) == d.state # "absent"
Active(d) == d.state \in {"starting", "running", "stopping"}
Runnable(d) == d.state \in {"starting", "running"}
Terminal(d) == d.state \in {"stopped", "failed"}

\* Mutant: an exit is expected only once the backend's PID is recorded.
ExitUnconfirmedByPID(d) ==
    \/ d.proto = 1 /\ d.backendPID /\ ~d.exited
    \/ d.proto = 0 /\ (d.backendPID \/ d.runner # NoRunner) /\ ~d.code

\* Mutant: records of older releases are taken for confirmed.
ExitUnconfirmedNewOnly(d) == d.proto = 1 /\ ~d.exited

ExitUnconfirmed(d) ==
    \/ d.proto = 1 /\ ~d.exited
    \/ d.proto = 0 /\ (d.backendPID \/ d.runner # NoRunner) /\ ~d.code

-----------------------------------------------------------------------------
FailLaunch(d) ==
    IF d.state = "starting" THEN [d EXCEPT !.state = "failed"] ELSE d

\* Mutant: the claim does not look at the state.
CanClaimEnded(d) == d.runner = NoRunner

CanClaimRunner(d) == Runnable(d) /\ d.runner = NoRunner
ClaimRunner(d, r) == [d EXCEPT !.proto = 1, !.runner = r]

CanMarkStarted(d, r) ==
    \/ d.state = "starting"
    \/ /\ d.state = "running"
       /\ d.proto = 1 /\ d.runner = r /\ ~d.backendPID
MarkStarted(d, r) ==
    [d EXCEPT !.state = "running", !.runner = r, !.backendPID = TRUE]

\* Mutant: the exit code is left out of the acknowledgement.
FinishWithoutCode(d) ==
    [d EXCEPT !.exited = TRUE, !.state = IF Runnable(d) THEN "stopped" ELSE @]

FinishAcknowledged(d) ==
    IF d.exited THEN d
    ELSE [d EXCEPT !.exited = TRUE, !.code = TRUE,
                   !.state = IF Runnable(d) THEN "stopped" ELSE @]
\* Mutant: the same for a record of an older release.
FinishLegacyWithoutCode(d) ==
    IF d.state = "failed" THEN d ELSE [d EXCEPT !.state = "stopped"]

FinishLegacy(d) ==
    IF d.state = "failed" THEN d
    ELSE [d EXCEPT !.state = "stopped", !.code = TRUE]
Finish(d) == IF d.proto = 1 THEN FinishAcknowledged(d) ELSE FinishLegacy(d)

CanRequestStop(d) == Active(d)
RequestStop(d) == [d EXCEPT !.state = "stopping"]

\* Mutant: the record is not checked again under the lock.
CanStopUnconfirmed(d) == Present(d)

CanStop(d) == Present(d) /\ ~ExitUnconfirmed(d)

\* Mutant: only a runnable session is marked stopped.
StopRunnable(d) == IF Runnable(d) THEN [d EXCEPT !.state = "stopped"] ELSE d

Stop(d) == IF Active(d) THEN [d EXCEPT !.state = "stopped"] ELSE d

\* Mutant: the state of the listed snapshot is trusted.
SeenRunningStale(d) == IF Present(d) THEN [d EXCEPT !.state = "running"] ELSE d

\* The closure reconcile passes to Store.Update for a session whose socket it
\* saw: the record is read again under the lock and a stop or an end wins.
SeenRunning(d) == IF Runnable(d) THEN [d EXCEPT !.state = "running"] ELSE d

\* Mutant: a terminal state is enough.
CanDeleteUnconfirmed(d) == Present(d) /\ ~Active(d)

CanDelete(d) == Present(d) /\ ~Active(d) /\ ~ExitUnconfirmed(d)

=============================================================================
