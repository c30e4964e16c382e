-------------------------- MODULE SessionProperties --------------------------
(***************************************************************************)
(* What the session manager, the runner and the store together promise.    *)
(***************************************************************************)
EXTENDS SessionLifecycle

Live(r) == backend[r] = "alive"

\* A runner that has taken the one-use launch request and is not done with it.
Holding == {"claim", "spawn", "startFailed", "mark", "unmarked", "watch",
            "term", "killed", "finish"}

-----------------------------------------------------------------------------
\* A live backend is never orphaned: its record exists, is not stopped, names
\* the one runner that owns it and says that the exit is unconfirmed, which is
\* what keeps Stop, Prune and uninstall from discarding the session (ClaimRunner
\* before cmd.Start, Finish after Wait, Store.stop, Store.Delete).
NoOrphan ==
    \A r \in Runner : Live(r) =>
        /\ RecordOf(r).state \notin {"absent", "stopped"}
        /\ RecordOf(r).runner = r
        /\ ExitUnconfirmed(RecordOf(r))

\* The arguments of a launch request reach one runner: ConsumeLaunch renames
\* the request away, and nobody publishes a second one.
LaunchUsedOnce ==
    \A q, r \in Runner :
        /\ SessionOf[q] = SessionOf[r]
        /\ rpc[q] \in Holding /\ rpc[r] \in Holding
        => q = r

\* A creation past AdmitCreate runs alone under the admission lock, with the
\* configuration it was admitted under still in force.
AdmittedCreation ==
    \A m \in Manager : mgr[m].pc \in CreatingPC =>
        lock = m /\ config = mgr[m].cfg

\* No backend outlives the program: uninstall commits only when every listed
\* session has ended and its exit is confirmed, and nothing starts afterwards.
UninstallEndsBackends ==
    inst # "installed" => \A r \in Runner : ~Live(r)

\* A purge is final: no creation that waited for the admission lock, and no
\* runner that comes late, publishes a record or a launch request after it.
PurgeIsFinal ==
    inst = "removed" /\ purge =>
        launch = {} /\ \A s \in Session : ~Present(rec[s])

\* SECURITY.md: "Unconfirmed exits block prune/uninstall even when Screen's
\* socket is gone."  Stated of uninstall, at the commit of its journal.
UnconfirmedExitBlocksUninstall ==
    [][inst = "installed" /\ inst' = "committed" =>
          \A s \in Session : ~ExitUnconfirmed(rec[s])]_vars

-----------------------------------------------------------------------------
Rank(d) == CASE d.state = "starting" -> 0
             [] d.state = "running"  -> 1
             [] d.state = "stopping" -> 2
             [] d.state \in {"stopped", "failed"} -> 3
             [] d.state = "absent"   -> 4

\* A lifecycle never goes back: a stop intent or an end once written is never
\* overwritten by a runner's late update or by a reconciliation that works on
\* an old snapshot, and an acknowledged exit is never taken back.
LifecycleForward ==
    [][\A s \in Session : Present(rec[s]) =>
          /\ Rank(rec[s]) <= Rank(rec'[s])
          /\ rec[s].exited /\ Present(rec'[s]) => rec'[s].exited]_vars

\* A backend starts only for a session whose stop can still wait for it: the
\* record names the runner, and no stop or prune has finished on it.
StartsUnderClaim ==
    [][\A r \in Runner : ~Live(r) /\ Live(r)' =>
          /\ Active(RecordOf(r)) \/ RecordOf(r).state = "failed"
          /\ RecordOf(r).runner = r /\ ~RecordOf(r).exited]_vars

\* When `stop` reports success the session has ended for good: no backend of it
\* is alive, and its record has the stopped or failed state.
StopMeansEnded ==
    [][\A m \in Manager, s \in Session :
          /\ At(m, "final") /\ s \in mgr[m].sel
          /\ FinalizeStop(m, s) /\ CanStop(rec[s])
          => /\ Terminal(rec'[s])
             /\ \A r \in Runner : SessionOf[r] = s => ~Live(r)]_vars

\* The lifecycle implements the contract: the claim of a session is the runner
\* on its record, outstanding until ExitUnconfirmed is false.
AbstractPhase(d) ==
    CASE d.state = "absent" -> "absent"
      [] Runnable(d) -> "open"
      [] d.state = "stopping" -> "stopping"
      [] d.state = "stopped" -> "ended"
      [] d.state = "failed" -> "failed"
AbstractChild(d) ==
    CASE d.runner = NoRunner -> "none"
      [] d.runner # NoRunner /\ ~ExitUnconfirmed(d) -> "acknowledged"
      [] d.runner # NoRunner /\ ExitUnconfirmed(d) ->
            CASE backend[d.runner] = "none" -> "claimed"
              [] backend[d.runner] = "alive" -> "alive"
              [] backend[d.runner] = "dead" -> "gone"

Contract == INSTANCE SessionContract
            WITH phase <- [s \in Session |-> AbstractPhase(rec[s])],
                 child <- [s \in Session |-> AbstractChild(rec[s])]

\* Every step of managers, runners and Screen is a step of the contract or
\* leaves the sessions as they are.
ImplementsContract == Contract!Spec

-----------------------------------------------------------------------------
\* Every process that is running goes on; a killed child is gone after a while,
\* and a Screen server leaves once its window's process has.
WindowOpen(s) ==
    \E r \in Runner \ ByHand : SessionOf[r] = s /\ rpc[r] \notin {"idle", "exited", "crashed"}

Fairness ==
    /\ \A m \in Manager : WF_vars(ManagerStep(m))
    /\ \A r \in Runner : WF_vars(RunnerStep(r))
    /\ \A r \in Runner : WF_vars(rpc[r] \in {"killed", "unmarked"} /\ BackendExits(r))
    /\ \A s \in Session : WF_vars((~WindowOpen(s) \/ sock[s] = "quitting") /\ ScreenDies(s))
    /\ \A s \in Session : WF_vars(GraceEnds(s))

\* The user runs `list` again and again where it is not killed, and Screen
\* answers now and then.
Listing ==
    \A m \in Manager \ Crashable :
        "list" \in CommandsOf[m] => SF_vars(StartCommand(m, "list")) /\ SF_vars(ListSockets(m))

FairSpec == Spec /\ Fairness
ListingSpec == Spec /\ Fairness /\ Listing

\* A session that is not runnable any more does not keep its backend: the
\* runner notices, terminates and in the end kills it, unless it crashed.
StopEndsBackend ==
    \A r \in Runner :
        (Live(r) /\ ~Runnable(RecordOf(r))) ~> (~Live(r) \/ rpc[r] = "crashed")

\* Nobody keeps the admission lock: every path of Create and uninstall that
\* takes it gives it back, so no runner, list or setup waits for ever.
AdmissionFreed ==
    \A m \in Manager : lock = m ~> lock # m

\* A requested stop is completed even if the process that asked for it gave
\* up, once the exit is acknowledged: a later list finishes it.
StoppingSettles ==
    \A s \in Session :
        (rec[s].state = "stopping" /\ ~ExitUnconfirmed(rec[s])) ~> rec[s].state # "stopping"

\* No launch request stays on disk where the program does: the runner consumes
\* it, or the end of the session or a later cleanup removes it, wherever its
\* creator stopped.
LaunchGoesAway ==
    \A s \in Session : s \in launch ~> (s \notin launch \/ inst # "installed")
=============================================================================
