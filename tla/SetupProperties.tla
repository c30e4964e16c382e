---------------------------- MODULE SetupProperties ----------------------------
(***************************************************************************)
(* What a setup and its recovery promise.                                  *)
(***************************************************************************)
EXTENDS SetupTransaction

\* Without a journal every target is as before the last setup or as it meant it
\* to be, the same for all that nobody else has changed, and nothing of the
\* transaction is left beside them: what LoadRuntime reads is never a mixture.
AllOrNothing ==
    journal = NoJournal =>
        /\ \A p \in Target : Clean(p)
        /\ \/ \A p \in Target : edit[p] = "none" => Prepared(p)
           \/ \A p \in Target : edit[p] = "none" => Final(p)

\* Whatever is exchanged, undone or cut off, what somebody else has put at a
\* target or written into it is there or under one of its other names, and so
\* is the original until the commit (Exchange and its check of what it displaced).
NothingLost ==
    \A p \in Target :
        LET Kept(f) == \E n \in Artifact \cup {"path"} : at[p][n] = f
        IN  /\ edit[p] = "replaced" => Kept("user")
            /\ edit[p] \in {"before", "after"} => Kept(edit[p])
            /\ journal # NoJournal /\ kind[p] # "created" /\ edit[p] = "none" =>
                   journal.committed \/ Kept("before")

\* A committed setup is only ever finished: no target changes any more but by
\* somebody else, and the journal goes when all are final (commit,
\* reconcileCommitError).
CommittedIsFinal ==
    [][journal # NoJournal /\ journal.committed =>
           /\ \A p \in Target : at'[p].path # at[p].path => edit'[p] # edit[p]
           /\ journal' # journal => journal' = NoJournal /\ \A p \in Target : Final(p)]_vars

\* A setup that is undone leaves the service as it was found, as far as the
\* journal says that setup has touched it, whatever command failed on the way.
ServiceRestored ==
    [][journal # NoJournal /\ ~journal.committed /\ journal' = NoJournal =>
           /\ journal.flags.active => service.active = journal.prior.active
           /\ journal.flags.scheduled => service.scheduled = journal.prior.scheduled]_vars

\* No file is put back under a service that setup has started (quiesce).
RollbackIsQuiet ==
    op.pc \in EntryPC /\ op.flags.active => ~service.active

\* A login that an interrupted setup may have run is never passed over by the
\* next one in silence: it ends there and says so (OAuthAttempted).
LoginReported ==
    [][op.pc = "restored" /\ op'.pc = "prepare" => ~service.login]_vars

\* What the next call on a target that is put back, or its check, needs.
Passes(p) ==
    /\ op.pc = "rollback" => Prepared(p) \/ Overwritten(p) \/ Created(p) \/ Vanished(p)
    /\ op.pc \in {"swap", "quarantine"} => at[p].path # "none"
    /\ op.pc = "quarantine" => at[p].replacement = "none"
    /\ op.pc = "swapped" => Intact(p, "replacement", "after") /\ at[p].path = "before"
    /\ op.pc = "quarantined" => Intact(p, "replacement", "after") /\ at[p].path = "none"
    /\ op.pc = "relink" => at[p].path = "none"
    /\ op.pc = "cleanup" => ArtifactsValid(p, "after")
    /\ op.pc = "remove" => Prepared(p)

\* Unless somebody else has changed a target, recovery never refuses: no
\* sequence of failures, an earlier recovery's included, leaves something that
\* the next setup can neither undo nor finish, target by target and at its end.
Recoverable ==
    op.recovering /\ (\A p \in Target : edit[p] = "none") =>
        /\ \A p \in Target : Last(p) => Passes(p)
        /\ op.pc = "restored" =>
              (\A p \in Target : Prepared(p)) /\ ~op.unsaved /\ op.flags = journal.flags
        /\ op.pc = "finalize" => Finalizable
        /\ op.pc = "forget" => \A p \in Target : Final(p)

\* "setup transaction artifact %s is not transaction-owned": a rollback that has
\* its target back does not say so of files that are the transaction's own.
OwnArtifactsAccepted ==
    \A p \in Target :
        op.pc = "cleanup" /\ Last(p) /\ Prepared(p)
            /\ (\A n \in Artifact : at[p][n] \in {"none", "before", "after"} \ {edit[p]}) =>
                ArtifactsValid(p, "after")
=============================================================================
