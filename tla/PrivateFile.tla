----------------------------- MODULE PrivateFile -----------------------------
(***************************************************************************)
(* How one private file is written: writeAtomic and WriteNewVerified of    *)
(* internal/fssecure/directory.go, by themselves (writeSetupFile, staged   *)
(* files and journals of setup) and from savePrivateAtomic of              *)
(* internal/config/config.go, which adds checks before and after.  Any     *)
(* other program may replace, remove or write to the file between two      *)
(* system calls; the .sclaude- names, random, are the writer's own.        *)
(*                                                                         *)
(* A file is its inode; others put files under the name that were never    *)
(* there before.  That an inode number is used again, so that os.SameFile  *)
(* takes a new file for an old one, looks here like a write in place.  A   *)
(* replaced directory is one more reason to give up.                       *)
(***************************************************************************)
CONSTANTS Inode,      \* as many files as may come into being
          NoFile

ASSUME NoFileAssumption == NoFile \notin Inode

VARIABLES
    target,     \* the file under the name
    retained,   \* the files under .sclaude- names
    data,       \* inode -> whose data it is: "none" if it was never used
    save,       \* the write in progress
    \* To state the properties; no step depends on it.
    theirs      \* the file others last put under the name or wrote to there

privateVars == <<target, retained, data, save, theirs>>

Save == [pc : {"idle", "first", "prepare", "inspect", "before", "publish", "compare",
               "after", "confirm", "sync"},
         kind : {"replace", "new", "config"},
         first : Inode \cup {NoFile},       \* what savePrivateAtomic found
         seen : Inode \cup {NoFile},        \* what writeAtomic found
         mine : Inode \cup {NoFile},        \* the file it prepared
         displaced : Inode \cup {NoFile}]   \* what its name holds since

NoSave == [pc |-> "idle", kind |-> "new", first |-> NoFile, seen |-> NoFile,
           mine |-> NoFile, displaced |-> NoFile]

PrivateTypeOK ==
    /\ target \in Inode \cup {NoFile} /\ theirs \in Inode \cup {NoFile}
    /\ retained \in SUBSET Inode
    /\ data \in [Inode -> {"none", "part", "ours", "theirs"}]
    /\ save \in Save

PrivateInit ==
    /\ target \in Inode \cup {NoFile}
    /\ theirs = target
    /\ retained = {}
    /\ data = [i \in Inode |-> IF i = target THEN "theirs" ELSE "none"]
    /\ save = NoSave

Continue(pc) == save' = [save EXCEPT !.pc = pc]
FilesStay == UNCHANGED <<target, retained, data, theirs>>

\* The next file that comes into being.
Unused(i) == data[i] = "none" /\ i = CHOOSE j \in Inode : data[j] = "none"

-----------------------------------------------------------------------------
StartSave(kind) ==
    /\ save.pc = "idle"
    /\ save' = [NoSave EXCEPT !.kind = kind, !.pc = IF kind = "config" THEN "first" ELSE "prepare"]
    /\ FilesStay

InspectFirst ==
    /\ save.pc = "first"
    /\ save' = [save EXCEPT !.pc = "prepare", !.first = target]
    /\ FilesStay

\* createPreparedFile, up to its fsync
PrepareFile(i) ==
    /\ save.pc = "prepare" /\ Unused(i)
    /\ retained' = retained \cup {i}
    /\ data' = [data EXCEPT ![i] = "ours"]
    /\ save' = [save EXCEPT !.mine = i, !.pc = IF save.kind = "new" THEN "publish" ELSE "inspect"]
    /\ UNCHANGED <<target, theirs>>

PrepareFileFails(i) ==
    /\ save.pc = "prepare" /\ Unused(i)
    /\ retained' = retained \cup {i}
    /\ data' = [data EXCEPT ![i] = "part"]
    /\ save' = NoSave
    /\ UNCHANGED <<target, theirs>>

InspectTarget ==
    /\ save.pc = "inspect"
    /\ save' = [save EXCEPT !.seen = target,
                            !.pc = IF save.kind = "config" THEN "before" ELSE "publish"]
    /\ FilesStay

\* beforePublish of savePrivateAtomic
BeforePublish ==
    /\ save.pc = "before" /\ target = save.first
    /\ Continue("publish")
    /\ FilesStay

\* renameNoReplaceAt
PublishNew ==
    /\ save.pc = "publish" /\ save.seen = NoFile /\ target = NoFile
    /\ target' = save.mine
    /\ retained' = retained \ {save.mine}
    /\ Continue(IF save.kind = "new" THEN "sync" ELSE "after")
    /\ UNCHANGED <<data, theirs>>

\* Mutant: the prepared file is renamed over the target.
PublishOver ==
    /\ save.pc = "publish" /\ save.seen # NoFile /\ target # NoFile
    /\ target' = save.mine
    /\ retained' = retained \ {save.mine}
    /\ save' = [save EXCEPT !.pc = "compare", !.displaced = target]
    /\ UNCHANGED <<data, theirs>>

\* exchangeAt
PublishExchange ==
    /\ save.pc = "publish" /\ save.seen # NoFile /\ target # NoFile
    /\ target' = save.mine
    /\ retained' = (retained \ {save.mine}) \cup {target}
    /\ save' = [save EXCEPT !.pc = "compare", !.displaced = target]
    /\ UNCHANGED <<data, theirs>>

\* Mutant: only what was published is looked at.
CompareTarget ==
    /\ save.pc = "compare" /\ target = save.mine
    /\ Continue("after")
    /\ FilesStay

CompareBoth ==
    /\ save.pc = "compare" /\ save.displaced = save.seen /\ target = save.mine
    /\ Continue("after")
    /\ FilesStay

\* afterPublish: savePrivateAtomic reads the file again.
AfterPublish ==
    /\ save.pc = "after"
    /\ save.kind # "replace" => target = save.mine
    /\ save.kind = "config" => data[save.mine] = "ours"
    /\ Continue("confirm")
    /\ FilesStay

Confirm ==
    /\ save.pc = "confirm" /\ target = save.mine
    /\ IF save.kind = "new" THEN save' = NoSave ELSE Continue("sync")
    /\ FilesStay

\* WriteNewVerified syncs before it looks, writeAtomic as its last step.
SyncParent ==
    /\ save.pc = "sync"
    /\ IF save.kind = "new" THEN Continue("after") ELSE save' = NoSave
    /\ FilesStay

\* An error, a check that failed, or the death of the process: every file
\* stays where it is.
Abandon ==
    /\ save.pc # "idle"
    /\ save' = NoSave
    /\ FilesStay

-----------------------------------------------------------------------------
\* What other programs do.
ReplaceTarget(i) ==
    /\ Unused(i)
    /\ target' = i /\ theirs' = i
    /\ data' = [data EXCEPT ![i] = "theirs"]
    /\ UNCHANGED <<retained, save>>

RemoveTarget ==
    /\ target # NoFile
    /\ target' = NoFile /\ theirs' = NoFile
    /\ UNCHANGED <<retained, data, save>>

WriteInPlace ==
    /\ target # NoFile
    /\ theirs' = target
    /\ data' = [data EXCEPT ![target] = "theirs"]
    /\ UNCHANGED <<target, retained, save>>

SaveStep ==
    \/ \E kind \in {"replace", "new", "config"} : StartSave(kind)
    \/ \E i \in Inode : PrepareFile(i) \/ PrepareFileFails(i)
    \/ InspectFirst \/ InspectTarget \/ BeforePublish
    \/ PublishNew \/ PublishExchange \/ CompareBoth
    \/ AfterPublish \/ Confirm \/ SyncParent \/ Abandon

PrivateNext ==
    \/ SaveStep
    \/ \E i \in Inode : ReplaceTarget(i)
    \/ RemoveTarget \/ WriteInPlace

PrivateSpec == PrivateInit /\ [][PrivateNext]_privateVars

-----------------------------------------------------------------------------
\* SECURITY.md: "Atomic replacement may retain private .sclaude-* artifacts ...
\* including unpublished or displaced contents."  What another program last put
\* under the name, or wrote to the file there, is under that name or a retained
\* one with its data: a save may race an editor but destroys nothing of it.
ContentRetained ==
    theirs # NoFile => theirs \in {target} \cup retained /\ data[theirs] = "theirs"

\* A configuration that gets as far as its last sync was published over the very
\* file, or absence of one, that the save found when it began: what an editor
\* put there in the meantime makes it fail ("configuration target changed").
NoBlindOverwrite ==
    save.kind = "config" /\ save.pc = "sync" => save.displaced = save.first
=============================================================================
