----------------------------- MODULE StartupFile -----------------------------
(***************************************************************************)
(* The PATH block in a shell startup file and the install ledger's record  *)
(* of it: setup (shell.go, setup_shell_transaction.go) writes both under   *)
(* one journal, uninstall takes the block out by the record, an update     *)
(* (install.go) carries the record over, under a journal of its own that    *)
(* keeps a copy of the ledger, and the user edits the file.                *)
(*                                                                         *)
(* A text is lines and whether the newline of the last is missing; markers *)
(* have lines of their own.  How a file is exchanged, and what another     *)
(* program may do to it meanwhile, is SetupTransaction's subject, and an   *)
(* uninstall is one step here: UninstallTransaction has its steps.  An     *)
(* update holds the install lock throughout and touches the ledger alone   *)
(* of the two, so here it ends in one step as well, but in every way it    *)
(* can end: done, or cut off before or behind the writing of the ledger.   *)
(***************************************************************************)
EXTENDS Naturals, Sequences, SeqFilter

CONSTANTS Bin,          \* the directories a block may put on PATH
          NoBin, Absent, NoRecord, NoPlan, NoUpdate,
          MaxLines,     \* how long the file is at first
          MaxEdits      \* how often the user edits the file

OwnLine == {"own", "alias"}     \* the user's lines that are not blank
Line == OwnLine \cup {"blank", "start", "end"} \cup Bin
Marker == {"start", "end"}

ASSUME BinAssumption ==
    /\ NoBin \notin Bin
    /\ Bin \cap (OwnLine \cup Marker \cup {"blank"}) = {}
ASSUME FileBounds == MaxLines \in Nat /\ MaxEdits \in Nat

Text == [lines : Seq(Line), open : BOOLEAN]
ASSUME AbsentAssumption == Absent \notin Text

\* ledger.json: the release that is current, and the block recorded as ours,
\* by its digest, with whether setup created the file for it.
Record == [release : {1, 2}, block : Bin \cup {NoBin}, created : BOOLEAN]
ASSUME NoRecordAssumption == NoRecord \notin Record

\* setup-transaction.json, as far as these two targets go.
Plan == [before : Text \cup {Absent}, after : Text,
         recordBefore : Record \cup {NoRecord}, recordAfter : Record \cup {NoRecord}]
ASSUME NoPlanAssumption == NoPlan \notin Plan

\* transaction.json: the ledger from before the update, and the digest of the new one.
Update == [prior : Record \cup {NoRecord}, new : Record]
ASSUME NoUpdateAssumption == NoUpdate \notin Update

VARIABLES
    file,       \* the startup file
    record,     \* ledger.json
    plan,       \* setup-transaction.json
    stage,      \* how far the setup in progress is
    update,     \* transaction.json, where an update has left it behind
    crossed,    \* history: a setup was undone in the ledger while there was one
    edits       \* how often the user has edited the file

startupVars == <<file, record, plan, stage, update, crossed, edits>>

StartupTypeOK ==
    /\ file \in Text \cup {Absent} /\ record \in Record \cup {NoRecord}
    /\ plan \in Plan \cup {NoPlan}
    /\ stage \in {"none", "planned", "profile", "applied"}
    /\ update \in Update \cup {NoUpdate} /\ crossed \in BOOLEAN
    /\ edits \in 0 .. MaxEdits

\* Any file, markers included.
Short == UNION {[1 .. n -> Line] : n \in 0 .. MaxLines}
StartupInit ==
    /\ file \in {Absent} \cup {text \in [lines : Short, open : BOOLEAN] : text.open => text.lines # <<>>}
    /\ record = NoRecord /\ plan = NoPlan
    /\ stage = "none" /\ edits = 0
    /\ update = NoUpdate /\ crossed = FALSE

-----------------------------------------------------------------------------
Block(bin) == <<"start", bin, "end">>

Marks(lines) == {i \in DOMAIN lines : lines[i] \in Marker}

\* managedBlockBounds: no marker, or one pair of them; all else is refused.
BlockAt(lines, i, j) ==
    i < j /\ Marks(lines) = {i, j} /\ lines[i] = "start" /\ lines[j] = "end"
Unmarked(lines) == Marks(lines) = {}
Damaged(lines) ==
    ~Unmarked(lines) /\ ~\E i, j \in DOMAIN lines : BlockAt(lines, i, j)

StartOf(lines) == CHOOSE i \in Marks(lines) : lines[i] = "start"
EndOf(lines) == CHOOSE j \in Marks(lines) : lines[j] = "end"
Outside(lines) == <<SubSeq(lines, 1, StartOf(lines) - 1), SubSeq(lines, EndOf(lines) + 1, Len(lines))>>

Closed(text, j) == j < Len(text.lines) \/ ~text.open

\* Mutant: the first block it finds is cut out to the last end marker.
ReplacedToEnd(text, bin) ==
    IF Unmarked(text.lines)
    THEN [lines |-> text.lines \o Block(bin), open |-> FALSE]
    ELSE [lines |-> Outside(text.lines)[1] \o Block(bin), open |-> FALSE]

\* replaceManagedBlock
Replaced(text, bin) ==
    IF Unmarked(text.lines)
    THEN [lines |-> text.lines \o Block(bin), open |-> FALSE]
    ELSE [lines |-> Outside(text.lines)[1] \o Block(bin) \o Outside(text.lines)[2],
          open |-> text.open /\ EndOf(text.lines) < Len(text.lines)]

\* The block of the recorded digest, its final newline included.
BlockIntact(text, bin) ==
    \E i, j \in DOMAIN text.lines :
        /\ BlockAt(text.lines, i, j) /\ Closed(text, j)
        /\ SubSeq(text.lines, i, j) = Block(bin)

\* prepareOwnedShellRemoval
BlockRemoved(text) ==
    [lines |-> Outside(text.lines)[1] \o Outside(text.lines)[2],
     open |-> text.open /\ EndOf(text.lines) < Len(text.lines)]
Blank(lines) == \A i \in DOMAIN lines : lines[i] = "blank"

-----------------------------------------------------------------------------
\* prepareShellPATH, updateShellOwnership and the journal with both targets.
\* Without an installation (Homebrew) there is no ledger to record anything in;
\* with one, an update that was cut off is recovered first.
PlanSetup(bin) ==
    /\ stage = "none" /\ plan = NoPlan
    /\ record # NoRecord => update = NoUpdate
    /\ LET original == IF file = Absent THEN [lines |-> <<>>, open |-> FALSE] ELSE file
       IN  /\ ~Damaged(original.lines)
           /\ plan' = [before |-> file, after |-> Replaced(original, bin),
                       recordBefore |-> record,
                       recordAfter |->
                           IF record = NoRecord THEN NoRecord
                           ELSE [record EXCEPT !.block = bin,
                                               !.created = @ \/ file = Absent]]
    /\ stage' = "planned"
    /\ UNCHANGED <<file, record, update, crossed, edits>>

\* A profile that would not change is no target, nor is a ledger there is not.
ProfileListed == plan.before # plan.after
RecordListed == plan.recordBefore # NoRecord

\* The install lock is held from here ...
ApplyProfile ==
    /\ stage = "planned" /\ file = plan.before
    /\ RecordListed => update = NoUpdate /\ record = plan.recordBefore
    /\ file' = plan.after
    /\ stage' = "profile"
    /\ UNCHANGED <<record, plan, update, crossed, edits>>

\* ... to here.
ApplyRecord ==
    /\ stage = "profile"
    /\ record' = IF RecordListed THEN plan.recordAfter ELSE record
    /\ stage' = "applied"
    /\ UNCHANGED <<file, plan, update, crossed, edits>>

\* What else setup does lies between; then the targets must be as applied.
CommitSetup ==
    /\ stage = "applied"
    /\ ProfileListed => file = plan.after
    /\ RecordListed => record = plan.recordAfter
    /\ plan' = NoPlan
    /\ stage' = "none"
    /\ UNCHANGED <<file, record, update, crossed, edits>>

\* Setup fails or is cut off anywhere: its locks are free, its journal is there.
StopSetup ==
    /\ stage # "none"
    /\ stage' = "none"
    /\ UNCHANGED <<file, record, plan, update, crossed, edits>>

\* rollbackSetupEntry: what was there comes back over what setup put there, or
\* over nothing; a target found missing is then refused for its artifacts.
PutBack(now, before, after) ==
    IF now = after \/ now = Absent THEN before ELSE now
Accepted(now, before, after) == now \in {before, after}

\* Mutant: the ledger keeps what the interrupted setup recorded.
RollBackProfile ==
    /\ file' = IF ProfileListed THEN PutBack(file, plan.before, plan.after) ELSE file
    /\ record' = record

RollBack ==
    /\ file' = IF ProfileListed THEN PutBack(file, plan.before, plan.after) ELSE file
    /\ record' = IF RecordListed THEN PutBack(record, plan.recordBefore, plan.recordAfter)
                                 ELSE record

BothAccepted ==
    /\ ProfileListed => Accepted(file, plan.before, plan.after)
    /\ RecordListed => Accepted(record, plan.recordBefore, plan.recordAfter)

\* It takes the install lock, but leaves the journal of an update where it is.
NoteCrossing == crossed' = (crossed \/ (update # NoUpdate /\ record' # record))

\* The rollback of a failed setup, or of the last one by the next.
UndoSetup ==
    /\ stage = "none" /\ plan # NoPlan /\ BothAccepted
    /\ RollBack /\ NoteCrossing
    /\ plan' = NoPlan
    /\ UNCHANGED <<stage, update, edits>>

\* One of the two is refused, the other is put back all the same.
UndoRefused ==
    /\ stage = "none" /\ plan # NoPlan /\ ~BothAccepted
    /\ RollBack /\ NoteCrossing
    /\ UNCHANGED <<plan, stage, update, edits>>

-----------------------------------------------------------------------------
\* A first install, or an update or rollback: another release, the blocks as
\* they were.
Updated(release) ==
    IF record = NoRecord THEN [release |-> release, block |-> NoBin, created |-> FALSE]
    ELSE [record EXCEPT !.release = release]

\* They wait for the install lock and recover what was cut off before them, but
\* know nothing of a setup that is pending.
Starts(release) ==
    /\ stage # "profile" /\ update = NoUpdate
    /\ record # NoRecord => record.release # release
    /\ UNCHANGED <<file, plan, stage, crossed, edits>>

Activate(release) ==
    /\ Starts(release)
    /\ record' = Updated(release)
    /\ UNCHANGED update

\* Cut off between its journal and the end, or failed with its own rollback or
\* at pruning: the journal stays, and the ledger is the old or the new one.
CutOff(release) ==
    /\ Starts(release)
    /\ update' = [prior |-> record, new |-> Updated(release)]
    /\ record' \in {record, Updated(release)}

\* What install, rollback, setup and uninstall begin with under the lock: a
\* complete update stays, any other ledger is replaced by the copy, unseen.  One
\* that has its ledger may still be incomplete, by a launcher for instance.
RecoverUpdate ==
    /\ stage # "profile" /\ update # NoUpdate
    /\ \/ record = update.new /\ record' = record
       \/ record' = update.prior
    /\ update' = NoUpdate
    /\ UNCHANGED <<file, plan, stage, crossed, edits>>

\* A recorded block must be there as it was written.
Removable == record.block # NoBin => file # Absent /\ BlockIntact(file, record.block)

Uninstall ==
    /\ stage = "none" /\ plan = NoPlan /\ update = NoUpdate /\ record # NoRecord
    /\ Removable
    /\ IF record.block = NoBin THEN file' = file
       ELSE file' = IF record.created /\ Blank(BlockRemoved(file).lines) THEN Absent ELSE BlockRemoved(file)
    /\ record' = NoRecord
    /\ UNCHANGED <<plan, stage, update, crossed, edits>>

-----------------------------------------------------------------------------
\* The user adds or deletes a line, the last newline or the file.
EditFile(text) ==
    /\ edits < MaxEdits
    /\ file' = text
    /\ edits' = edits + 1
    /\ UNCHANGED <<record, plan, stage, update, crossed>>

UserEdits ==
    \/ /\ file = Absent
       /\ \E line \in OwnLine \cup {"blank"} : EditFile([lines |-> <<line>>, open |-> FALSE])
    \/ /\ file # Absent
       /\ \/ EditFile(Absent)
          \/ EditFile([file EXCEPT !.open = ~@ /\ file.lines # <<>>])
          \/ \E i \in DOMAIN file.lines :
                EditFile([file EXCEPT !.lines = SubSeq(@, 1, i - 1) \o SubSeq(@, i + 1, Len(@))])
          \/ \E i \in 0 .. Len(file.lines), line \in {"own", "blank", "start", "end"} :
                EditFile([file EXCEPT !.lines = SubSeq(@, 1, i) \o <<line>> \o SubSeq(@, i + 1, Len(@))])

SetupStep ==
    \/ \E bin \in Bin : PlanSetup(bin)
    \/ ApplyProfile \/ ApplyRecord \/ CommitSetup \/ StopSetup
    \/ UndoSetup \/ UndoRefused

StartupNext ==
    \/ SetupStep
    \/ \E release \in {1, 2} : Activate(release) \/ CutOff(release)
    \/ RecoverUpdate
    \/ Uninstall
    \/ UserEdits

StartupSpec == StartupInit /\ [][StartupNext]_startupVars

-----------------------------------------------------------------------------
\* The user's lines that are not blank, but those inside a block.
UserLines(text) ==
    IF text = Absent THEN <<>>
    ELSE LET lines == text.lines
             theirs == IF Unmarked(lines) \/ Damaged(lines) THEN lines
                       ELSE Outside(lines)[1] \o Outside(lines)[2]
         IN  Without(theirs, Line \ OwnLine)

\* Whatever setup, its recovery, update and uninstall do, and whatever the user
\* made of the file in between, the user's lines stay, in their order: blocks
\* are exchanged, added and taken out, a backup never comes back over an edit,
\* and only a file without any such line is deleted.
UserTextKept ==
    [][edits' = edits /\ file # Absent => UserLines(file') = UserLines(file)]_startupVars

\* Unless the user edits the file, a block that the ledger records is in it as
\* recorded whenever no setup is pending, so uninstall does not refuse it: failed
\* setups, changes of the directory and updates on the way included, and updates
\* that were cut off and then recovered.  But for one order: where a setup is
\* undone in the ledger while the journal of a cut-off update is still there
\* (setup_transaction.go:1498-1512 does not recover it), that journal puts back
\* the ledger of the undone setup (install.go:1017), and nothing is claimed.
RecordMatches ==
    /\ stage = "none" /\ plan = NoPlan /\ edits = 0 /\ ~crossed
    /\ record # NoRecord /\ record.block # NoBin
    => file # Absent /\ BlockIntact(file, record.block)

\* setup_transaction.go, to the user: "an interrupted setup transaction requires
\* recovery; rerun `sclaude setup`".  Unless the user edits it, the rerun finds
\* the file and the ledger in a state that it takes back.
RerunRecovers ==
    stage = "none" /\ plan # NoPlan /\ edits = 0 => BothAccepted
=============================================================================
