---------------------------- MODULE SessionFiles ----------------------------
(***************************************************************************)
(* The files below the session store, call by call: writeJSONAtomic, the   *)
(* claim of ConsumeLaunch, removals, and the sweep of what a crash left    *)
(* (internal/session/store.go, storage_security.go).  SessionLifecycle     *)
(* takes each store operation as one step; here it is the system calls it  *)
(* makes, any of which may fail, with the death of the process or of the   *)
(* machine between any two.                                                *)
(*                                                                         *)
(* The flock admits one operation at a time, so one is in progress at      *)
(* most: when its process returns or dies the next may begin, in any       *)
(* process.  `visible` is what a process finds under a name, `durable`     *)
(* what is there after a power failure: a rename or removal gets there     *)
(* when its directory is synced, or earlier, name by name.  A file whose   *)
(* data was not flushed may come back torn.  A temporary or claimed name,  *)
(* random in the code, is told by its session.  That somebody replaces a   *)
(* directory or the lock file, which the code answers with an error, is    *)
(* one of the failures.                                                    *)
(***************************************************************************)
CONSTANT Session

ASSUME SessionAssumption == Session # {}

VARIABLES
    visible,    \* name -> the file that a process finds
    durable,    \* name -> the file that a power failure leaves
    call,       \* the operation that holds the flock
    published,  \* sessions whose one launch request was written or attempted
    \* What happened, to state the properties; no step depends on it.
    delivered,  \* sessions whose request ConsumeLaunch has returned
    reported    \* public name -> the document that the operation which
                \* changed it last has reported, until the next begins to

filesVars == <<visible, durable, call, published, delivered, reported>>

RecordKind == {"record", "recordTemp"}
RequestKind == {"request", "requestTemp", "claim"}
PublicName == {"record", "request"} \X Session
\* The names that cleanupTemporaries recognises.
LeftoverName == {"recordTemp", "requestTemp", "claim"} \X Session
Name == (RecordKind \cup RequestKind) \X Session

\* The names in the same directory.
Directory(kind) == (IF kind \in RecordKind THEN RecordKind ELSE RequestKind) \X Session

\* A record is active or has ended; ExitUnconfirmed is SessionStore's subject.
\* A garbled one does not decode, such as another release's.
RecordDoc == {"active", "ended"}
Doc == RecordDoc \cup {"garbled", "request", "none", "torn"}
StoredFile == [doc : Doc, flushed : BOOLEAN]

Whole(doc) == [doc |-> doc, flushed |-> TRUE]
Missing == Whole("none")
IsThere(n) == visible[n] # Missing

-----------------------------------------------------------------------------
Operation == {"save", "update", "publish", "consume", "discard", "clean", "delete"}
SweepPC == {"sweepRecord", "sweptRecord", "sweepRequest", "sweptRequest"}
WritePC == {"flush", "rename"}
WorkPC == WritePC \cup {"start", "write", "renameSync", "visit", "drop", "dropSync",
                        "remove", "removeSync", "claimed", "claimSync", "done"}

Call == [pc : {"idle"} \cup SweepPC \cup WorkPC,
         op : Operation,
         s : Session,
         doc : Doc,                    \* what it writes, or has read
         drop : BOOLEAN,               \* deleteLaunch
         todo : SUBSET Session,        \* what CleanupLaunches has to visit
         did : SUBSET PublicName]      \* the names it has changed

NoCall == [pc |-> "idle", op |-> "clean", s |-> CHOOSE s \in Session : TRUE,
           doc |-> "none", drop |-> FALSE, todo |-> {}, did |-> {}]

FilesTypeOK ==
    /\ visible \in [Name -> StoredFile] /\ durable \in [Name -> StoredFile]
    /\ call \in Call
    /\ published \in SUBSET Session /\ delivered \in SUBSET Session
    /\ reported \in [PublicName -> Doc \cup {"unknown"}]

FilesInit ==
    /\ visible \in [Name -> {Whole("garbled"), Missing}]
    /\ \A n \in Name : IsThere(n) => n[1] = "record"
    /\ durable = visible
    /\ call = NoCall
    /\ published = {} /\ delivered = {}
    /\ reported = [n \in PublicName |-> visible[n].doc]

-----------------------------------------------------------------------------
(***************************************************************************)
(* What the steps are made of.                                             *)
(***************************************************************************)
GoesTo(pc) == call' = [call EXCEPT !.pc = pc]

\* Link, write, rename or unlink, as the processes see it.
Change(files) ==
    /\ visible' = [n \in Name |-> IF n \in DOMAIN files THEN files[n] ELSE visible[n]]
    /\ reported' = [n \in PublicName |-> IF n \in DOMAIN files THEN "unknown" ELSE reported[n]]
    /\ UNCHANGED <<durable, published, delivered>>

\* Directory.Sync
Sync(kind) ==
    /\ durable' = [n \in Name |-> IF n \in Directory(kind) THEN visible[n] ELSE durable[n]]
    /\ UNCHANGED <<visible, published, delivered, reported>>

NothingChanges == UNCHANGED <<visible, durable, published, delivered, reported>>

-----------------------------------------------------------------------------
(***************************************************************************)
(* withLock and cleanupTemporaries                                         *)
(***************************************************************************)
Request(op, s, doc, drop) ==
    /\ call.pc = "idle"
    /\ op = "save" => doc = "active"
    /\ op = "update" => doc \in RecordDoc
    /\ op = "publish" => doc = "request" /\ s \notin published
    /\ op \notin {"save", "update", "publish"} => doc = "none"
    /\ drop => op = "update"
    /\ call' = [NoCall EXCEPT !.pc = "sweepRecord", !.op = op, !.s = s, !.doc = doc, !.drop = drop]
    /\ published' = IF op = "publish" THEN published \cup {s} ELSE published
    /\ UNCHANGED <<visible, durable, delivered, reported>>

\* Mutant: claims are not among the names that are recognised.
LeftoversButClaims(kind) ==
    {n \in LeftoverName \cap Directory(kind) : n[1] # "claim" /\ IsThere(n)}

Leftovers(kind) == {n \in LeftoverName \cap Directory(kind) : IsThere(n)}

\* cleanupDirectoryTemporaries, for the sessions directory and then launch.
Sweep(kind) ==
    /\ call.pc = IF kind = "record" THEN "sweepRecord" ELSE "sweepRequest"
    /\ \E n \in Leftovers(kind) : Change([m \in {n} |-> Missing])
    /\ GoesTo(IF kind = "record" THEN "sweptRecord" ELSE "sweptRequest")

SweepSync(kind) ==
    /\ call.pc = IF kind = "record" THEN "sweptRecord" ELSE "sweptRequest"
    /\ Sync(kind)
    /\ GoesTo(IF kind = "record" THEN "sweepRecord" ELSE "sweepRequest")

SweepDone(kind) ==
    /\ call.pc = IF kind = "record" THEN "sweepRecord" ELSE "sweepRequest"
    /\ Leftovers(kind) = {}
    /\ GoesTo(IF kind = "record" THEN "sweepRequest" ELSE "start")
    /\ NothingChanges

-----------------------------------------------------------------------------
(***************************************************************************)
(* writeJSONAtomic, for a record or a request                              *)
(***************************************************************************)
Destination == <<IF call.op = "publish" THEN "request" ELSE "record", call.s>>
Temporary == <<IF call.op = "publish" THEN "requestTemp" ELSE "recordTemp", call.s>>

\* loadUnlocked
Loads(s) == visible[<<"record", s>>].doc \in RecordDoc

\* Save and SaveLaunch write without a look at what is there.
StartWrite ==
    /\ call.pc = "start" /\ call.op \in {"save", "publish"}
    /\ GoesTo("write")
    /\ NothingChanges

\* lifecycleUpdate and Update: the closure may leave the record as it is, and
\* a session that has ended stays so (LifecycleForward of SessionProperties).
StartUpdate ==
    /\ call.pc = "start" /\ call.op = "update" /\ Loads(call.s)
    /\ \/ /\ visible[<<"record", call.s>>].doc = "ended" => call.doc = "ended"
          /\ GoesTo("write")
       \/ GoesTo(IF call.drop THEN "drop" ELSE "done")
    /\ NothingChanges

\* OpenFile with O_EXCL, Write
WriteTemporary ==
    /\ call.pc = "write"
    /\ Change([n \in {Temporary} |-> [doc |-> call.doc, flushed |-> FALSE]])
    /\ GoesTo("flush")

\* Mutant: the file is renamed without tmp.Sync.
FlushNothing ==
    /\ call.pc = "flush"
    /\ GoesTo("rename")
    /\ NothingChanges

\* tmp.Sync; the name may have become durable before.
Flush ==
    /\ call.pc = "flush"
    /\ visible' = [visible EXCEPT ![Temporary] = Whole(call.doc)]
    /\ durable' = IF durable[Temporary] = visible[Temporary]
                  THEN [durable EXCEPT ![Temporary] = Whole(call.doc)] ELSE durable
    /\ GoesTo("rename")
    /\ UNCHANGED <<published, delivered, reported>>

RenameTemporary ==
    /\ call.pc = "rename"
    /\ Change([n \in {Destination, Temporary} |->
                  IF n = Destination THEN visible[Temporary] ELSE Missing])
    /\ call' = [call EXCEPT !.pc = "renameSync", !.did = @ \cup {Destination}]

\* Mutant: the directory is not synced behind the rename.
RenameUnsynced ==
    /\ call.pc = "renameSync"
    /\ GoesTo(IF call.drop THEN "drop" ELSE "done")
    /\ NothingChanges

RenameSync ==
    /\ call.pc = "renameSync"
    /\ Sync(Destination[1])
    /\ GoesTo(IF call.drop THEN "drop" ELSE "done")

-----------------------------------------------------------------------------
(***************************************************************************)
(* ConsumeLaunch                                                           *)
(***************************************************************************)
RequestOf(s) == <<"request", s>>
ClaimOf(s) == <<"claim", s>>

StartConsume ==
    /\ call.pc = "start" /\ call.op = "consume" /\ IsThere(RequestOf(call.s))
    /\ Change([n \in {RequestOf(call.s), ClaimOf(call.s)} |->
                  IF n = ClaimOf(call.s) THEN visible[RequestOf(call.s)] ELSE Missing])
    /\ call' = [call EXCEPT !.pc = "claimed", !.did = {RequestOf(call.s)}]

\* The claim is removed whatever reading and decoding it gave.
TakeClaim ==
    /\ call.pc = "claimed"
    /\ Change([n \in {ClaimOf(call.s)} |-> Missing])
    /\ \E doc \in {visible[ClaimOf(call.s)].doc, "none"} :
          call' = [call EXCEPT !.pc = "claimSync", !.doc = doc]

\* Mutant: the claim is unlinked, but its directory not synced.
ClaimUnsynced ==
    /\ call.pc = "claimSync"
    /\ GoesTo("done")
    /\ NothingChanges

ClaimSync ==
    /\ call.pc = "claimSync"
    /\ Sync("request")
    /\ GoesTo("done")

-----------------------------------------------------------------------------
(***************************************************************************)
(* Removals: DeleteLaunch, the deleteLaunch of an update, CleanupLaunches, *)
(* Delete.                                                                 *)
(***************************************************************************)
StartDiscard ==
    /\ call.pc = "start" /\ call.op = "discard"
    /\ GoesTo("drop")
    /\ NothingChanges

StartDelete ==
    /\ call.pc = "start" /\ call.op = "delete"
    /\ visible[<<"record", call.s>>].doc = "ended"
    /\ GoesTo("drop")
    /\ NothingChanges

StartClean ==
    /\ call.pc = "start" /\ call.op = "clean"
    /\ call' = [call EXCEPT !.pc = "visit", !.todo = {s \in Session : IsThere(RequestOf(s))}]
    /\ NothingChanges

\* The request goes when the record is missing or terminal.
Visit(s) ==
    /\ call.pc = "visit" /\ s \in call.todo
    /\ call' = [call EXCEPT !.todo = @ \ {s}, !.s = s,
                            !.pc = IF visible[<<"record", s>>].doc \in {"none", "ended"}
                                   THEN "drop" ELSE "visit"]
    /\ NothingChanges

VisitedAll ==
    /\ call.pc = "visit" /\ call.todo = {}
    /\ GoesTo("done")
    /\ NothingChanges

AfterDrop == CASE call.op = "clean" -> "visit"
               [] call.op = "delete" -> "remove"
               [] call.op \notin {"clean", "delete"} -> "done"

\* removeRegular
Drop ==
    /\ call.pc = "drop" /\ IsThere(RequestOf(call.s))
    /\ Change([n \in {RequestOf(call.s)} |-> Missing])
    /\ call' = [call EXCEPT !.pc = "dropSync", !.did = @ \cup {RequestOf(call.s)}]

DropNothing ==
    /\ call.pc = "drop" /\ ~IsThere(RequestOf(call.s))
    /\ GoesTo(AfterDrop)
    /\ NothingChanges

DropSync ==
    /\ call.pc = "dropSync"
    /\ Sync("request")
    /\ GoesTo(AfterDrop)

RemoveRecord ==
    /\ call.pc = "remove"
    /\ Change([n \in {<<"record", call.s>>} |-> Missing])
    /\ call' = [call EXCEPT !.pc = "removeSync", !.did = @ \cup {<<"record", call.s>>}]

RemoveSync ==
    /\ call.pc = "removeSync"
    /\ Sync("record")
    /\ GoesTo("done")

-----------------------------------------------------------------------------
(***************************************************************************)
(* The end of an operation                                                 *)
(***************************************************************************)
Returns ==
    /\ call.pc = "done"
    /\ reported' = [n \in PublicName |-> IF n \in call.did THEN visible[n].doc ELSE reported[n]]
    /\ delivered' = IF call.op = "consume" /\ call.doc = "request"
                    THEN delivered \cup {call.s} ELSE delivered
    /\ call' = NoCall
    /\ UNCHANGED <<visible, durable, published>>

\* Any call may report an error, and the process may die before any.
GivesUp ==
    /\ call.pc # "idle"
    /\ call' = NoCall
    /\ NothingChanges

\* A file that was not renamed is removed again, without a sync.
GivesUpWriting ==
    /\ call.pc \in WritePC
    /\ Change([n \in {Temporary} |-> Missing])
    /\ call' = NoCall

\* CleanupLaunches goes on with the next request.
DropFails ==
    /\ call.op = "clean" /\ call.pc \in {"drop", "dropSync"}
    /\ call' = [call EXCEPT !.pc = "visit", !.did = @ \ {RequestOf(call.s)}]
    /\ NothingChanges

\* The file system writes back what it has not been asked to yet.
WriteBack(n) ==
    /\ durable[n] # visible[n]
    /\ durable' = [durable EXCEPT ![n] = visible[n]]
    /\ UNCHANGED <<visible, call, published, delivered, reported>>

PowerFailure ==
    /\ \E torn \in SUBSET {n \in Name : ~durable[n].flushed} :
          visible' = [n \in Name |-> Whole(IF n \in torn THEN "torn" ELSE durable[n].doc)]
    /\ durable' = visible'
    /\ call' = NoCall
    /\ UNCHANGED <<published, delivered, reported>>

-----------------------------------------------------------------------------
FilesNext ==
    \/ \E op \in Operation, s \in Session, doc \in Doc, drop \in BOOLEAN :
          Request(op, s, doc, drop)
    \/ \E kind \in {"record", "request"} : Sweep(kind) \/ SweepSync(kind) \/ SweepDone(kind)
    \/ StartWrite \/ StartUpdate \/ WriteTemporary \/ Flush \/ RenameTemporary \/ RenameSync
    \/ StartConsume \/ TakeClaim \/ ClaimSync
    \/ StartDiscard \/ StartDelete \/ StartClean \/ VisitedAll
    \/ \E s \in Session : Visit(s)
    \/ Drop \/ DropNothing \/ DropSync \/ RemoveRecord \/ RemoveSync
    \/ Returns \/ GivesUp \/ GivesUpWriting \/ DropFails
    \/ \E n \in Name : WriteBack(n)
    \/ PowerFailure

FilesSpec == FilesInit /\ [][FilesNext]_filesVars

-----------------------------------------------------------------------------
(***************************************************************************)
(* Properties                                                              *)
(***************************************************************************)
\* A reader without the lock, or a process after a restart, finds a document
\* as it was written or none: never a part of one, whatever call of
\* writeJSONAtomic a crash or a power failure came behind.
WholeDocuments ==
    \A n \in PublicName : \A file \in {visible[n], durable[n]} :
        file.flushed /\ file.doc # "torn"

\* What an operation reported as done outlives a power failure, until a later
\* one sets about changing it: neither a written record nor the removal of a
\* request comes undone.
AcknowledgedSurvives ==
    \A n \in PublicName : reported[n] # "unknown" =>
        visible[n].doc = reported[n] /\ durable[n].doc = reported[n]

\* docs/USAGE.md: launch files are one-use, and the next lock holder recovers
\* abandoned claims and interrupted writes.  Once the arguments were handed out
\* they are under no name, not even after a power failure; and whoever works
\* under the lock finds nothing but what it wrote or claimed itself.
ArgumentsGone ==
    /\ \A s \in delivered, kind \in RequestKind :
          visible[<<kind, s>>].doc # "request" /\ durable[<<kind, s>>].doc # "request"
    /\ call.pc \in WorkPC => \A n \in LeftoverName : IsThere(n) =>
          \/ call.pc \in WritePC /\ n = Temporary
          \/ call.pc = "claimed" /\ n = ClaimOf(call.s)

\* The operation in progress, as the store's callers see it.
Doing ==
    IF call.pc = "idle" THEN [op |-> "none", of |-> {}, new |-> "none",
                              drop |-> FALSE, did |-> {}, state |-> "open"]
    ELSE [op |-> call.op,
          of |-> IF call.op = "clean" THEN Session ELSE {call.s},
          new |-> IF call.op \in {"save", "update", "publish"} THEN call.doc ELSE "none",
          drop |-> call.drop,
          did |-> call.did,
          state |-> IF call.pc = "done" THEN "complete" ELSE "open"]

Store == INSTANCE StoreContract WITH
    doc <- [n \in PublicName |-> visible[n].doc],
    kept <- [n \in PublicName |-> durable[n].doc],
    task <- Doing,
    told <- reported,
    handed <- delivered

\* To everybody who keeps to the public names the calls are a store whose
\* documents change one at a time and at once: no reader, next operation or
\* restart can tell that there are temporary files and claims, what was
\* reported stays, and arguments are handed out once (docs/USAGE.md: launch
\* files are one-use).
ImplementsStore == Store!Spec
=============================================================================
