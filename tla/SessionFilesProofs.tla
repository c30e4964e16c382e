-------------------------- MODULE SessionFilesProofs --------------------------
(***************************************************************************)
(* Proofs about SessionFiles, for any number of sessions: the death of a   *)
(* process, a failed call or a power failure may come between any two      *)
(* calls, and the file system writes names back in any order.              *)
(***************************************************************************)
EXTENDS SessionFiles, TLAPS

-----------------------------------------------------------------------------
(***************************************************************************)
(* The names, and a case split over the steps                              *)
(***************************************************************************)
LEMMA NameFacts ==
    ASSUME NEW s \in Session
    PROVE  /\ \A kind \in {"record", "request"} :
                 /\ <<kind, s>> \in PublicName /\ <<kind, s>> \in Name
                 /\ <<kind, s>> \notin LeftoverName
           /\ \A kind \in {"recordTemp", "requestTemp", "claim"} :
                 /\ <<kind, s>> \in LeftoverName /\ <<kind, s>> \in Name
                 /\ <<kind, s>> \notin PublicName
BY DEF PublicName, LeftoverName, Name, RecordKind, RequestKind

LEMMA NameSets == PublicName \subseteq Name /\ LeftoverName \subseteq Name
BY DEF PublicName, LeftoverName, Name, RecordKind, RequestKind

LEMMA NoCallIsCall == NoCall \in Call
<1>1. (CHOOSE s \in Session : TRUE) \in Session
  BY SessionAssumption
<1> QED
  BY <1>1 DEF NoCall, Call, Operation, Doc

LEMMA NoCallFields ==
    NoCall.pc = "idle" /\ NoCall.op = "clean" /\ NoCall.doc = "none" /\ NoCall.did = {}
BY DEF NoCall

LEMMA MissingFacts == Missing \in StoredFile /\ Missing.doc = "none" /\ Missing.flushed
BY DEF Missing, Whole, StoredFile, Doc

LEMMA WholeFacts ==
    ASSUME NEW doc \in Doc
    PROVE  Whole(doc) \in StoredFile /\ Whole(doc).doc = doc /\ Whole(doc).flushed
BY DEF Whole, StoredFile

\* The file and the name that a write is about.
LEMMA WriteNames ==
    ASSUME call \in Call
    PROVE  /\ Destination \in PublicName /\ Destination \in Name
           /\ Temporary \in LeftoverName /\ Temporary \in Name /\ Temporary \notin PublicName
           /\ RequestOf(call.s) \in PublicName /\ RequestOf(call.s) \in Name
           /\ ClaimOf(call.s) \in LeftoverName /\ ClaimOf(call.s) \in Name
           /\ ClaimOf(call.s) \notin PublicName
           /\ <<"record", call.s>> \in PublicName /\ <<"record", call.s>> \in Name
<1>1. call.s \in Session
  BY DEF Call
<1> QED
  BY <1>1, NameFacts DEF Destination, Temporary, RequestOf, ClaimOf

LEMMA FilesCases ==
    ASSUME [FilesNext]_filesVars, NEW P,
           ASSUME NEW op \in Operation, NEW s \in Session, NEW doc \in Doc,
                  NEW drop \in BOOLEAN, Request(op, s, doc, drop) PROVE P,
           ASSUME NEW kind \in {"record", "request"}, Sweep(kind) PROVE P,
           ASSUME NEW kind \in {"record", "request"}, SweepSync(kind) PROVE P,
           ASSUME NEW kind \in {"record", "request"}, SweepDone(kind) PROVE P,
           StartWrite => P, StartUpdate => P, WriteTemporary => P, Flush => P,
           RenameTemporary => P, RenameSync => P,
           StartConsume => P, TakeClaim => P, ClaimSync => P,
           StartDiscard => P, StartDelete => P, StartClean => P, VisitedAll => P,
           ASSUME NEW s \in Session, Visit(s) PROVE P,
           Drop => P, DropNothing => P, DropSync => P, RemoveRecord => P, RemoveSync => P,
           Returns => P, GivesUp => P, GivesUpWriting => P, DropFails => P,
           ASSUME NEW n \in Name, WriteBack(n) PROVE P,
           PowerFailure => P,
           UNCHANGED filesVars => P
    PROVE  P
BY DEF FilesNext

-----------------------------------------------------------------------------
(***************************************************************************)
(* Type correctness                                                        *)
(***************************************************************************)
LEMMA FilesInitTyped == FilesInit => FilesTypeOK
<1> SUFFICES ASSUME FilesInit PROVE FilesTypeOK
  OBVIOUS
<1>1. Whole("garbled") \in StoredFile
  BY WholeFacts DEF Doc
<1>2. visible \in [Name -> StoredFile]
  BY <1>1, MissingFacts DEF FilesInit
<1>3. \A n \in PublicName : visible[n].doc \in Doc
  BY <1>2, NameSets DEF StoredFile
<1>4. reported \in [PublicName -> Doc \cup {"unknown"}]
  BY <1>3 DEF FilesInit
<1> QED
  BY <1>2, <1>4, NoCallIsCall DEF FilesInit, FilesTypeOK

\* Link, write, rename and unlink, a sync, and what leaves the files alone.
LEMMA ChangeTyped ==
    ASSUME FilesTypeOK, NEW files, Change(files),
           \A n \in DOMAIN files : files[n] \in StoredFile
    PROVE  /\ visible' \in [Name -> StoredFile] /\ durable' \in [Name -> StoredFile]
           /\ published' \in SUBSET Session /\ delivered' \in SUBSET Session
           /\ reported' \in [PublicName -> Doc \cup {"unknown"}]
BY DEF FilesTypeOK, Change

LEMMA SyncTyped ==
    ASSUME FilesTypeOK, NEW kind, Sync(kind)
    PROVE  /\ visible' \in [Name -> StoredFile] /\ durable' \in [Name -> StoredFile]
           /\ published' \in SUBSET Session /\ delivered' \in SUBSET Session
           /\ reported' \in [PublicName -> Doc \cup {"unknown"}]
BY DEF FilesTypeOK, Sync

\* The call in progress stays one, ...
LEMMA CallTyped == FilesTypeOK /\ [FilesNext]_filesVars => call' \in Call
<1> SUFFICES ASSUME FilesTypeOK, [FilesNext]_filesVars PROVE call' \in Call
  OBVIOUS
<1>0. call \in Call
  BY DEF FilesTypeOK
<1> USE <1>0, NoCallIsCall DEF GoesTo, SweepPC, WorkPC, WritePC
<1>1. ASSUME NEW op \in Operation, NEW s \in Session, NEW doc \in Doc,
             NEW drop \in BOOLEAN, Request(op, s, doc, drop) PROVE call' \in Call
  BY <1>1 DEF Request, Call
<1>2. ASSUME NEW kind \in {"record", "request"}, Sweep(kind) PROVE call' \in Call
  BY <1>2 DEF Sweep, Call
<1>3. ASSUME NEW kind \in {"record", "request"}, SweepSync(kind) PROVE call' \in Call
  BY <1>3 DEF SweepSync, Call
<1>4. ASSUME NEW kind \in {"record", "request"}, SweepDone(kind) PROVE call' \in Call
  BY <1>4 DEF SweepDone, Call
<1>5. StartWrite \/ StartUpdate \/ WriteTemporary \/ Flush => call' \in Call
  BY DEF StartWrite, StartUpdate, WriteTemporary, Flush, Call
<1>6. RenameTemporary => call' \in Call
  <2> SUFFICES ASSUME RenameTemporary PROVE call' \in Call
    OBVIOUS
  <2>1. call.did \cup {Destination} \subseteq PublicName
    BY WriteNames DEF Call
  <2> QED
    BY <2>1 DEF RenameTemporary, Call
<1>7. RenameSync \/ ClaimSync \/ DropSync \/ RemoveSync => call' \in Call
  BY DEF RenameSync, ClaimSync, DropSync, RemoveSync, AfterDrop, Call
<1>8. StartConsume => call' \in Call
  <2> SUFFICES ASSUME StartConsume PROVE call' \in Call
    OBVIOUS
  <2>1. {RequestOf(call.s)} \subseteq PublicName
    BY WriteNames
  <2> QED
    BY <2>1 DEF StartConsume, Call
<1>9. TakeClaim => call' \in Call
  <2> SUFFICES ASSUME TakeClaim PROVE call' \in Call
    OBVIOUS
  <2>1. visible[ClaimOf(call.s)].doc \in Doc /\ "none" \in Doc
    BY WriteNames DEF FilesTypeOK, StoredFile, Doc
  <2>2. PICK doc \in Doc : call' = [call EXCEPT !.pc = "claimSync", !.doc = doc]
    BY <2>1 DEF TakeClaim
  <2>3. "claimSync" \in {"idle"} \cup SweepPC \cup WorkPC
    BY DEF WorkPC
  <2> QED
    BY <2>2, <2>3 DEF Call
<1>10. StartDiscard \/ StartDelete \/ VisitedAll => call' \in Call
  BY DEF StartDiscard, StartDelete, VisitedAll, Call
<1>19. StartClean => call' \in Call
  <2>1. {s \in Session : IsThere(RequestOf(s))} \subseteq Session
    OBVIOUS
  <2> QED
    BY <2>1, ZenonT(40) DEF StartClean, Call
<1>11. ASSUME NEW s \in Session, Visit(s) PROVE call' \in Call
  BY <1>11 DEF Visit, Call
<1>12. Drop => call' \in Call
  <2> SUFFICES ASSUME Drop PROVE call' \in Call
    OBVIOUS
  <2>1. call.did \cup {RequestOf(call.s)} \subseteq PublicName
    BY WriteNames DEF Call
  <2> QED
    BY <2>1 DEF Drop, Call
<1>13. DropNothing => call' \in Call
  BY DEF DropNothing, AfterDrop, Call
<1>14. RemoveRecord => call' \in Call
  <2> SUFFICES ASSUME RemoveRecord PROVE call' \in Call
    OBVIOUS
  <2>1. call.did \cup {<<"record", call.s>>} \subseteq PublicName
    BY WriteNames DEF Call
  <2> QED
    BY <2>1 DEF RemoveRecord, Call
<1>15. Returns \/ GivesUp \/ GivesUpWriting \/ PowerFailure => call' \in Call
  BY DEF Returns, GivesUp, GivesUpWriting, PowerFailure
<1>16. DropFails => call' \in Call
  BY ZenonT(40) DEF DropFails, Call
<1>17. ASSUME NEW n \in Name, WriteBack(n) PROVE call' \in Call
  BY <1>17 DEF WriteBack
<1>18. UNCHANGED filesVars => call' \in Call
  BY DEF filesVars
<1> QED
  BY <1>1, <1>2, <1>3, <1>4, <1>5, <1>6, <1>7, <1>8, <1>9, <1>10, <1>11, <1>12, <1>13,
     <1>14, <1>15, <1>16, <1>17, <1>18, <1>19, FilesCases

\* ... and every file a file.
LEMMA FilesTyped == FilesTypeOK /\ [FilesNext]_filesVars => FilesTypeOK'
<1> SUFFICES ASSUME FilesTypeOK, [FilesNext]_filesVars PROVE FilesTypeOK'
  OBVIOUS
<1> DEFINE Typed == /\ visible' \in [Name -> StoredFile] /\ durable' \in [Name -> StoredFile]
                    /\ published' \in SUBSET Session /\ delivered' \in SUBSET Session
                    /\ reported' \in [PublicName -> Doc \cup {"unknown"}]
<1>0. call \in Call /\ call.doc \in Doc /\ call.s \in Session
  BY DEF FilesTypeOK, Call
<1>a. NothingChanges => Typed
  BY DEF FilesTypeOK, NothingChanges
<1>b. ASSUME NEW files, Change(files), \A n \in DOMAIN files : files[n] \in StoredFile
      PROVE  Typed
  BY <1>b, ChangeTyped
<1>c. ASSUME NEW kind, Sync(kind) PROVE Typed
  BY <1>c, SyncTyped
<1>d. [doc |-> call.doc, flushed |-> FALSE] \in StoredFile /\ Whole(call.doc) \in StoredFile
  BY <1>0, WholeFacts DEF StoredFile
<1>e. \A n \in Name : visible[n] \in StoredFile
  BY DEF FilesTypeOK
<1>1. ASSUME NEW op \in Operation, NEW s \in Session, NEW doc \in Doc,
             NEW drop \in BOOLEAN, Request(op, s, doc, drop) PROVE Typed
  BY <1>1 DEF Request, FilesTypeOK
<1>2. ASSUME NEW kind \in {"record", "request"}, Sweep(kind) PROVE Typed
  BY <1>2, <1>b, MissingFacts DEF Sweep
<1>3. ASSUME NEW kind \in {"record", "request"}, SweepSync(kind) PROVE Typed
  BY <1>3, <1>c DEF SweepSync
<1>4. ASSUME NEW kind \in {"record", "request"}, SweepDone(kind) PROVE Typed
  BY <1>4, <1>a DEF SweepDone
<1>5. StartWrite \/ StartUpdate \/ StartDiscard \/ StartDelete \/ StartClean \/ VisitedAll => Typed
  BY <1>a DEF StartWrite, StartUpdate, StartDiscard, StartDelete, StartClean, VisitedAll
<1>6. WriteTemporary => Typed
  BY <1>b, <1>d DEF WriteTemporary
<1>7. Flush => Typed
  BY <1>0, <1>d, WriteNames DEF Flush, FilesTypeOK
<1>8. RenameTemporary => Typed
  BY <1>0, <1>b, <1>e, WriteNames, MissingFacts DEF RenameTemporary
<1>9. RenameSync \/ ClaimSync \/ DropSync \/ RemoveSync => Typed
  BY <1>c DEF RenameSync, ClaimSync, DropSync, RemoveSync
<1>10. StartConsume => Typed
  BY <1>0, <1>b, <1>e, WriteNames, MissingFacts DEF StartConsume
<1>11. TakeClaim \/ Drop \/ RemoveRecord \/ GivesUpWriting => Typed
  BY <1>b, MissingFacts DEF TakeClaim, Drop, RemoveRecord, GivesUpWriting
<1>12. ASSUME NEW s \in Session, Visit(s) PROVE Typed
  BY <1>12, <1>a DEF Visit
<1>13. DropNothing \/ GivesUp \/ DropFails => Typed
  BY <1>a DEF DropNothing, GivesUp, DropFails
<1>14. Returns => Typed
  <2> SUFFICES ASSUME Returns PROVE Typed
    OBVIOUS
  <2>1. \A n \in PublicName : visible[n].doc \in Doc
    BY NameSets, <1>e DEF StoredFile
  <2>2. reported' \in [PublicName -> Doc \cup {"unknown"}]
    BY <2>1 DEF Returns, FilesTypeOK
  <2>3. delivered' \in SUBSET Session
    BY <1>0 DEF Returns, FilesTypeOK
  <2> QED
    BY <2>2, <2>3 DEF Returns, FilesTypeOK
<1>15. ASSUME NEW n \in Name, WriteBack(n) PROVE Typed
  BY <1>15, <1>e DEF WriteBack, FilesTypeOK
<1>16. PowerFailure => Typed
  <2> SUFFICES ASSUME PowerFailure PROVE Typed
    OBVIOUS
  <2>1. PICK torn \in SUBSET {n \in Name : ~durable[n].flushed} :
           visible' = [n \in Name |-> Whole(IF n \in torn THEN "torn" ELSE durable[n].doc)]
    BY DEF PowerFailure
  <2>2. \A n \in Name : (IF n \in torn THEN "torn" ELSE durable[n].doc) \in Doc
    BY DEF FilesTypeOK, StoredFile, Doc
  <2>3. \A n \in Name : Whole(IF n \in torn THEN "torn" ELSE durable[n].doc) \in StoredFile
    BY <2>2, WholeFacts
  <2>4. visible' \in [Name -> StoredFile]
    BY <2>1, <2>3
  <2> QED
    BY <2>4 DEF PowerFailure, FilesTypeOK
<1>17. UNCHANGED filesVars => Typed
  BY DEF filesVars, FilesTypeOK
<1>18. Typed
  <2> HIDE DEF Typed
  <2> QED
    BY <1>1, <1>2, <1>3, <1>4, <1>5, <1>6, <1>7, <1>8, <1>9, <1>10, <1>11, <1>12, <1>13,
       <1>14, <1>15, <1>16, <1>17, FilesCases
<1> QED
  BY <1>18, CallTyped DEF FilesTypeOK

\* Every name holds a file or none, and one operation is at one of its calls.
THEOREM FilesTypeCorrect == FilesSpec => []FilesTypeOK
BY FilesInitTyped, FilesTyped, PTL DEF FilesSpec

-----------------------------------------------------------------------------
(***************************************************************************)
(* Which operation makes which call, and what it writes                    *)
(***************************************************************************)
CallInv ==
    /\ call.op \in {"save", "update"} => call.doc \in RecordDoc
    /\ call.op = "publish" => call.doc = "request"
    /\ call.pc \in {"write", "flush", "rename", "renameSync"} =>
          call.op \in {"save", "update", "publish"}
    /\ call.pc \in {"claimed", "claimSync"} => call.op = "consume"
    /\ call.pc = "visit" => call.op = "clean"
    /\ call.op = "consume" =>
          call.pc \in SweepPC \cup {"idle", "start", "claimed", "claimSync", "done"}

LEMMA CallInvInit == FilesInit => CallInv
BY NoCallFields DEF FilesInit, CallInv

LEMMA CallInvStep == FilesTypeOK /\ CallInv /\ [FilesNext]_filesVars => CallInv'
<1> SUFFICES ASSUME FilesTypeOK, CallInv, [FilesNext]_filesVars PROVE CallInv'
  OBVIOUS
<1>0. call \in Call
  BY DEF FilesTypeOK
<1> USE <1>0, NoCallIsCall, NoCallFields DEF CallInv, GoesTo, SweepPC, WritePC
<1>1. ASSUME NEW op \in Operation, NEW s \in Session, NEW doc \in Doc,
             NEW drop \in BOOLEAN, Request(op, s, doc, drop) PROVE CallInv'
  BY <1>1 DEF Request, Call, RecordDoc
<1>2. ASSUME NEW kind \in {"record", "request"}, Sweep(kind) PROVE CallInv'
  BY <1>2 DEF Sweep, Call
<1>3. ASSUME NEW kind \in {"record", "request"}, SweepSync(kind) PROVE CallInv'
  BY <1>3 DEF SweepSync, Call
<1>4. ASSUME NEW kind \in {"record", "request"}, SweepDone(kind) PROVE CallInv'
  BY <1>4 DEF SweepDone, Call
<1>5. StartWrite \/ StartUpdate \/ WriteTemporary \/ Flush => CallInv'
  BY DEF StartWrite, StartUpdate, WriteTemporary, Flush, Call
<1>6. RenameTemporary \/ RenameSync \/ StartConsume \/ ClaimSync => CallInv'
  BY ZenonT(40) DEF RenameTemporary, RenameSync, StartConsume, ClaimSync, Call
<1>7. TakeClaim => CallInv'
  BY DEF TakeClaim, Call
<1>8. StartDiscard \/ StartDelete \/ StartClean \/ VisitedAll => CallInv'
  BY ZenonT(40) DEF StartDiscard, StartDelete, StartClean, VisitedAll, Call
<1>9. ASSUME NEW s \in Session, Visit(s) PROVE CallInv'
  BY <1>9 DEF Visit, Call
<1>10. Drop \/ DropNothing \/ DropSync \/ RemoveRecord \/ RemoveSync => CallInv'
  BY ZenonT(40) DEF Drop, DropNothing, DropSync, RemoveRecord, RemoveSync, AfterDrop, Call
<1>11. Returns \/ GivesUp \/ GivesUpWriting \/ PowerFailure => CallInv'
  BY DEF Returns, GivesUp, GivesUpWriting, PowerFailure, RecordDoc
<1>12. DropFails => CallInv'
  BY DEF DropFails, Call
<1>13. ASSUME NEW n \in Name, WriteBack(n) PROVE CallInv'
  BY <1>13 DEF WriteBack
<1>14. UNCHANGED filesVars => CallInv'
  BY DEF filesVars
<1> QED
  BY <1>1, <1>2, <1>3, <1>4, <1>5, <1>6, <1>7, <1>8, <1>9, <1>10, <1>11, <1>12, <1>13,
     <1>14, FilesCases, ZenonT(40)

-----------------------------------------------------------------------------
(***************************************************************************)
(* Whole documents: a temporary file that is about to be renamed has been  *)
(* flushed, and only such a file comes under a public name.                *)
(***************************************************************************)
WholeFile(file) == file.flushed /\ file.doc # "torn"

WholeInv ==
    /\ \A n \in PublicName : WholeFile(visible[n]) /\ WholeFile(durable[n])
    /\ call.pc = "rename" => WholeFile(visible[Temporary])

LEMMA WholeInvInit == FilesInit => WholeInv
<1>1. WholeFile(Whole("garbled")) /\ WholeFile(Missing)
  BY DEF WholeFile, Whole, Missing
<1> QED
  BY <1>1, NameSets, NoCallFields DEF FilesInit, WholeInv

LEMMA WholeInvStep ==
    FilesTypeOK /\ CallInv /\ WholeInv /\ [FilesNext]_filesVars => WholeInv'
<1> SUFFICES ASSUME FilesTypeOK, CallInv, WholeInv, [FilesNext]_filesVars PROVE WholeInv'
  OBVIOUS
<1>0. call \in Call /\ WholeFile(Missing) /\ (\A n \in LeftoverName : n \notin PublicName)
  BY DEF FilesTypeOK, WholeFile, Missing, Whole, PublicName, LeftoverName
<1> USE <1>0, WriteNames, NameSets, NoCallFields
    DEF WholeInv, GoesTo, NothingChanges, Change, Sync, FilesTypeOK
<1>1. ASSUME NEW op \in Operation, NEW s \in Session, NEW doc \in Doc,
             NEW drop \in BOOLEAN, Request(op, s, doc, drop) PROVE WholeInv'
  BY <1>1, NoCallIsCall DEF Request, Call
<1>2. ASSUME NEW kind \in {"record", "request"}, Sweep(kind) PROVE WholeInv'
  BY <1>2 DEF Sweep, Call, Leftovers
<1>3. ASSUME NEW kind \in {"record", "request"}, SweepSync(kind) PROVE WholeInv'
  BY <1>3 DEF SweepSync, Call
<1>4. ASSUME NEW kind \in {"record", "request"}, SweepDone(kind) PROVE WholeInv'
  BY <1>4 DEF SweepDone, Call
<1>5. StartWrite \/ StartUpdate \/ StartDiscard \/ StartDelete \/ StartClean \/ VisitedAll
      => WholeInv'
  BY DEF StartWrite, StartUpdate, StartDiscard, StartDelete, StartClean, VisitedAll, Call
<1>6. WriteTemporary => WholeInv'
  BY DEF WriteTemporary, Call
<1>7. Flush => WholeInv'
  <2> SUFFICES ASSUME Flush PROVE WholeInv'
    OBVIOUS
  <2>1. call.doc # "torn"
    BY DEF Flush, CallInv, RecordDoc
  <2>2. WholeFile(Whole(call.doc)) /\ Temporary' = Temporary
    BY <2>1 DEF WholeFile, Whole, Flush, Temporary, Call
  <2>3. \A n \in PublicName : visible'[n] = visible[n] /\ durable'[n] = durable[n]
    BY DEF Flush
  <2>4. visible'[Temporary] = Whole(call.doc)
    BY DEF Flush
  <2> QED
    BY <2>2, <2>3, <2>4
<1>8. RenameTemporary => WholeInv'
  BY DEF RenameTemporary, Call
<1>9. RenameSync \/ ClaimSync \/ DropSync \/ RemoveSync => WholeInv'
  BY DEF RenameSync, ClaimSync, DropSync, RemoveSync, AfterDrop, Call
<1>10. StartConsume => WholeInv'
  BY DEF StartConsume, Call
<1>11. Drop \/ RemoveRecord => WholeInv'
  <2> SUFFICES ASSUME Drop \/ RemoveRecord PROVE WholeInv'
    OBVIOUS
  <2>1. call'.pc \in {"dropSync", "removeSync"}
    BY DEF Drop, RemoveRecord, Call
  <2>2. \A n \in PublicName :
           visible'[n] \in {visible[n], Missing} /\ durable'[n] = durable[n]
    BY DEF Drop, RemoveRecord
  <2> QED
    BY <2>1, <2>2
<1>18. GivesUpWriting => WholeInv'
  BY DEF GivesUpWriting
<1>17. TakeClaim => WholeInv'
  <2> SUFFICES ASSUME TakeClaim PROVE WholeInv'
    OBVIOUS
  <2>1. call'.pc = "claimSync"
    BY DEF TakeClaim, Call
  <2>2. \A n \in PublicName : visible'[n] = visible[n] /\ durable'[n] = durable[n]
    BY DEF TakeClaim
  <2> QED
    BY <2>1, <2>2
<1>12. ASSUME NEW s \in Session, Visit(s) PROVE WholeInv'
  BY <1>12 DEF Visit, Call
<1>13. DropNothing \/ GivesUp \/ DropFails \/ Returns => WholeInv'
  BY DEF DropNothing, GivesUp, DropFails, Returns, AfterDrop, Call
<1>14. ASSUME NEW n \in Name, WriteBack(n) PROVE WholeInv'
  BY <1>14 DEF WriteBack, Temporary
<1>15. PowerFailure => WholeInv'
  <2> SUFFICES ASSUME PowerFailure PROVE WholeInv'
    OBVIOUS
  <2>1. PICK torn \in SUBSET {n \in Name : ~durable[n].flushed} :
           visible' = [n \in Name |-> Whole(IF n \in torn THEN "torn" ELSE durable[n].doc)]
    BY DEF PowerFailure
  <2>2. \A n \in PublicName : visible'[n] = Whole(durable[n].doc)
    BY <2>1 DEF WholeFile
  <2>3. \A n \in PublicName : durable[n].doc # "torn"
    BY DEF WholeFile
  <2>4. \A doc : doc # "torn" => WholeFile(Whole(doc))
    BY DEF WholeFile, Whole
  <2>5. \A n \in PublicName : WholeFile(visible'[n])
    BY <2>2, <2>3, <2>4
  <2> QED
    BY <2>5 DEF PowerFailure
<1>16. UNCHANGED filesVars => WholeInv'
  BY DEF filesVars, Temporary
<1> HIDE <1>0, WriteNames, NameSets, NoCallFields
    DEF WholeInv, GoesTo, NothingChanges, Change, Sync, FilesTypeOK
<1> QED
  BY <1>1, <1>2, <1>3, <1>4, <1>5, <1>6, <1>7, <1>8, <1>9, <1>10, <1>11, <1>12, <1>13,
     <1>14, <1>15, <1>16, <1>17, <1>18, FilesCases

-----------------------------------------------------------------------------
(***************************************************************************)
(* What is reported is durable: a name that an operation has changed is    *)
(* the one it is about to sync, or is durable already.                     *)
(***************************************************************************)
Pending == {n \in PublicName :
               \/ call.pc = "renameSync" /\ n = Destination
               \/ call.pc \in {"claimed", "claimSync", "dropSync"} /\ n = RequestOf(call.s)
               \/ call.pc = "removeSync" /\ n = <<"record", call.s>>}

AckInv ==
    /\ AcknowledgedSurvives
    /\ \A n \in call.did : n \in Pending \/ durable[n] = visible[n]

LEMMA AckInvInit == FilesInit => AckInv
BY NoCallFields DEF FilesInit, AckInv, AcknowledgedSurvives

\* A change of names that were not reported to stay, or of temporary ones.
LEMMA ChangeAck ==
    ASSUME NEW files, Change(files), AcknowledgedSurvives
    PROVE  AcknowledgedSurvives'
BY NameSets DEF Change, AcknowledgedSurvives

LEMMA SyncAck ==
    ASSUME NEW kind, Sync(kind), AcknowledgedSurvives
    PROVE  AcknowledgedSurvives'
BY NameSets DEF Sync, AcknowledgedSurvives

\* What a sync makes durable.
LEMMA SyncedNames ==
    ASSUME call \in Call
    PROVE  /\ Destination \in Directory(Destination[1])
           /\ RequestOf(call.s) \in Directory("request")
           /\ <<"record", call.s>> \in Directory("record")
<1>1. call.s \in Session
  BY DEF Call
<1> QED
  BY <1>1 DEF Destination, RequestOf, Directory, RecordKind, RequestKind

LEMMA AckInvStep ==
    FilesTypeOK /\ WholeInv /\ AckInv /\ [FilesNext]_filesVars => AckInv'
<1> SUFFICES ASSUME FilesTypeOK, WholeInv, AckInv, [FilesNext]_filesVars PROVE AckInv'
  OBVIOUS
<1> DEFINE Durable == \A n \in call.did : n \in Pending \/ durable[n] = visible[n]
<1>0. /\ call \in Call /\ call.did \in SUBSET PublicName
      /\ \A n \in LeftoverName : n \notin PublicName
      /\ AcknowledgedSurvives /\ Durable
  BY DEF FilesTypeOK, Call, PublicName, LeftoverName, AckInv
\* An operation that is given up or reports has changed nothing since.
<1>a. call'.did = {} => Durable'
  OBVIOUS
<1>1. ASSUME NEW op \in Operation, NEW s \in Session, NEW doc \in Doc,
             NEW drop \in BOOLEAN, Request(op, s, doc, drop) PROVE AckInv'
  <2>1. AcknowledgedSurvives'
    BY <1>0, <1>1 DEF Request, AcknowledgedSurvives
  <2>2. call'.did = {}
    BY <1>1, NoCallIsCall, NoCallFields DEF Request, Call
  <2> QED
    BY <1>a, <2>1, <2>2 DEF AckInv
<1>2. ASSUME NEW kind \in {"record", "request"}, Sweep(kind) PROVE AckInv'
  <2>1. AcknowledgedSurvives'
    BY <1>0, <1>2, ChangeAck DEF Sweep
  <2>2. /\ call'.did = call.did /\ call.pc \in SweepPC
        /\ \A n \in PublicName : durable'[n] = durable[n] /\ visible'[n] = visible[n]
    BY <1>0, <1>2, NameSets DEF Sweep, Change, GoesTo, Leftovers, Call, SweepPC
  <2> QED
    BY <1>0, <2>1, <2>2 DEF AckInv, Pending, SweepPC
<1>3. ASSUME NEW kind \in {"record", "request"}, SweepSync(kind) PROVE AckInv'
  <2>1. AcknowledgedSurvives'
    BY <1>0, <1>3, SyncAck DEF SweepSync
  <2>2. /\ call'.did = call.did /\ call.pc \in SweepPC /\ visible' = visible
        /\ \A n \in PublicName : durable'[n] \in {durable[n], visible[n]}
    BY <1>0, <1>3, NameSets DEF SweepSync, Sync, GoesTo, Call, SweepPC
  <2> QED
    BY <1>0, <2>1, <2>2 DEF AckInv, Pending, SweepPC
<1>4. ASSUME NEW kind \in {"record", "request"}, SweepDone(kind) PROVE AckInv'
  <2>1. call'.did = call.did /\ call.pc \in SweepPC
    BY <1>0, <1>4 DEF SweepDone, GoesTo, Call, SweepPC
  <2> QED
    BY <1>0, <1>4, <2>1
       DEF AckInv, AcknowledgedSurvives, SweepDone, NothingChanges, Pending, SweepPC
\* Calls before which and after which nothing awaits a sync.
<1>5. ASSUME \/ StartWrite \/ StartUpdate \/ StartDiscard \/ StartDelete \/ StartClean
             \/ VisitedAll \/ DropNothing \/ \E s \in Session : Visit(s)
      PROVE  AckInv'
  <2>1. call'.did = call.did /\ call.pc \in {"start", "visit", "drop"} /\ NothingChanges
    BY <1>0, <1>5 DEF StartWrite, StartUpdate, StartDiscard, StartDelete, StartClean,
                      VisitedAll, DropNothing, Visit, GoesTo, Call
  <2> QED
    BY <1>0, <2>1 DEF AckInv, AcknowledgedSurvives, NothingChanges, Pending
<1>6. WriteTemporary => AckInv'
  <2> SUFFICES ASSUME WriteTemporary PROVE AckInv'
    OBVIOUS
  <2>1. AcknowledgedSurvives'
    BY <1>0, ChangeAck DEF WriteTemporary
  <2>2. /\ call'.did = call.did /\ call.pc = "write"
        /\ \A n \in PublicName : durable'[n] = durable[n] /\ visible'[n] = visible[n]
    BY <1>0, NameSets, WriteNames DEF WriteTemporary, Change, GoesTo, Call
  <2> QED
    BY <1>0, <2>1, <2>2 DEF AckInv, Pending
<1>7. Flush => AckInv'
  <2> SUFFICES ASSUME Flush PROVE AckInv'
    OBVIOUS
  <2>1. /\ call'.did = call.did /\ call.pc = "flush" /\ reported' = reported
        /\ \A n \in PublicName : durable'[n] = durable[n] /\ visible'[n] = visible[n]
    BY <1>0, NameSets, WriteNames DEF Flush, GoesTo, Call, FilesTypeOK
  <2> QED
    BY <1>0, <2>1 DEF AckInv, AcknowledgedSurvives, Pending
<1>8. RenameTemporary => AckInv'
  <2> SUFFICES ASSUME RenameTemporary PROVE AckInv'
    OBVIOUS
  <2>1. AcknowledgedSurvives'
    BY <1>0, ChangeAck DEF RenameTemporary
  <2>2. /\ call'.did = call.did \cup {Destination} /\ call'.pc = "renameSync"
        /\ call.pc = "rename" /\ Destination' = Destination
    BY <1>0 DEF RenameTemporary, Call, Destination
  <2>3. \A n \in PublicName : n # Destination =>
           durable'[n] = durable[n] /\ visible'[n] = visible[n]
    BY <1>0, NameSets, WriteNames DEF RenameTemporary, Change
  <2>4. Destination \in Pending'
    BY <1>0, <2>2, WriteNames DEF Pending
  <2> QED
    BY <1>0, <2>1, <2>2, <2>3, <2>4 DEF AckInv, Pending
<1>9. RenameSync \/ ClaimSync \/ DropSync \/ RemoveSync => AckInv'
  <2> SUFFICES ASSUME RenameSync \/ ClaimSync \/ DropSync \/ RemoveSync PROVE AckInv'
    OBVIOUS
  <2>1. AcknowledgedSurvives'
    BY <1>0, SyncAck DEF RenameSync, ClaimSync, DropSync, RemoveSync
  <2>2. /\ call'.did = call.did /\ visible' = visible
        /\ \A n \in PublicName : durable'[n] \in {durable[n], visible[n]}
    BY <1>0, NameSets DEF RenameSync, ClaimSync, DropSync, RemoveSync, Sync, GoesTo, Call
  <2>3. \A n \in Pending : durable'[n] = visible[n]
    BY <1>0, NameSets, SyncedNames
       DEF Pending, RenameSync, ClaimSync, DropSync, RemoveSync, Sync
  <2> QED
    BY <1>0, <2>1, <2>2, <2>3 DEF AckInv
<1>10. StartConsume => AckInv'
  <2> SUFFICES ASSUME StartConsume PROVE AckInv'
    OBVIOUS
  <2>1. AcknowledgedSurvives'
    BY <1>0, ChangeAck DEF StartConsume
  <2>2. call'.did = {RequestOf(call.s)} /\ call'.pc = "claimed" /\ call'.s = call.s
    BY <1>0 DEF StartConsume, Call
  <2>3. RequestOf(call.s) \in Pending'
    BY <1>0, <2>2, WriteNames DEF Pending
  <2> QED
    BY <2>1, <2>2, <2>3 DEF AckInv
<1>11. TakeClaim => AckInv'
  <2> SUFFICES ASSUME TakeClaim PROVE AckInv'
    OBVIOUS
  <2>1. AcknowledgedSurvives'
    BY <1>0, ChangeAck DEF TakeClaim
  <2>2. /\ call'.did = call.did /\ call'.pc = "claimSync" /\ call.pc = "claimed"
        /\ call'.s = call.s
    BY <1>0 DEF TakeClaim, Call
  <2>3. \A n \in PublicName : durable'[n] = durable[n] /\ visible'[n] = visible[n]
    BY <1>0, NameSets, WriteNames DEF TakeClaim, Change
  <2> QED
    BY <1>0, <2>1, <2>2, <2>3 DEF AckInv, Pending
<1>12. Drop \/ RemoveRecord => AckInv'
  <2> SUFFICES ASSUME Drop \/ RemoveRecord PROVE AckInv'
    OBVIOUS
  <2> DEFINE gone == IF call.pc = "drop" THEN RequestOf(call.s) ELSE <<"record", call.s>>
  <2>1. AcknowledgedSurvives'
    BY <1>0, ChangeAck DEF Drop, RemoveRecord
  <2>2. call'.did = call.did \cup {gone} /\ call.pc \in {"drop", "remove"}
    BY <1>0 DEF Drop, RemoveRecord, Call
  <2>3. \A n \in PublicName : n # gone => durable'[n] = durable[n] /\ visible'[n] = visible[n]
    BY <1>0, NameSets, WriteNames DEF Drop, RemoveRecord, Change
  <2>4. /\ call'.s = call.s
        /\ call'.pc = IF call.pc = "drop" THEN "dropSync" ELSE "removeSync"
    BY <1>0 DEF Drop, RemoveRecord, Call
  <2>5. gone \in Pending'
    BY <1>0, <2>2, <2>4, WriteNames DEF Pending
  <2>6. Pending = {}
    BY <2>2 DEF Pending
  <2> QED
    BY <1>0, <2>1, <2>2, <2>3, <2>5, <2>6 DEF AckInv
<1>13. Returns => AckInv'
  <2> SUFFICES ASSUME Returns PROVE AckInv'
    OBVIOUS
  <2>1. \A n \in call.did : durable[n] = visible[n]
    BY <1>0 DEF Returns, Pending
  <2>2. AcknowledgedSurvives'
    BY <1>0, <2>1 DEF Returns, AcknowledgedSurvives
  <2> QED
    BY <1>a, <2>2, NoCallFields DEF AckInv, Returns
<1>14. GivesUp => AckInv'
  BY <1>0, <1>a, NoCallFields DEF AckInv, GivesUp, NothingChanges, AcknowledgedSurvives
<1>15. GivesUpWriting => AckInv'
  BY <1>0, <1>a, NoCallFields, ChangeAck DEF AckInv, GivesUpWriting
<1>16. DropFails => AckInv'
  <2> SUFFICES ASSUME DropFails PROVE AckInv'
    OBVIOUS
  <2>1. call'.did = call.did \ {RequestOf(call.s)} /\ call.pc \in {"drop", "dropSync"}
    BY <1>0 DEF DropFails, Call
  <2>2. Pending \subseteq {RequestOf(call.s)}
    BY <2>1 DEF Pending
  <2> QED
    BY <1>0, <2>1, <2>2 DEF AckInv, DropFails, NothingChanges, AcknowledgedSurvives
<1>17. ASSUME NEW n \in Name, WriteBack(n) PROVE AckInv'
  <2>1. /\ call' = call /\ visible' = visible /\ reported' = reported
        /\ \A m \in PublicName : durable'[m] \in {durable[m], visible[m]}
    BY <1>17, NameSets DEF WriteBack, FilesTypeOK
  <2>2. Pending' = Pending
    BY <2>1 DEF Pending, Destination
  <2> QED
    BY <1>0, <2>1, <2>2 DEF AckInv, AcknowledgedSurvives
<1>18. PowerFailure => AckInv'
  <2> SUFFICES ASSUME PowerFailure PROVE AckInv'
    OBVIOUS
  <2>1. PICK torn \in SUBSET {n \in Name : ~durable[n].flushed} :
           visible' = [n \in Name |-> Whole(IF n \in torn THEN "torn" ELSE durable[n].doc)]
    BY DEF PowerFailure
  <2>2. \A n \in PublicName : n \notin torn
    BY DEF WholeInv, WholeFile
  <2>3. \A n \in PublicName : visible'[n] = Whole(durable[n].doc)
    BY <2>1, <2>2, NameSets
  <2>a. \A doc : Whole(doc).doc = doc
    BY DEF Whole
  <2>4. \A n \in PublicName : visible'[n].doc = durable[n].doc
    BY <2>3, <2>a
  <2>5. durable' = visible' /\ reported' = reported /\ call' = NoCall
    BY DEF PowerFailure
  <2> QED
    BY <1>0, <1>a, <2>4, <2>5, NoCallFields DEF AckInv, AcknowledgedSurvives
<1>19. UNCHANGED filesVars => AckInv'
  BY <1>0 DEF filesVars, AckInv, AcknowledgedSurvives, Pending, Destination
<1> QED
  BY <1>1, <1>2, <1>3, <1>4, <1>5, <1>6, <1>7, <1>8, <1>9, <1>10, <1>11, <1>12, <1>13,
     <1>14, <1>15, <1>16, <1>17, <1>18, <1>19, FilesCases

-----------------------------------------------------------------------------
(***************************************************************************)
(* The sweep: behind it, only the operation's own names are there.         *)
(***************************************************************************)
SweptInv ==
    /\ call.pc \in {"sweepRequest", "sweptRequest"} =>
          \A n \in LeftoverName \cap Directory("record") : ~IsThere(n)
    /\ call.pc \in WorkPC => \A n \in LeftoverName : IsThere(n) =>
          \/ call.pc \in WritePC /\ n = Temporary
          \/ call.pc = "claimed" /\ n = ClaimOf(call.s)

LEMMA SweptInvInit == FilesInit => SweptInv
BY NoCallFields DEF FilesInit, SweptInv, WorkPC, WritePC

\* A step that neither adds a leftover nor gets past the sweep keeps it.
LEMMA NothingLeft ==
    ASSUME FilesTypeOK, SweptInv,
           call.pc \in WorkPC, call.pc \notin WritePC, call.pc # "claimed",
           \A n \in LeftoverName : visible'[n] \in {visible[n], Missing},
           call'.pc \notin {"sweepRequest", "sweptRequest"}
    PROVE  SweptInv'
BY DEF SweptInv, IsThere

LEMMA SweptInvStep == FilesTypeOK /\ SweptInv /\ [FilesNext]_filesVars => SweptInv'
<1> SUFFICES ASSUME FilesTypeOK, SweptInv, [FilesNext]_filesVars PROVE SweptInv'
  OBVIOUS
<1>0. /\ call \in Call /\ LeftoverName \subseteq Name
      /\ \A n \in LeftoverName : n \notin PublicName
      /\ LeftoverName \subseteq Directory("record") \cup Directory("request")
  BY NameSets DEF FilesTypeOK, PublicName, LeftoverName, Directory, RecordKind, RequestKind
<1>a. call'.pc = "idle" => SweptInv'
  BY DEF SweptInv, WorkPC, WritePC
<1>1. ASSUME NEW op \in Operation, NEW s \in Session, NEW doc \in Doc,
             NEW drop \in BOOLEAN, Request(op, s, doc, drop) PROVE SweptInv'
  <2>1. call'.pc = "sweepRecord"
    BY <1>1, NoCallIsCall DEF Request, Call
  <2> QED
    BY <2>1 DEF SweptInv, WorkPC, WritePC
<1>2. ASSUME NEW kind \in {"record", "request"}, Sweep(kind) PROVE SweptInv'
  <2>1. \A n \in LeftoverName : visible'[n] \in {visible[n], Missing}
    BY <1>0, <1>2 DEF Sweep, Change, Leftovers
  <2>2. \/ call.pc = "sweepRecord" /\ call'.pc = "sweptRecord"
        \/ call.pc = "sweepRequest" /\ call'.pc = "sweptRequest"
    BY <1>0, <1>2 DEF Sweep, GoesTo, Call
  <2> QED
    BY <2>1, <2>2 DEF SweptInv, IsThere, WorkPC, WritePC
<1>3. ASSUME NEW kind \in {"record", "request"}, SweepSync(kind) PROVE SweptInv'
  <2>1. /\ visible' = visible
        /\ \/ call.pc = "sweptRecord" /\ call'.pc = "sweepRecord"
           \/ call.pc = "sweptRequest" /\ call'.pc = "sweepRequest"
    BY <1>0, <1>3 DEF SweepSync, Sync, GoesTo, Call
  <2> QED
    BY <2>1 DEF SweptInv, IsThere, WorkPC, WritePC
<1>4. ASSUME NEW kind \in {"record", "request"}, SweepDone(kind) PROVE SweptInv'
  <2>1. /\ visible' = visible
        /\ \A n \in LeftoverName \cap Directory(kind) : ~IsThere(n)
        /\ \/ kind = "record" /\ call'.pc = "sweepRequest"
           \/ kind = "request" /\ call.pc = "sweepRequest" /\ call'.pc = "start"
    BY <1>0, <1>4 DEF SweepDone, Leftovers, NothingChanges, GoesTo, Call
  <2> QED
    BY <1>0, <2>1 DEF SweptInv, IsThere, WorkPC, WritePC
<1>5. ASSUME \/ StartWrite \/ StartUpdate \/ StartDiscard \/ StartDelete \/ StartClean
             \/ VisitedAll \/ DropNothing \/ DropFails \/ \E s \in Session : Visit(s)
      PROVE  SweptInv'
  <2>1. /\ call.pc \in {"start", "visit", "drop", "dropSync"} /\ visible' = visible
        /\ call'.pc \notin {"sweepRequest", "sweptRequest"}
    BY <1>0, <1>5 DEF StartWrite, StartUpdate, StartDiscard, StartDelete, StartClean, VisitedAll,
          DropNothing, DropFails, Visit, NothingChanges, GoesTo, AfterDrop, Call
  <2> QED
    BY <2>1, NothingLeft DEF WorkPC, WritePC
<1>6. WriteTemporary => SweptInv'
  <2> SUFFICES ASSUME WriteTemporary PROVE SweptInv'
    OBVIOUS
  <2>1. call.pc = "write" /\ call'.pc = "flush" /\ Temporary' = Temporary
    BY <1>0 DEF WriteTemporary, GoesTo, Call, Temporary
  <2>2. \A n \in LeftoverName : n # Temporary => visible'[n] = visible[n]
    BY <1>0 DEF WriteTemporary, Change
  <2> QED
    BY <2>1, <2>2 DEF SweptInv, IsThere, WorkPC, WritePC
<1>7. Flush => SweptInv'
  <2> SUFFICES ASSUME Flush PROVE SweptInv'
    OBVIOUS
  <2>1. call.pc = "flush" /\ call'.pc = "rename" /\ Temporary' = Temporary
    BY <1>0 DEF Flush, GoesTo, Call, Temporary
  <2>2. \A n \in LeftoverName : n # Temporary => visible'[n] = visible[n]
    BY <1>0 DEF Flush, FilesTypeOK
  <2> QED
    BY <2>1, <2>2 DEF SweptInv, IsThere, WorkPC, WritePC
<1>8. RenameTemporary => SweptInv'
  <2> SUFFICES ASSUME RenameTemporary PROVE SweptInv'
    OBVIOUS
  <2>1. call.pc = "rename" /\ call'.pc = "renameSync"
    BY <1>0 DEF RenameTemporary, Call
  <2>2. \A n \in LeftoverName : visible'[n] = IF n = Temporary THEN Missing ELSE visible[n]
    BY <1>0, WriteNames DEF RenameTemporary, Change
  <2> QED
    BY <2>1, <2>2 DEF SweptInv, IsThere, WorkPC, WritePC
<1>9. RenameSync \/ ClaimSync \/ DropSync \/ RemoveSync => SweptInv'
  <2> SUFFICES ASSUME RenameSync \/ ClaimSync \/ DropSync \/ RemoveSync PROVE SweptInv'
    OBVIOUS
  <2>1. /\ call.pc \in {"renameSync", "claimSync", "dropSync", "removeSync"}
        /\ visible' = visible /\ call'.pc \notin {"sweepRequest", "sweptRequest"}
    BY <1>0 DEF RenameSync, ClaimSync, DropSync, RemoveSync, Sync, GoesTo, AfterDrop, Call
  <2> QED
    BY <2>1, NothingLeft DEF WorkPC, WritePC
<1>10. StartConsume => SweptInv'
  <2> SUFFICES ASSUME StartConsume PROVE SweptInv'
    OBVIOUS
  <2>1. call.pc = "start" /\ call'.pc = "claimed" /\ call'.s = call.s
    BY <1>0 DEF StartConsume, Call
  <2>2. ClaimOf(call.s)' = ClaimOf(call.s)
    BY <2>1 DEF ClaimOf
  <2>3. \A n \in LeftoverName : n # ClaimOf(call.s) => visible'[n] = visible[n]
    BY <1>0, WriteNames DEF StartConsume, Change
  <2> QED
    BY <2>1, <2>2, <2>3 DEF SweptInv, IsThere, WorkPC, WritePC
<1>11. TakeClaim => SweptInv'
  <2> SUFFICES ASSUME TakeClaim PROVE SweptInv'
    OBVIOUS
  <2>1. call.pc = "claimed" /\ call'.pc = "claimSync"
    BY <1>0 DEF TakeClaim, Call
  <2>2. \A n \in LeftoverName :
           visible'[n] = IF n = ClaimOf(call.s) THEN Missing ELSE visible[n]
    BY <1>0 DEF TakeClaim, Change
  <2> QED
    BY <2>1, <2>2 DEF SweptInv, IsThere, WorkPC, WritePC
<1>12. Drop \/ RemoveRecord => SweptInv'
  <2> SUFFICES ASSUME Drop \/ RemoveRecord PROVE SweptInv'
    OBVIOUS
  <2>1. call.pc \in {"drop", "remove"} /\ call'.pc \in {"dropSync", "removeSync"}
    BY <1>0 DEF Drop, RemoveRecord, Call
  <2>2. \A n \in LeftoverName : visible'[n] = visible[n]
    BY <1>0, WriteNames DEF Drop, RemoveRecord, Change
  <2> QED
    BY <2>1, <2>2, NothingLeft DEF WorkPC, WritePC
<1>13. Returns \/ GivesUp \/ GivesUpWriting \/ PowerFailure => SweptInv'
  BY <1>a, NoCallFields DEF Returns, GivesUp, GivesUpWriting, PowerFailure
<1>14. ASSUME NEW n \in Name, WriteBack(n) PROVE SweptInv'
  BY <1>14 DEF WriteBack, SweptInv, IsThere, Temporary
<1>15. UNCHANGED filesVars => SweptInv'
  BY DEF filesVars, SweptInv, IsThere, Temporary
<1> QED
  BY <1>1, <1>2, <1>3, <1>4, <1>5, <1>6, <1>7, <1>8, <1>9, <1>10, <1>11, <1>12, <1>13,
     <1>14, <1>15, FilesCases

-----------------------------------------------------------------------------
(***************************************************************************)
(* The arguments: a request is written once, and whoever takes it syncs    *)
(* the removal of every name it was under before it hands it out.          *)
(***************************************************************************)
RequestGone(s) ==
    \A kind \in RequestKind :
        visible[<<kind, s>>].doc # "request" /\ durable[<<kind, s>>].doc # "request"

ConsumeInv ==
    /\ call.pc = "claimed" => visible[RequestOf(call.s)].doc # "request"
    /\ call.pc = "claimSync" =>
          \A kind \in RequestKind : visible[<<kind, call.s>>].doc # "request"
    /\ call.pc = "done" /\ call.op = "consume" => RequestGone(call.s)
    /\ call.pc \in {"claimSync", "done"} /\ call.op = "consume" /\ call.doc = "request" =>
          call.s \in published

OnceInv ==
    /\ delivered \subseteq published
    /\ \A s \in delivered : RequestGone(s)
    /\ \A s \in Session : ~RequestGone(s) => s \in published
    /\ call.op = "publish" => call.s \in published /\ call.s \notin delivered

LEMMA RequestNames ==
    ASSUME NEW s \in Session, NEW kind \in RequestKind
    PROVE  /\ <<kind, s>> \in Name /\ <<kind, s>> \in Directory("request")
           /\ \A k \in RecordKind \cup RequestKind, t \in Session :
                 <<k, t>> = <<kind, s>> <=> k = kind /\ t = s
BY DEF Name, Directory, RequestKind, RecordKind

LEMMA ArgumentsInit == FilesInit => ConsumeInv /\ OnceInv
<1> SUFFICES ASSUME FilesInit PROVE ConsumeInv /\ OnceInv
  OBVIOUS
<1>1. \A n \in Name : visible[n].doc # "request" /\ durable[n].doc # "request"
  BY DEF FilesInit, Whole, Missing
<1>2. \A s \in Session : RequestGone(s)
  BY <1>1, RequestNames DEF RequestGone
<1> QED
  BY <1>2, NoCallFields DEF FilesInit, ConsumeInv, OnceInv

\* Only the writing of the request itself puts it anywhere for the first time.
LEMMA GoneStays ==
    ASSUME FilesTypeOK, CallInv, [FilesNext]_filesVars,
           NEW s \in Session, RequestGone(s), ~(call.op = "publish" /\ call.s = s)
    PROVE  RequestGone(s)'
<1>0. call \in Call /\ call.s \in Session /\ Missing.doc = "none"
  BY MissingFacts DEF FilesTypeOK, Call
<1> DEFINE Gone == RequestGone(s)'
\* Calls that move nothing to a name of s, and those of a write that is not its
\* request's: it goes to a record, or to another session's names.
<1>a. NothingChanges => Gone
  BY DEF NothingChanges, RequestGone
<1>b. ASSUME NEW kind, Sync(kind) PROVE Gone
  BY <1>b, RequestNames DEF Sync, RequestGone
<1>c. ASSUME NEW files, Change(files),
             \A kind \in RequestKind : <<kind, s>> \in DOMAIN files =>
                 files[<<kind, s>>].doc # "request"
      PROVE  Gone
  BY <1>c, RequestNames DEF Change, RequestGone
<1>d. ASSUME call.op \in {"save", "update", "publish"}, NEW kind \in RequestKind
      PROVE  <<kind, s>> # Temporary /\ <<kind, s>> # Destination
  BY <1>0, <1>d, RequestNames DEF Temporary, Destination, RecordKind, RequestKind
<1>1. ASSUME NEW op \in Operation, NEW t \in Session, NEW doc \in Doc,
             NEW drop \in BOOLEAN, Request(op, t, doc, drop) PROVE Gone
  BY <1>1 DEF Request, RequestGone
<1>2. ASSUME NEW kind \in {"record", "request"}, Sweep(kind) PROVE Gone
  BY <1>0, <1>2, <1>c DEF Sweep
<1>3. ASSUME NEW kind \in {"record", "request"}, SweepSync(kind) PROVE Gone
  BY <1>3, <1>b DEF SweepSync
<1>4. ASSUME NEW kind \in {"record", "request"}, SweepDone(kind) PROVE Gone
  BY <1>4, <1>a DEF SweepDone
<1>5. StartWrite \/ StartUpdate \/ StartDiscard \/ StartDelete \/ StartClean \/ VisitedAll => Gone
  BY <1>a DEF StartWrite, StartUpdate, StartDiscard, StartDelete, StartClean, VisitedAll
<1>6. WriteTemporary => Gone
  BY <1>c, <1>d DEF WriteTemporary, CallInv
<1>7. Flush => Gone
  <2> SUFFICES ASSUME Flush PROVE Gone
    OBVIOUS
  <2>1. \A kind \in RequestKind : <<kind, s>> # Temporary
    BY <1>d DEF Flush, CallInv
  <2>2. \A kind \in RequestKind : /\ visible'[<<kind, s>>] = visible[<<kind, s>>]
                                  /\ durable'[<<kind, s>>] = durable[<<kind, s>>]
    BY <2>1, RequestNames DEF Flush, FilesTypeOK
  <2> QED
    BY <2>2 DEF RequestGone
<1>8. RenameTemporary => Gone
  BY <1>0, <1>c, <1>d DEF RenameTemporary, CallInv
<1>9. RenameSync \/ ClaimSync \/ DropSync \/ RemoveSync => Gone
  BY <1>b DEF RenameSync, ClaimSync, DropSync, RemoveSync
<1>10. StartConsume => Gone
  <2> SUFFICES ASSUME StartConsume PROVE Gone
    OBVIOUS
  <2>1. call.s = s => visible[RequestOf(call.s)].doc # "request"
    BY DEF RequestGone, RequestOf, RequestKind
  <2>2. \A kind \in RequestKind : <<kind, s>> = ClaimOf(call.s) => call.s = s
    BY <1>0, RequestNames DEF ClaimOf, RequestKind
  <2> QED
    BY <1>0, <1>c, <2>1, <2>2 DEF StartConsume
<1>11. TakeClaim \/ Drop \/ RemoveRecord \/ GivesUpWriting => Gone
  BY <1>0, <1>c DEF TakeClaim, Drop, RemoveRecord, GivesUpWriting
<1>12. ASSUME NEW t \in Session, Visit(t) PROVE Gone
  BY <1>12, <1>a DEF Visit
<1>13. DropNothing \/ GivesUp \/ DropFails => Gone
  BY <1>a DEF DropNothing, GivesUp, DropFails
<1>14. Returns => Gone
  BY DEF Returns, RequestGone
<1>15. ASSUME NEW n \in Name, WriteBack(n) PROVE Gone
  BY <1>15, RequestNames DEF WriteBack, RequestGone, FilesTypeOK
<1>16. PowerFailure => Gone
  <2> SUFFICES ASSUME PowerFailure PROVE Gone
    OBVIOUS
  <2>1. PICK torn \in SUBSET {n \in Name : ~durable[n].flushed} :
           visible' = [n \in Name |-> Whole(IF n \in torn THEN "torn" ELSE durable[n].doc)]
    BY DEF PowerFailure
  <2>2. \A doc : Whole(doc).doc = doc
    BY DEF Whole
  <2>3. \A n \in Name : visible'[n].doc \in {"torn", durable[n].doc}
    BY <2>1, <2>2
  <2>4. durable' = visible'
    BY DEF PowerFailure
  <2> QED
    BY <2>3, <2>4, RequestNames DEF RequestGone
<1>17. UNCHANGED filesVars => Gone
  BY DEF filesVars, RequestGone
<1> QED
  <2> HIDE DEF Gone
  <2>1. Gone
    BY <1>1, <1>2, <1>3, <1>4, <1>5, <1>6, <1>7, <1>8, <1>9, <1>10, <1>11, <1>12, <1>13,
       <1>14, <1>15, <1>16, <1>17, FilesCases
  <2> QED
    BY <2>1 DEF Gone

LEMMA ConsumeInvStep ==
    /\ FilesTypeOK /\ CallInv /\ SweptInv /\ ConsumeInv /\ OnceInv /\ [FilesNext]_filesVars
    => ConsumeInv'
<1> SUFFICES ASSUME FilesTypeOK, CallInv, SweptInv, ConsumeInv, OnceInv,
                    [FilesNext]_filesVars
             PROVE  ConsumeInv'
  OBVIOUS
<1>0. call \in Call /\ call.s \in Session /\ Missing.doc = "none"
  BY MissingFacts DEF FilesTypeOK, Call
\* Every call but the three of a consume is made elsewhere.
<1>a. ASSUME call'.pc \notin {"claimed", "claimSync"},
             call'.pc = "done" => call'.op # "consume"
      PROVE  ConsumeInv'
  BY <1>a DEF ConsumeInv
<1> DEFINE Elsewhere == /\ call'.pc \notin {"claimed", "claimSync"}
                        /\ call'.pc = "done" => call'.op # "consume"
<1>b. ASSUME \/ StartWrite \/ StartUpdate \/ WriteTemporary \/ Flush \/ RenameTemporary
             \/ RenameSync \/ StartDiscard \/ StartDelete \/ StartClean \/ VisitedAll
             \/ Drop \/ DropNothing \/ DropSync \/ RemoveRecord \/ RemoveSync \/ DropFails
             \/ \E s \in Session : Visit(s)
      PROVE  Elsewhere
  BY <1>0, <1>b, ZenonT(40)
     DEF CallInv, SweepPC, StartWrite, StartUpdate, WriteTemporary, Flush, RenameTemporary,
         RenameSync, StartDiscard, StartDelete, StartClean, VisitedAll, Drop, DropNothing, DropSync,
         RemoveRecord, RemoveSync, DropFails, Visit, GoesTo, AfterDrop, Call
<1>1. ASSUME NEW op \in Operation, NEW s \in Session, NEW doc \in Doc,
             NEW drop \in BOOLEAN, Request(op, s, doc, drop) PROVE ConsumeInv'
  <2>1. call'.pc = "sweepRecord"
    BY <1>1, NoCallIsCall DEF Request, Call
  <2> QED
    BY <1>a, <2>1
<1>2. ASSUME NEW kind \in {"record", "request"},
             Sweep(kind) \/ SweepSync(kind) \/ SweepDone(kind)
      PROVE  ConsumeInv'
  <2>1. call'.pc \in SweepPC \cup {"start"}
    BY <1>0, <1>2 DEF Sweep, SweepSync, SweepDone, GoesTo, SweepPC, Call
  <2> QED
    BY <1>a, <2>1 DEF SweepPC
<1>3. StartConsume => ConsumeInv'
  <2> SUFFICES ASSUME StartConsume PROVE ConsumeInv'
    OBVIOUS
  <2>1. call'.pc = "claimed" /\ call'.s = call.s
    BY <1>0 DEF StartConsume, Call
  <2>2. RequestOf(call.s) # ClaimOf(call.s) /\ RequestOf(call.s)' = RequestOf(call.s)
    BY <2>1 DEF RequestOf, ClaimOf
  <2>3. visible'[RequestOf(call.s)] = Missing
    BY <1>0, <2>2, WriteNames DEF StartConsume, Change
  <2>4. visible'[RequestOf(call.s)'].doc # "request"
    BY <1>0, <2>2, <2>3
  <2> QED
    BY <2>1, <2>4 DEF ConsumeInv
<1>4. TakeClaim => ConsumeInv'
  <2> SUFFICES ASSUME TakeClaim PROVE ConsumeInv'
    OBVIOUS
  <2>1. /\ call'.pc = "claimSync" /\ call'.s = call.s /\ call.pc = "claimed"
        /\ call'.doc \in {visible[ClaimOf(call.s)].doc, "none"}
    BY <1>0 DEF TakeClaim, Call
  <2>2. visible' = [n \in Name |-> IF n = ClaimOf(call.s) THEN Missing ELSE visible[n]]
    BY <1>0 DEF TakeClaim, Change
  <2>3. visible[<<"requestTemp", call.s>>] = Missing
    BY <1>0, <2>1, NameFacts DEF SweptInv, IsThere, WorkPC, WritePC, ClaimOf
  <2>4. \A kind \in RequestKind : visible'[<<kind, call.s>>].doc # "request"
    BY <1>0, <2>1, <2>2, <2>3, RequestNames DEF ConsumeInv, RequestKind, RequestOf, ClaimOf
  <2>5. call'.doc = "request" => call.s \in published
    BY <1>0, <2>1 DEF OnceInv, RequestGone, RequestKind, ClaimOf
  <2>6. published' = published
    BY DEF TakeClaim, Change
  <2> QED
    BY <2>1, <2>4, <2>5, <2>6 DEF ConsumeInv
<1>5. ClaimSync => ConsumeInv'
  <2> SUFFICES ASSUME ClaimSync PROVE ConsumeInv'
    OBVIOUS
  <2>1. /\ call'.pc = "done" /\ call.pc = "claimSync" /\ call'.s = call.s
        /\ call'.doc = call.doc /\ call'.op = call.op /\ call.op = "consume"
    BY <1>0 DEF ClaimSync, GoesTo, Call, CallInv
  <2>2. visible' = visible /\ published' = published
    BY DEF ClaimSync, Sync
  <2>3. \A kind \in RequestKind : durable'[<<kind, call.s>>] = visible[<<kind, call.s>>]
    BY <1>0, RequestNames DEF ClaimSync, Sync
  <2>4. RequestGone(call.s)'
    BY <2>1, <2>2, <2>3 DEF ConsumeInv, RequestGone
  <2> QED
    BY <2>1, <2>2, <2>4 DEF ConsumeInv
<1>6. ASSUME NEW s \in Session, Visit(s) PROVE ConsumeInv'
  BY <1>6, <1>a, <1>b
<1>7. Returns \/ GivesUp \/ GivesUpWriting \/ PowerFailure => ConsumeInv'
  BY <1>a, NoCallFields DEF Returns, GivesUp, GivesUpWriting, PowerFailure
<1>8. ASSUME NEW n \in Name, WriteBack(n) PROVE ConsumeInv'
  <2>1. visible' = visible /\ call' = call /\ published' = published
    BY <1>8 DEF WriteBack
  <2>2. RequestGone(call.s) => RequestGone(call.s)'
    BY <1>0, <1>8, RequestNames DEF WriteBack, RequestGone, FilesTypeOK
  <2> QED
    BY <2>1, <2>2 DEF ConsumeInv, RequestOf
<1>9. UNCHANGED filesVars => ConsumeInv'
  BY DEF filesVars, ConsumeInv, RequestGone, RequestOf
<1> QED
  BY <1>a, <1>b, <1>1, <1>2, <1>3, <1>4, <1>5, <1>6, <1>7, <1>8, <1>9, FilesCases

\* What is noted about a session changes by two calls only.
LEMMA NotesStay ==
    ASSUME FilesTypeOK, CallInv, [FilesNext]_filesVars, ~Returns,
           ~\E op \in Operation, s \in Session, doc \in Doc, drop \in BOOLEAN :
               Request(op, s, doc, drop)
    PROVE  /\ published' = published /\ delivered' = delivered
           /\ call'.op = "publish" => call.op = "publish" /\ call'.s = call.s
<1> DEFINE Same == /\ published' = published /\ delivered' = delivered
                   /\ call'.op = "publish" => call.op = "publish" /\ call'.s = call.s
<1>0. call \in Call
  BY DEF FilesTypeOK
<1> USE <1>0 DEF NothingChanges, Change, Sync, GoesTo
<1>1. ASSUME NEW kind \in {"record", "request"}, Sweep(kind) PROVE Same
  BY <1>1 DEF Sweep, Call
<1>2. ASSUME NEW kind \in {"record", "request"}, SweepSync(kind) PROVE Same
  BY <1>2 DEF SweepSync, Call
<1>3. ASSUME NEW kind \in {"record", "request"}, SweepDone(kind) PROVE Same
  BY <1>3 DEF SweepDone, Call
<1>4. StartWrite \/ StartUpdate \/ WriteTemporary \/ Flush => Same
  BY DEF StartWrite, StartUpdate, WriteTemporary, Flush, Call
<1>5. RenameTemporary \/ RenameSync \/ StartConsume \/ ClaimSync => Same
  BY DEF RenameTemporary, RenameSync, StartConsume, ClaimSync, Call
<1>6. TakeClaim => Same
  BY DEF TakeClaim, Call
<1>7. StartDiscard \/ StartDelete \/ StartClean \/ VisitedAll => Same
  BY DEF StartDiscard, StartDelete, StartClean, VisitedAll, Call
<1>8. ASSUME NEW s \in Session, Visit(s) PROVE Same
  BY <1>8 DEF Visit, Call, CallInv
<1>9. Drop \/ DropNothing \/ DropSync \/ RemoveRecord \/ RemoveSync => Same
  BY DEF Drop, DropNothing, DropSync, RemoveRecord, RemoveSync, Call
<1>10. GivesUp \/ GivesUpWriting \/ PowerFailure => Same
  BY NoCallFields DEF GivesUp, GivesUpWriting, PowerFailure
<1>11. DropFails => Same
  BY DEF DropFails, Call
<1>12. ASSUME NEW n \in Name, WriteBack(n) PROVE Same
  BY <1>12 DEF WriteBack
<1>13. UNCHANGED filesVars => Same
  BY DEF filesVars
<1> HIDE <1>0 DEF Same, NothingChanges, Change, Sync, GoesTo
<1>14. Same
  BY <1>1, <1>2, <1>3, <1>4, <1>5, <1>6, <1>7, <1>8, <1>9, <1>10, <1>11, <1>12, <1>13,
     FilesCases
<1> QED
  BY <1>14 DEF Same

LEMMA OnceInvStep ==
    FilesTypeOK /\ CallInv /\ ConsumeInv /\ OnceInv /\ [FilesNext]_filesVars => OnceInv'
<1> SUFFICES ASSUME FilesTypeOK, CallInv, ConsumeInv, OnceInv, [FilesNext]_filesVars
             PROVE  OnceInv'
  OBVIOUS
<1>0. /\ call \in Call /\ call.s \in Session
      /\ published \subseteq Session /\ delivered \subseteq Session
  BY DEF FilesTypeOK, Call
<1>1. \A s \in Session : RequestGone(s) =>
          RequestGone(s)' \/ (call.op = "publish" /\ call.s = s)
  BY GoneStays
<1>2. ASSUME NEW op \in Operation, NEW t \in Session, NEW doc \in Doc,
             NEW drop \in BOOLEAN, Request(op, t, doc, drop) PROVE OnceInv'
  <2>1. /\ call'.op = op /\ call'.s = t /\ delivered' = delivered
        /\ published \subseteq published'
        /\ op = "publish" => t \in published' /\ t \notin published
    BY <1>0, <1>2, NoCallIsCall DEF Request, Call
  <2>2. \A s \in Session : RequestGone(s)' = RequestGone(s)
    BY <1>2 DEF Request, RequestGone
  <2> QED
    BY <1>0, <2>1, <2>2 DEF OnceInv
<1>3. CASE Returns
  <2>1. /\ call'.op = "clean" /\ published' = published
        /\ delivered' \subseteq delivered \cup {call.s}
        /\ call.s \in delivered' /\ call.s \notin delivered =>
              call.pc = "done" /\ call.op = "consume" /\ call.doc = "request"
    BY <1>3, NoCallFields DEF Returns
  <2>2. \A s \in Session : RequestGone(s)' = RequestGone(s)
    BY <1>3 DEF Returns, RequestGone
  <2> QED
    BY <1>0, <2>1, <2>2 DEF OnceInv, ConsumeInv
<1>4. CASE ~Returns /\ ~\E op \in Operation, s \in Session, doc \in Doc, drop \in BOOLEAN :
                          Request(op, s, doc, drop)
  <2>1. /\ published' = published /\ delivered' = delivered
        /\ call'.op = "publish" => call.op = "publish" /\ call'.s = call.s
    BY <1>4, NotesStay
  <2> QED
    BY <1>0, <1>1, <2>1 DEF OnceInv
<1> QED
  BY <1>2, <1>3, <1>4

-----------------------------------------------------------------------------
(***************************************************************************)
(* The theorems                                                            *)
(***************************************************************************)
FilesInv == FilesTypeOK /\ CallInv /\ WholeInv /\ AckInv /\ SweptInv /\ ConsumeInv /\ OnceInv

LEMMA FilesInvariant == FilesSpec => []FilesInv
<1>1. FilesInit => FilesInv
  BY FilesInitTyped, CallInvInit, WholeInvInit, AckInvInit, SweptInvInit, ArgumentsInit
     DEF FilesInv
<1>2. FilesInv /\ [FilesNext]_filesVars => FilesInv'
  BY FilesTyped, CallInvStep, WholeInvStep, AckInvStep, SweptInvStep, ConsumeInvStep,
     OnceInvStep DEF FilesInv
<1> QED
  BY <1>1, <1>2, PTL DEF FilesSpec

\* No reader and no restart finds a part of a document.
THEOREM NeverTorn == FilesSpec => []WholeDocuments
<1>1. FilesInv => WholeDocuments
  BY DEF FilesInv, WholeInv, WholeFile, WholeDocuments
<1> QED
  BY <1>1, FilesInvariant, PTL

\* What an operation has reported as done outlives a power failure.
THEOREM ReportedIsDurable == FilesSpec => []AcknowledgedSurvives
<1>1. FilesInv => AcknowledgedSurvives
  BY DEF FilesInv, AckInv
<1> QED
  BY <1>1, FilesInvariant, PTL

\* Arguments that were handed out are under no name, now or after a power
\* failure, and who works under the lock finds nothing that a crash left.
THEOREM ArgumentsOnce == FilesSpec => []ArgumentsGone
<1>1. FilesInv => ArgumentsGone
  BY DEF FilesInv, OnceInv, RequestGone, SweptInv, ArgumentsGone
<1> QED
  BY <1>1, FilesInvariant, PTL

-----------------------------------------------------------------------------
(***************************************************************************)
(* The store that the calls add up to: who is at which call, ...           *)
(***************************************************************************)
OrderInv ==
    /\ call.pc \in {"drop", "dropSync"} => call.op \in {"discard", "delete", "clean"} \/ call.drop
    /\ call.pc \in {"remove", "removeSync"} => call.op = "delete"
    /\ call.drop => call.op = "update"
    /\ call.op = "save" => call.doc = "active"
    /\ call.pc \in SweepPC \cup {"start", "write", "flush", "rename"} => call.did = {}
    /\ call.pc = "renameSync" \/ (call.pc = "done" /\ call.op \in {"save", "publish"}) =>
          Destination \in call.did
    /\ call.op = "consume" /\ call.pc \in {"claimed", "claimSync", "done"} =>
          RequestOf(call.s) \in call.did

\* ... and what it has found or done there.
RecordFits(doc) ==
    /\ call.op = "update" /\ call.pc \in WorkPC \ {"start"} => doc \in RecordDoc
    /\ call.op = "update" /\ call.pc \in {"write", "flush", "rename"} /\ doc = "ended" =>
          call.doc = "ended"
    /\ call.op = "delete" /\ call.pc \in {"drop", "dropSync", "remove"} => doc = "ended"
    /\ call.op = "delete" /\ call.pc \in {"removeSync", "done"} => doc = "none"
    /\ call.op = "clean" /\ call.pc = "drop" => doc \in {"none", "ended"}

RequestFits(doc) ==
    \/ call.pc \in {"claimed", "claimSync", "dropSync", "remove", "removeSync"}
    \/ call.pc = "done" /\ (call.op \in {"consume", "discard", "delete"} \/ call.drop)
    => doc = "none"

DoneInv ==
    /\ \A s \in Session : \A file \in {visible[RequestOf(s)], durable[RequestOf(s)]} :
          file.doc \in {"request", "none"}
    /\ call.pc \in {"flush", "rename"} => visible[Temporary].doc = call.doc
    /\ RecordFits(visible[<<"record", call.s>>].doc)
    /\ RequestFits(visible[RequestOf(call.s)].doc)
    /\ call.op = "consume" /\ call.doc = "request" => call.s \notin delivered

LEMMA OrderInit == FilesInit => OrderInv
BY NoCallFields DEF FilesInit, OrderInv, SweepPC, NoCall

LEMMA OrderStep == FilesTypeOK /\ CallInv /\ OrderInv /\ [FilesNext]_filesVars => OrderInv'
<1> SUFFICES ASSUME FilesTypeOK, CallInv, OrderInv, [FilesNext]_filesVars PROVE OrderInv'
  OBVIOUS
<1>0. call \in Call /\ NoCall.drop = FALSE
  BY DEF FilesTypeOK, NoCall
<1> USE <1>0, NoCallIsCall, NoCallFields DEF OrderInv, CallInv, GoesTo, SweepPC, WritePC
<1>1. ASSUME NEW op \in Operation, NEW s \in Session, NEW doc \in Doc,
             NEW drop \in BOOLEAN, Request(op, s, doc, drop) PROVE OrderInv'
  BY <1>1 DEF Request, Call
<1>2. ASSUME NEW kind \in {"record", "request"}, Sweep(kind) PROVE OrderInv'
  BY <1>2 DEF Sweep, Call
<1>3. ASSUME NEW kind \in {"record", "request"}, SweepSync(kind) PROVE OrderInv'
  BY <1>3 DEF SweepSync, Call
<1>4. ASSUME NEW kind \in {"record", "request"}, SweepDone(kind) PROVE OrderInv'
  BY <1>4 DEF SweepDone, Call
<1>5. StartWrite \/ StartUpdate \/ WriteTemporary \/ Flush => OrderInv'
  BY DEF StartWrite, StartUpdate, WriteTemporary, Flush, Call
<1>6. RenameTemporary => OrderInv'
  <2> SUFFICES ASSUME RenameTemporary PROVE OrderInv'
    OBVIOUS
  <2>1. /\ call'.pc = "renameSync" /\ call.pc = "rename"
        /\ call'.op = call.op /\ call'.s = call.s /\ call'.doc = call.doc
        /\ call'.drop = call.drop /\ call'.did = call.did \cup {Destination}
    BY DEF RenameTemporary, Call
  <2>2. Destination' = Destination
    BY <2>1 DEF Destination
  <2> QED
    BY <2>1, <2>2
<1>16. RenameSync => OrderInv'
  <2> SUFFICES ASSUME RenameSync PROVE OrderInv'
    OBVIOUS
  <2>1. /\ call'.pc = (IF call.drop THEN "drop" ELSE "done") /\ call.pc = "renameSync"
        /\ call'.op = call.op /\ call'.s = call.s /\ call'.doc = call.doc
        /\ call'.drop = call.drop /\ call'.did = call.did
    BY DEF RenameSync, Call
  <2>2. Destination' = Destination
    BY <2>1 DEF Destination
  <2> QED
    BY <2>1, <2>2
<1>7. StartConsume => OrderInv'
  BY DEF StartConsume, Call, RequestOf
<1>17. TakeClaim => OrderInv'
  BY DEF TakeClaim, Call, RequestOf
<1>18. ClaimSync => OrderInv'
  BY DEF ClaimSync, Call, RequestOf
<1>8. StartDiscard \/ StartDelete \/ StartClean \/ VisitedAll => OrderInv'
  BY ZenonT(40) DEF StartDiscard, StartDelete, StartClean, VisitedAll, Call
<1>9. ASSUME NEW s \in Session, Visit(s) PROVE OrderInv'
  BY <1>9 DEF Visit, Call
<1>10. Drop \/ DropNothing \/ DropSync => OrderInv'
  BY ZenonT(40) DEF Drop, DropNothing, DropSync, AfterDrop, Call
<1>11. RemoveRecord \/ RemoveSync => OrderInv'
  BY ZenonT(40) DEF RemoveRecord, RemoveSync, Call
<1>12. Returns \/ GivesUp \/ GivesUpWriting \/ PowerFailure => OrderInv'
  BY DEF Returns, GivesUp, GivesUpWriting, PowerFailure
<1>13. DropFails => OrderInv'
  BY DEF DropFails, Call
<1>14. ASSUME NEW n \in Name, WriteBack(n) PROVE OrderInv'
  BY <1>14 DEF WriteBack, Destination, RequestOf
<1>15. UNCHANGED filesVars => OrderInv'
  BY DEF filesVars, Destination, RequestOf
<1> HIDE <1>0, NoCallIsCall, NoCallFields DEF OrderInv, CallInv, GoesTo, SweepPC, WritePC
<1> QED
  BY <1>1, <1>2, <1>3, <1>4, <1>5, <1>6, <1>7, <1>8, <1>9, <1>10, <1>11, <1>12, <1>13,
     <1>14, <1>15, <1>16, <1>17, <1>18, FilesCases

\* Most calls leave every document where it is, under the public names, ...
Quiet ==
    /\ \A n \in PublicName : visible'[n] = visible[n] /\ durable'[n] \in {durable[n], visible[n]}
    /\ reported' = reported /\ delivered' = delivered

QuietCall ==
    \/ \E op \in Operation, s \in Session, doc \in Doc, drop \in BOOLEAN :
          Request(op, s, doc, drop)
    \/ \E kind \in {"record", "request"} : Sweep(kind) \/ SweepSync(kind) \/ SweepDone(kind)
    \/ StartWrite \/ StartUpdate \/ WriteTemporary \/ Flush \/ RenameSync
    \/ TakeClaim \/ ClaimSync
    \/ StartDiscard \/ StartDelete \/ StartClean \/ VisitedAll
    \/ \E s \in Session : Visit(s)
    \/ DropNothing \/ DropSync \/ RemoveSync
    \/ GivesUp \/ GivesUpWriting \/ DropFails
    \/ \E n \in Name : WriteBack(n)
    \/ UNCHANGED filesVars

LEMMA QuietCalls ==
    ASSUME FilesTypeOK, QuietCall
    PROVE  Quiet
<1>0. /\ call \in Call /\ (\A n \in LeftoverName : n \notin PublicName)
      /\ visible \in [Name -> StoredFile] /\ durable \in [Name -> StoredFile]
      /\ reported \in [PublicName -> Doc \cup {"unknown"}]
  BY DEF FilesTypeOK, PublicName, LeftoverName
<1> USE <1>0, NameSets, WriteNames
<1>a. NothingChanges => Quiet
  BY DEF NothingChanges, Quiet
<1>b. ASSUME NEW files, Change(files), DOMAIN files \cap PublicName = {} PROVE Quiet
  <2>1. reported' = reported
    BY <1>b DEF Change
  <2> QED
    BY <1>b, <2>1 DEF Change, Quiet
<1>c. ASSUME NEW kind, Sync(kind) PROVE Quiet
  BY <1>c DEF Sync, Quiet
<1>1. ASSUME NEW op \in Operation, NEW s \in Session, NEW doc \in Doc,
             NEW drop \in BOOLEAN, Request(op, s, doc, drop) PROVE Quiet
  BY <1>1 DEF Request, Quiet
<1>2. ASSUME NEW kind \in {"record", "request"}, Sweep(kind) PROVE Quiet
  BY <1>2, <1>b DEF Sweep, Leftovers
<1>3. ASSUME NEW kind \in {"record", "request"}, SweepSync(kind) PROVE Quiet
  BY <1>3, <1>c DEF SweepSync
<1>4. ASSUME NEW kind \in {"record", "request"}, SweepDone(kind) PROVE Quiet
  BY <1>4, <1>a DEF SweepDone
<1>5. StartWrite \/ StartUpdate \/ StartDiscard \/ StartDelete \/ StartClean \/ VisitedAll => Quiet
  BY <1>a DEF StartWrite, StartUpdate, StartDiscard, StartDelete, StartClean, VisitedAll
<1>6. WriteTemporary \/ TakeClaim \/ GivesUpWriting => Quiet
  <2>1. \A f : DOMAIN [n \in {Temporary} |-> f] \cap PublicName = {}
    OBVIOUS
  <2>2. DOMAIN [n \in {ClaimOf(call.s)} |-> Missing] \cap PublicName = {}
    OBVIOUS
  <2> QED
    BY <1>b, <2>1, <2>2 DEF WriteTemporary, TakeClaim, GivesUpWriting
<1>7. Flush => Quiet
  BY DEF Flush, Quiet
<1>8. RenameSync \/ ClaimSync \/ DropSync \/ RemoveSync => Quiet
  BY <1>c DEF RenameSync, ClaimSync, DropSync, RemoveSync
<1>9. ASSUME NEW s \in Session, Visit(s) PROVE Quiet
  BY <1>9, <1>a DEF Visit
<1>10. DropNothing \/ GivesUp \/ DropFails => Quiet
  BY <1>a DEF DropNothing, GivesUp, DropFails
<1>11. ASSUME NEW n \in Name, WriteBack(n) PROVE Quiet
  BY <1>11 DEF WriteBack, Quiet
<1>12. UNCHANGED filesVars => Quiet
  BY DEF filesVars, Quiet
<1> HIDE <1>0, NameSets, WriteNames
<1> QED
  BY <1>1, <1>2, <1>3, <1>4, <1>5, <1>6, <1>7, <1>8, <1>9, <1>10, <1>11, <1>12 DEF QuietCall

LEMMA DoneInit == FilesInit => DoneInv
<1> SUFFICES ASSUME FilesInit PROVE DoneInv
  OBVIOUS
<1>1. /\ call.pc = "idle" /\ call.op = "clean" /\ call.doc = "none" /\ call.drop = FALSE
  BY NoCallFields DEF FilesInit, NoCall
<1>2. ASSUME NEW s \in Session
      PROVE  visible[RequestOf(s)] = Missing /\ durable[RequestOf(s)] = Missing
  BY NameFacts DEF FilesInit, IsThere, RequestOf
<1> QED
  BY <1>1, <1>2, MissingFacts DEF DoneInv, RecordFits, RequestFits

LEMMA DoneStep ==
    ASSUME FilesTypeOK, CallInv, WholeInv, OnceInv, OrderInv, DoneInv, [FilesNext]_filesVars
    PROVE  DoneInv'
<1> DEFINE Requests == \A s \in Session : \A file \in {visible[RequestOf(s)], durable[RequestOf(s)]} :
                           file.doc \in {"request", "none"}
           Written == call.pc \in {"flush", "rename"} => visible[Temporary].doc = call.doc
           First == call.op = "consume" /\ call.doc = "request" => call.s \notin delivered
           Same == /\ call'.s = call.s /\ call'.op = call.op /\ call'.drop = call.drop
                   /\ call'.doc = call.doc
<1>0. /\ call \in Call /\ call.s \in Session /\ (\A n \in LeftoverName : n \notin PublicName)
      /\ Requests /\ Written /\ First
      /\ RecordFits(visible[<<"record", call.s>>].doc)
      /\ RequestFits(visible[RequestOf(call.s)].doc)
  BY DEF FilesTypeOK, Call, PublicName, LeftoverName, DoneInv
<1>1. Quiet => Requests'
  <2>1. \A s \in Session : RequestOf(s) \in PublicName /\ RequestOf(s)' = RequestOf(s)
    BY NameFacts DEF RequestOf
  <2> QED
    BY <1>0, <2>1 DEF Quiet
\* An operation that has not begun, or is no more, has nothing done.
<1>2. ASSUME Quiet, call'.pc \in SweepPC \cup {"idle", "start"},
             call'.op = "consume" /\ call'.doc = "request" => call'.s \notin delivered
      PROVE  DoneInv'
  <2>1. Written' /\ RecordFits(visible[<<"record", call.s>>].doc)'
        /\ RequestFits(visible[RequestOf(call.s)].doc)'
    BY <1>2 DEF SweepPC, WorkPC, WritePC, RecordFits, RequestFits
  <2>2. First'
    BY <1>2 DEF Quiet
  <2> QED
    BY <1>1, <1>2, <2>1, <2>2 DEF DoneInv
\* A call that changes nothing for the same session.
<1>3. ASSUME Quiet, Same, Written',
             RecordFits(visible[<<"record", call.s>>].doc)
                 => RecordFits(visible[<<"record", call.s>>].doc)',
             RequestFits(visible[RequestOf(call.s)].doc)
                 => RequestFits(visible[RequestOf(call.s)].doc)'
      PROVE  DoneInv'
  <2>1. First'
    BY <1>0, <1>3 DEF Quiet
  <2> QED
    BY <1>0, <1>1, <1>3, <2>1 DEF DoneInv
<1>4. ASSUME Quiet, call'.s = call.s
      PROVE  /\ visible'[<<"record", call'.s>>].doc = visible[<<"record", call.s>>].doc
             /\ visible'[RequestOf(call.s)'].doc = visible[RequestOf(call.s)].doc
  <2>1. RequestOf(call.s)' = RequestOf(call.s)
    BY <1>4 DEF RequestOf
  <2> QED
    BY <1>4, <2>1, WriteNames, <1>0 DEF Quiet
\* The facts that an operation starts from.
<1>5. StartWrite => DoneInv'
  <2> SUFFICES ASSUME StartWrite PROVE DoneInv'
    OBVIOUS
  <2>1. Quiet /\ Same /\ call'.pc = "write" /\ call.op \in {"save", "publish"}
    BY <1>0, QuietCalls DEF QuietCall, StartWrite, GoesTo, Call
  <2>2. RecordFits(visible[<<"record", call.s>>].doc)' /\ RequestFits(visible[RequestOf(call.s)].doc)'
    BY <2>1 DEF RecordFits, RequestFits
  <2> QED
    BY <1>3, <2>1, <2>2
<1>6. StartUpdate => DoneInv'
  <2> SUFFICES ASSUME StartUpdate PROVE DoneInv'
    OBVIOUS
  <2>1. /\ Quiet /\ Same /\ call.op = "update" /\ Loads(call.s)
        /\ \/ call'.pc = "write" /\ (visible[<<"record", call.s>>].doc = "ended" => call.doc = "ended")
           \/ call'.pc = "drop"
           \/ call'.pc = "done" /\ ~call.drop
    BY <1>0, QuietCalls DEF QuietCall, StartUpdate, GoesTo, Call
  <2>2. RecordFits(visible[<<"record", call.s>>].doc)'
    BY <1>4, <2>1 DEF RecordFits, Loads
  <2>3. RequestFits(visible[RequestOf(call.s)].doc)'
    BY <2>1 DEF RequestFits
  <2> QED
    BY <1>3, <2>1, <2>2, <2>3
<1>7. StartDiscard \/ StartDelete => DoneInv'
  <2> SUFFICES ASSUME StartDiscard \/ StartDelete PROVE DoneInv'
    OBVIOUS
  <2>1. /\ Quiet /\ Same /\ call'.pc = "drop" /\ call.op \in {"discard", "delete"}
        /\ call.op = "delete" => visible[<<"record", call.s>>].doc = "ended"
    BY <1>0, QuietCalls DEF QuietCall, StartDiscard, StartDelete, GoesTo, Call
  <2>2. RecordFits(visible[<<"record", call.s>>].doc)'
    BY <1>4, <2>1 DEF RecordFits
  <2>3. RequestFits(visible[RequestOf(call.s)].doc)'
    BY <2>1 DEF RequestFits
  <2> QED
    BY <1>3, <2>1, <2>2, <2>3
<1>8. ASSUME NEW op \in Operation, NEW s \in Session, NEW doc \in Doc,
             NEW drop \in BOOLEAN, Request(op, s, doc, drop) PROVE DoneInv'
  <2>1. Quiet /\ call'.pc = "sweepRecord" /\ (call'.op = "consume" => call'.doc = "none")
    BY <1>8, NoCallIsCall, QuietCalls DEF QuietCall, Request, Call
  <2> QED
    BY <1>2, <2>1 DEF SweepPC
<1>9. ASSUME NEW kind \in {"record", "request"}, Sweep(kind) \/ SweepSync(kind) \/ SweepDone(kind)
      PROVE  DoneInv'
  <2>1. Quiet /\ Same /\ call'.pc \in SweepPC \cup {"start"}
    <3>1. Quiet
      BY <1>9, QuietCalls DEF QuietCall
    <3> QED
      BY <1>0, <1>9, <3>1 DEF Sweep, SweepSync, SweepDone, GoesTo, SweepPC, Call
  <2> QED
    BY <1>0, <1>2, <2>1
<1>10. WriteTemporary \/ Flush => DoneInv'
  <2> SUFFICES ASSUME WriteTemporary \/ Flush PROVE DoneInv'
    OBVIOUS
  <2>1. /\ Quiet /\ Same /\ call.pc \in {"write", "flush"} /\ call'.pc \in {"flush", "rename"}
        /\ call.op \in {"save", "update", "publish"}
    BY <1>0, QuietCalls DEF QuietCall, WriteTemporary, Flush, GoesTo, Call, CallInv
  <2>2. RecordFits(visible[<<"record", call.s>>].doc)'
    BY <1>0, <1>4, <2>1 DEF RecordFits, WorkPC, WritePC
  <2>3. RequestFits(visible[RequestOf(call.s)].doc)'
    BY <2>1 DEF RequestFits
  <2>4. Temporary' = Temporary
    BY <2>1 DEF Temporary
  <2>5. visible'[Temporary].doc = call.doc
    BY WriteNames, <1>0 DEF WriteTemporary, Flush, Change, Whole, FilesTypeOK
  <2> QED
    BY <1>3, <2>1, <2>2, <2>3, <2>4, <2>5
<1>11. RenameSync => DoneInv'
  <2> SUFFICES ASSUME RenameSync PROVE DoneInv'
    OBVIOUS
  <2>1. /\ Quiet /\ Same /\ call.pc = "renameSync" /\ call.op \in {"save", "update", "publish"}
        /\ call'.pc = (IF call.drop THEN "drop" ELSE "done") /\ (call.drop => call.op = "update")
    BY <1>0, QuietCalls DEF QuietCall, RenameSync, GoesTo, Call, CallInv, OrderInv
  <2>2. RecordFits(visible[<<"record", call.s>>].doc)'
    BY <1>0, <1>4, <2>1 DEF RecordFits, WorkPC, WritePC
  <2>3. RequestFits(visible[RequestOf(call.s)].doc)'
    BY <2>1 DEF RequestFits
  <2> QED
    BY <1>3, <2>1, <2>2, <2>3
<1>12. TakeClaim => DoneInv'
  <2> SUFFICES ASSUME TakeClaim PROVE DoneInv'
    OBVIOUS
  <2>1. /\ Quiet /\ call'.s = call.s /\ call.pc = "claimed" /\ call'.pc = "claimSync"
        /\ call.op = "consume" /\ call'.op = "consume"
        /\ call'.doc \in {visible[ClaimOf(call.s)].doc, "none"}
    BY <1>0, QuietCalls DEF QuietCall, TakeClaim, Call, CallInv
  <2>2. RecordFits(visible[<<"record", call.s>>].doc)' /\ RequestFits(visible[RequestOf(call.s)].doc)'
    BY <1>0, <1>4, <2>1 DEF RecordFits, RequestFits
  <2>3. First'
    BY <1>0, <2>1 DEF Quiet, OnceInv, RequestGone, RequestKind, ClaimOf
  <2> QED
    BY <1>1, <2>1, <2>2, <2>3 DEF DoneInv
<1>13. ClaimSync => DoneInv'
  <2> SUFFICES ASSUME ClaimSync PROVE DoneInv'
    OBVIOUS
  <2>1. /\ Quiet /\ Same /\ call.pc = "claimSync" /\ call'.pc = "done" /\ call.op = "consume"
    BY <1>0, QuietCalls DEF QuietCall, ClaimSync, GoesTo, Call, CallInv
  <2>2. RecordFits(visible[<<"record", call.s>>].doc)'
    BY <2>1 DEF RecordFits
  <2>3. RequestFits(visible[RequestOf(call.s)].doc)'
    BY <1>0, <1>4, <2>1 DEF RequestFits
  <2> QED
    BY <1>3, <2>1, <2>2, <2>3
<1>14. StartClean \/ VisitedAll \/ DropFails => DoneInv'
  <2> SUFFICES ASSUME StartClean \/ VisitedAll \/ DropFails PROVE DoneInv'
    OBVIOUS
  <2>1. /\ Quiet /\ Same /\ call'.pc \in {"visit", "done"} /\ call.op = "clean" /\ ~call.drop
    BY <1>0, QuietCalls, ZenonT(40)
       DEF QuietCall, StartClean, VisitedAll, DropFails, GoesTo, Call, CallInv, OrderInv
  <2>2. RecordFits(visible[<<"record", call.s>>].doc)'
    BY <2>1 DEF RecordFits
  <2>3. RequestFits(visible[RequestOf(call.s)].doc)'
    BY <2>1 DEF RequestFits
  <2> QED
    BY <1>3, <2>1, <2>2, <2>3
<1>15. ASSUME NEW s \in Session, Visit(s) PROVE DoneInv'
  <2>1. /\ Quiet /\ call.op = "clean" /\ call'.op = "clean" /\ call'.s = s
        /\ \/ call'.pc = "visit"
           \/ call'.pc = "drop" /\ visible[<<"record", s>>].doc \in {"none", "ended"}
    BY <1>0, <1>15, QuietCalls DEF QuietCall, Visit, Call, CallInv
  <2>2. visible'[<<"record", s>>] = visible[<<"record", s>>]
    BY <2>1, NameFacts DEF Quiet
  <2>3. RecordFits(visible[<<"record", call.s>>].doc)' /\ RequestFits(visible[RequestOf(call.s)].doc)'
    BY <2>1, <2>2 DEF RecordFits, RequestFits
  <2> QED
    BY <1>1, <2>1, <2>3 DEF DoneInv
<1>16. DropNothing \/ DropSync => DoneInv'
  <2> SUFFICES ASSUME DropNothing \/ DropSync PROVE DoneInv'
    OBVIOUS
  <2>1. /\ Quiet /\ Same /\ call.pc \in {"drop", "dropSync"} /\ call'.pc = AfterDrop
        /\ call.op \in {"update", "discard", "delete", "clean"}
        /\ visible[RequestOf(call.s)].doc = "none"
    BY <1>0, QuietCalls
       DEF QuietCall, DropNothing, DropSync, IsThere, Missing, Whole, GoesTo, Call, OrderInv,
           RequestFits
  <2>2. RecordFits(visible[<<"record", call.s>>].doc)'
    BY <1>0, <1>4, <2>1 DEF RecordFits, AfterDrop, WorkPC, WritePC
  <2>3. RequestFits(visible[RequestOf(call.s)].doc)'
    BY <1>4, <2>1 DEF RequestFits
  <2>4. Written'
    BY <2>1 DEF AfterDrop
  <2> QED
    BY <1>3, <2>1, <2>2, <2>3, <2>4
<1>17. RemoveSync => DoneInv'
  <2> SUFFICES ASSUME RemoveSync PROVE DoneInv'
    OBVIOUS
  <2>1. /\ Quiet /\ Same /\ call.pc = "removeSync" /\ call'.pc = "done" /\ call.op = "delete"
    BY <1>0, QuietCalls DEF QuietCall, RemoveSync, GoesTo, Call, OrderInv
  <2>2. RecordFits(visible[<<"record", call.s>>].doc)'
    BY <1>0, <1>4, <2>1 DEF RecordFits
  <2>3. RequestFits(visible[RequestOf(call.s)].doc)'
    BY <1>0, <1>4, <2>1 DEF RequestFits
  <2> QED
    BY <1>3, <2>1, <2>2, <2>3
<1>18. GivesUp \/ GivesUpWriting => DoneInv'
  <2> SUFFICES ASSUME GivesUp \/ GivesUpWriting PROVE DoneInv'
    OBVIOUS
  <2>1. Quiet /\ call'.pc = "idle" /\ call'.op = "clean"
    BY QuietCalls, NoCallFields DEF QuietCall, GivesUp, GivesUpWriting
  <2> QED
    BY <1>2, <2>1
<1>19. ASSUME (\E n \in Name : WriteBack(n)) \/ UNCHANGED filesVars PROVE DoneInv'
  <2>1. Quiet /\ call' = call /\ visible' = visible
    BY <1>19, QuietCalls DEF QuietCall, WriteBack, filesVars
  <2>2. /\ RecordFits(visible[<<"record", call.s>>].doc)' = RecordFits(visible[<<"record", call.s>>].doc)
        /\ RequestFits(visible[RequestOf(call.s)].doc)' = RequestFits(visible[RequestOf(call.s)].doc)
    BY <2>1 DEF RecordFits, RequestFits, RequestOf
  <2>3. Written'
    BY <1>0, <2>1 DEF Temporary
  <2> QED
    BY <1>3, <2>1, <2>2, <2>3
\* A document comes under its name, ...
<1>20. RenameTemporary => DoneInv'
  <2> SUFFICES ASSUME RenameTemporary PROVE DoneInv'
    OBVIOUS
  <2>1. /\ Same /\ call.pc = "rename" /\ call'.pc = "renameSync"
        /\ call.op \in {"save", "update", "publish"} /\ delivered' = delivered
        /\ visible[Temporary].doc = call.doc
    BY <1>0 DEF RenameTemporary, Change, Call, CallInv
  <2>2. \A n \in PublicName : /\ durable'[n] = durable[n]
                              /\ visible'[n] = IF n = Destination THEN visible[Temporary] ELSE visible[n]
    BY <1>0, NameSets, WriteNames DEF RenameTemporary, Change
  <2>3. Requests'
    <3>1. ASSUME NEW s \in Session
          PROVE  \A file \in {visible[RequestOf(s)]', durable[RequestOf(s)]'} :
                    file.doc \in {"request", "none"}
      <4>1. RequestOf(s) \in PublicName /\ RequestOf(s)' = RequestOf(s)
        BY NameFacts DEF RequestOf
      <4>2. RequestOf(s) = Destination => call.op = "publish" /\ call.doc = "request"
        BY <1>0 DEF RequestOf, Destination, CallInv
      <4> QED
        BY <1>0, <2>1, <2>2, <4>1, <4>2
    <3> QED
      BY <3>1
  <2>4. RecordFits(visible[<<"record", call.s>>].doc)'
    <3>1. call.op = "update" => Destination = <<"record", call.s>> /\ call.doc \in RecordDoc
      BY DEF Destination, CallInv
    <3> QED
      BY <1>0, <2>1, <2>2, <3>1, WriteNames DEF RecordFits
  <2>5. RequestFits(visible[RequestOf(call.s)].doc)'
    BY <2>1 DEF RequestFits
  <2> QED
    BY <1>0, <2>1, <2>3, <2>4, <2>5 DEF DoneInv
\* ... or a name loses its document.
<1>21. ASSUME NEW n \in PublicName, visible'[n] = Missing, durable' = durable, delivered' = delivered,
              \A m \in PublicName : m # n => visible'[m] = visible[m]
       PROVE  Requests'
  <2>1. \A s \in Session : RequestOf(s) \in PublicName /\ RequestOf(s)' = RequestOf(s)
    BY NameFacts DEF RequestOf
  <2> QED
    BY <1>0, <1>21, <2>1, MissingFacts
<1>22. StartConsume \/ Drop => DoneInv'
  <2> SUFFICES ASSUME StartConsume \/ Drop PROVE DoneInv'
    OBVIOUS
  <2>1. /\ Same
        /\ \/ call.pc = "start" /\ call'.pc = "claimed" /\ call.op = "consume"
           \/ call.pc = "drop" /\ call'.pc = "dropSync"
        /\ durable' = durable /\ delivered' = delivered
    BY <1>0 DEF StartConsume, Drop, Change, Call
  <2>2. \A n \in PublicName : visible'[n] = IF n = RequestOf(call.s) THEN Missing ELSE visible[n]
    BY <1>0, NameSets, WriteNames DEF StartConsume, Drop, Change
  <2>3. /\ visible'[<<"record", call.s>>] = visible[<<"record", call.s>>]
        /\ RequestOf(call.s)' = RequestOf(call.s) /\ visible'[RequestOf(call.s)].doc = "none"
    BY <1>0, <2>1, <2>2, WriteNames, MissingFacts DEF RequestOf
  <2>4. RecordFits(visible[<<"record", call.s>>].doc)'
    BY <1>0, <2>1, <2>3 DEF RecordFits, WorkPC, WritePC
  <2>5. RequestFits(visible[RequestOf(call.s)].doc)'
    BY <2>1, <2>3 DEF RequestFits
  <2>6. Requests'
    BY <1>0, <1>21, <2>1, <2>2, WriteNames
  <2> QED
    BY <1>0, <2>1, <2>4, <2>5, <2>6 DEF DoneInv
<1>23. RemoveRecord => DoneInv'
  <2> SUFFICES ASSUME RemoveRecord PROVE DoneInv'
    OBVIOUS
  <2>1. /\ Same /\ call.pc = "remove" /\ call'.pc = "removeSync" /\ call.op = "delete"
        /\ durable' = durable /\ delivered' = delivered
    BY <1>0 DEF RemoveRecord, Change, Call, OrderInv
  <2>2. \A n \in PublicName : visible'[n] = IF n = <<"record", call.s>> THEN Missing ELSE visible[n]
    BY <1>0, NameSets, WriteNames DEF RemoveRecord, Change
  <2>3. /\ visible'[<<"record", call.s>>].doc = "none"
        /\ RequestOf(call.s)' = RequestOf(call.s)
        /\ visible'[RequestOf(call.s)] = visible[RequestOf(call.s)]
    BY <1>0, <2>1, <2>2, WriteNames, MissingFacts DEF RequestOf
  <2>4. RecordFits(visible[<<"record", call.s>>].doc)'
    BY <2>1, <2>3 DEF RecordFits
  <2>5. RequestFits(visible[RequestOf(call.s)].doc)'
    BY <1>0, <2>1, <2>3 DEF RequestFits
  <2>6. Requests'
    BY <1>0, <1>21, <2>1, <2>2, WriteNames
  <2> QED
    BY <1>0, <2>1, <2>4, <2>5, <2>6 DEF DoneInv
<1>24. Returns \/ PowerFailure => DoneInv'
  <2> SUFFICES ASSUME Returns \/ PowerFailure PROVE DoneInv'
    OBVIOUS
  <2>1. call'.pc = "idle" /\ call'.op = "clean"
    BY NoCallFields DEF Returns, PowerFailure
  <2>2. Requests'
    <3>1. \A n \in PublicName : visible'[n].doc \in {visible[n].doc, durable[n].doc}
                              /\ durable'[n].doc = durable[n].doc
      BY NameSets DEF Returns, PowerFailure, WholeInv, WholeFile, Whole
    <3>2. \A s \in Session : RequestOf(s) \in PublicName /\ RequestOf(s)' = RequestOf(s)
      BY NameFacts DEF RequestOf
    <3> QED
      BY <1>0, <3>1, <3>2
  <2>3. RecordFits(visible[<<"record", call.s>>].doc)' /\ RequestFits(visible[RequestOf(call.s)].doc)'
    BY <2>1 DEF RecordFits, RequestFits
  <2> QED
    BY <2>1, <2>2, <2>3 DEF DoneInv
<1> HIDE DEF Requests, Written, First, Same
<1> QED
  BY <1>5, <1>6, <1>7, <1>8, <1>9, <1>10, <1>11, <1>12, <1>13, <1>14, <1>15, <1>16, <1>17,
     <1>18, <1>19, <1>20, <1>22, <1>23, <1>24, FilesCases

-----------------------------------------------------------------------------
(***************************************************************************)
(* Every call is a step of StoreContract, or none                          *)
(***************************************************************************)
LEMMA StoreNames ==
    /\ Store!Name = PublicName
    /\ \A s \in Session : Store!Record(s) = <<"record", s>> /\ Store!Request(s) = RequestOf(s)
BY DEF Store!Name, Store!Record, Store!Request, PublicName, RequestOf

A(op, of, new, drop, did, state) ==
    [op |-> op, of |-> of, new |-> new, drop |-> drop, did |-> did, state |-> state]
OfWhom(c) == IF c.op = "clean" THEN Session ELSE {c.s}
NewIn(c) == IF c.op \in {"save", "update", "publish"} THEN c.doc ELSE "none"
StateOf(c) == IF c.pc = "done" THEN "complete" ELSE "open"
TaskOf(c) == A(c.op, OfWhom(c), NewIn(c), c.drop, c.did, StateOf(c))

\* What the contract's steps do with it.
Finished(t) == [t EXCEPT !.state = "complete"]
Adding(t, n) == [t EXCEPT !.did = @ \cup {n}]
Dropping(t, n) == [t EXCEPT !.did = @ \ {n}]

LEMMA TaskFields ==
    ASSUME NEW op, NEW of, NEW new, NEW drop, NEW did, NEW state
    PROVE  /\ A(op, of, new, drop, did, state).op = op /\ A(op, of, new, drop, did, state).of = of
           /\ A(op, of, new, drop, did, state).new = new
           /\ A(op, of, new, drop, did, state).drop = drop
           /\ A(op, of, new, drop, did, state).did = did
           /\ A(op, of, new, drop, did, state).state = state
BY DEF A

LEMMA TaskFinished ==
    ASSUME NEW op, NEW of, NEW new, NEW drop, NEW did, NEW state
    PROVE  Finished(A(op, of, new, drop, did, state)) = A(op, of, new, drop, did, "complete")
BY DEF A, Finished

LEMMA TaskAdding ==
    ASSUME NEW op, NEW of, NEW new, NEW drop, NEW did, NEW state, NEW n
    PROVE  Adding(A(op, of, new, drop, did, state), n)
               = A(op, of, new, drop, did \cup {n}, state)
BY DEF A, Adding

LEMMA TaskDropping ==
    ASSUME NEW op, NEW of, NEW new, NEW drop, NEW did, NEW state, NEW n
    PROVE  Dropping(A(op, of, new, drop, did, state), n)
               = A(op, of, new, drop, did \ {n}, state)
BY DEF A, Dropping

LEMMA TaskIs ==
    /\ call.pc = "idle" => Doing = Store!NoTask
    /\ call.pc # "idle" => Doing = TaskOf(call)
    /\ call'.pc = "idle" => Doing' = Store!NoTask
    /\ call'.pc # "idle" => Doing' = TaskOf(call')
    /\ call.pc # "idle" => /\ Doing.op = call.op /\ Doing.of = OfWhom(call)
                           /\ Doing.new = NewIn(call) /\ Doing.did = call.did
                           /\ Doing.drop = call.drop /\ Doing.state = StateOf(call)
<1>1. /\ call.pc = "idle" => Doing = Store!NoTask
      /\ call.pc # "idle" => Doing = TaskOf(call)
      /\ call'.pc = "idle" => Doing' = Store!NoTask
      /\ call'.pc # "idle" => Doing' = TaskOf(call')
  BY DEF Doing, TaskOf, A, OfWhom, NewIn, StateOf, Store!NoTask
<1> QED
  BY <1>1, TaskFields DEF TaskOf

\* The call goes on with the operation.
Working ==
    /\ call.pc \notin {"idle", "done"} /\ call'.pc # "idle"
    /\ call'.op = call.op /\ call'.drop = call.drop
    /\ call.op = "clean" \/ call'.s = call.s
    /\ call.op \in {"save", "update", "publish"} => call'.doc = call.doc

LEMMA TaskGoesOn ==
    ASSUME Working
    PROVE  /\ Doing = A(call.op, OfWhom(call), NewIn(call), call.drop, call.did, "open")
           /\ Doing' = A(call.op, OfWhom(call), NewIn(call), call.drop, call'.did, StateOf(call'))
<1>1. /\ OfWhom(call') = OfWhom(call) /\ NewIn(call') = NewIn(call) /\ StateOf(call) = "open"
      /\ call'.op = call.op /\ call'.drop = call.drop
  BY DEF Working, OfWhom, NewIn, StateOf
<1>2. Doing = TaskOf(call) /\ Doing' = TaskOf(call')
  BY TaskIs DEF Working
<1> QED
  BY <1>1, <1>2, Zenon DEF TaskOf

LEMMA QuietKeeps ==
    ASSUME Quiet
    PROVE  /\ Store!Keeps
           /\ [n \in PublicName |-> visible[n].doc]' = [n \in PublicName |-> visible[n].doc]
           /\ reported' = reported /\ delivered' = delivered
<1> DEFINE some == {n \in PublicName : durable'[n] = visible[n]}
<1>1. [n \in PublicName |-> durable'[n].doc]
        = [n \in Store!Name |-> IF n \in some THEN [m \in PublicName |-> visible[m].doc][n]
                                ELSE [m \in PublicName |-> durable[m].doc][n]]
  BY StoreNames DEF Quiet
<1>2. some \in SUBSET Store!Name
  BY StoreNames
<1>3. Store!Keeps
  <2> HIDE DEF some
  <2> QED
    BY <1>1, <1>2 DEF Store!Keeps
<1> QED
  BY <1>3 DEF Quiet

LEMMA QuietPersists == Quiet /\ Doing' = Doing => Store!Persist
BY QuietKeeps DEF Store!Persist

LEMMA QuietCompletes ==
    ASSUME FilesTypeOK, Quiet, Working, call'.did = call.did, call'.pc = "done",
           FilesTypeOK', AckInv', OrderInv', DoneInv'
    PROVE  Doing.state = "open" /\ Store!Complete
<1>1. /\ Doing = TaskOf(call) /\ Doing' = TaskOf(call') /\ call.s \in Session
      /\ call.did \subseteq PublicName
  BY TaskIs DEF Working, FilesTypeOK, Call
<1>2. Doing' = Finished(Doing) /\ Doing.state = "open"
  <2>1. StateOf(call') = "complete" /\ call'.did = call.did
    BY DEF StateOf
  <2>2. Doing' = A(call.op, OfWhom(call), NewIn(call), call.drop, call.did, "complete")
    BY <2>1, TaskGoesOn
  <2>3. Finished(Doing) = A(call.op, OfWhom(call), NewIn(call), call.drop, call.did, "complete")
    BY TaskGoesOn, TaskFinished
  <2>4. Doing.state = "open"
    BY TaskIs DEF Working, StateOf
  <2> QED
    BY <2>2, <2>3, <2>4
<1>3. \A n \in call.did : durable'[n].doc = visible[n].doc
  BY <1>1 DEF AckInv, Pending, Quiet
<1>4. Doing.op # "clean" => \A s \in Doing.of : Store!Done(s)
  <2> SUFFICES ASSUME call.op # "clean" PROVE Store!Done(call.s)
    BY <1>1, TaskIs DEF Working, OfWhom
  <2>1. call'.s = call.s /\ RequestOf(call.s)' = RequestOf(call.s)
    BY DEF Working, RequestOf
  <2>2. /\ visible'[<<"record", call.s>>] = visible[<<"record", call.s>>]
        /\ visible'[RequestOf(call.s)] = visible[RequestOf(call.s)]
    BY WriteNames DEF Quiet, FilesTypeOK
  <2>3. /\ call.op = "save" => <<"record", call.s>> \in call.did
        /\ call.op = "publish" => RequestOf(call.s) \in call.did
        /\ call.op = "consume" => RequestOf(call.s) \in call.did
    BY <2>1 DEF OrderInv, Destination, RequestOf, Working
  <2>4. /\ call.op = "update" => visible[<<"record", call.s>>].doc \in RecordDoc
        /\ call.op = "delete" => visible[<<"record", call.s>>].doc = "none"
        /\ call.op \in {"consume", "discard", "delete"} \/ call.drop =>
              visible[RequestOf(call.s)].doc = "none"
    BY <2>1, <2>2 DEF DoneInv, RecordFits, RequestFits, Working, WorkPC
  <2>5. /\ <<"record", call.s>> \in PublicName /\ RequestOf(call.s) \in PublicName
        /\ Store!Record(call.s) = <<"record", call.s>> /\ Store!Request(call.s) = RequestOf(call.s)
    BY <1>1, StoreNames, WriteNames DEF FilesTypeOK
  <2> QED
    BY <2>3, <2>4, <2>5, TaskIs DEF Store!Done, Store!Decoded, RecordDoc, Working
<1>5. \A n \in Doing.did : [m \in PublicName |-> durable[m].doc]'[n]
                            = [m \in PublicName |-> visible[m].doc][n]
  BY <1>1, <1>3, TaskIs DEF Working
<1> QED
  BY <1>2, <1>4, <1>5, QuietKeeps DEF Store!Complete, Finished

\* A call of the operation changes one name, ...
LEMMA OneBecomes ==
    ASSUME FilesTypeOK, Working, NEW n \in PublicName, NEW new,
           call'.did = call.did \cup {n}, call'.pc # "done",
           \A m \in PublicName :
               visible'[m].doc = (IF m = n THEN new ELSE visible[m].doc)
                   /\ durable'[m] = durable[m]
                   /\ reported'[m] = (IF m = n THEN "unknown" ELSE reported[m]),
           reported' \in [PublicName -> Doc \cup {"unknown"}],
           delivered' = delivered
    PROVE  Store!Becomes(n, new)
<1>1. [m \in PublicName |-> visible[m].doc]' = [[m \in PublicName |-> visible[m].doc] EXCEPT ![n] = new]
  OBVIOUS
<1>2. reported' = [reported EXCEPT ![n] = "unknown"]
  BY DEF FilesTypeOK
<1>3. Doing' = Adding(Doing, n)
  <2>1. StateOf(call') = "open"
    BY DEF StateOf
  <2>2. Doing' = A(call.op, OfWhom(call), NewIn(call), call.drop, call.did \cup {n}, "open")
    BY <2>1, TaskGoesOn
  <2>3. Adding(Doing, n) = A(call.op, OfWhom(call), NewIn(call), call.drop, call.did \cup {n}, "open")
    BY TaskGoesOn, TaskAdding
  <2> QED
    BY <2>2, <2>3
<1>4. [m \in PublicName |-> durable[m].doc]' = [m \in PublicName |-> durable[m].doc]
  OBVIOUS
<1> QED
  BY <1>1, <1>2, <1>3, <1>4 DEF Store!Becomes, Adding

\* ... changes nothing, or completes it.
LEMMA QuietWorks ==
    ASSUME FilesTypeOK, Quiet, Working, call'.did = call.did,
           FilesTypeOK', AckInv', OrderInv', DoneInv'
    PROVE  Store!Next
<1>1. CASE call'.pc = "done"
  BY <1>1, QuietCompletes DEF Store!Next
<1>2. CASE call'.pc # "done"
  <2>1. StateOf(call') = "open" /\ call'.did = call.did
    BY <1>2 DEF StateOf
  <2>2. Doing' = Doing
    BY <2>1, TaskGoesOn
  <2> QED
    BY <2>2, QuietPersists DEF Store!Next
<1> QED
  BY <1>1, <1>2

\* What is not there has no document, and the other way round.
LEMMA ThereFacts ==
    ASSUME FilesTypeOK, WholeInv, NEW n \in PublicName
    PROVE  IsThere(n) <=> visible[n].doc # "none"
<1>1. visible[n] \in StoredFile /\ visible[n].flushed
  BY NameSets DEF FilesTypeOK, WholeInv, WholeFile
<1>2. visible[n] = [doc |-> visible[n].doc, flushed |-> visible[n].flushed]
  BY <1>1 DEF StoredFile
<1>3. visible[n].flushed = TRUE
  BY <1>1, Zenon
<1>4. visible[n] = Whole(visible[n].doc)
  BY <1>2, <1>3, Zenon DEF Whole
<1>5. visible[n].doc = "none" => visible[n] = Missing
  BY <1>4, Zenon DEF Missing
<1> QED
  BY <1>5, MissingFacts DEF IsThere

StoreInv == FilesTypeOK /\ CallInv /\ WholeInv /\ AckInv /\ OrderInv /\ DoneInv

\* The changes of documents, ...
LEMMA StoreChanges ==
    ASSUME StoreInv, FilesTypeOK',
           RenameTemporary \/ StartConsume \/ Drop \/ RemoveRecord
    PROVE  Store!Next
<1>0. /\ call \in Call /\ call.s \in Session
      /\ reported' \in [PublicName -> Doc \cup {"unknown"}]
      /\ Store!Record(call.s) = <<"record", call.s>> /\ Store!Request(call.s) = RequestOf(call.s)
      /\ <<"record", call.s>> \in PublicName /\ RequestOf(call.s) \in PublicName
      /\ visible[RequestOf(call.s)].doc \in {"request", "none"}
  BY StoreNames, WriteNames DEF StoreInv, FilesTypeOK, Call, DoneInv
<1>1. ASSUME Working PROVE Doing.op = call.op /\ Doing.new = NewIn(call) /\ Doing.drop = call.drop
                           /\ Doing.of = OfWhom(call) /\ call.s \in Doing.of /\ Doing.state = "open"
  BY <1>0, <1>1, TaskIs DEF Working, OfWhom, StateOf
<1>2. ASSUME RenameTemporary PROVE Store!Next
  <2>1. /\ Working /\ call'.pc # "done" /\ call'.did = call.did \cup {Destination}
        /\ call.pc = "rename" /\ call.op \in {"save", "update", "publish"}
    BY <1>0, <1>2 DEF RenameTemporary, Call, Working, StoreInv, CallInv
  <2>2. /\ \A m \in PublicName :
              /\ visible'[m].doc = (IF m = Destination THEN call.doc ELSE visible[m].doc)
              /\ durable'[m] = durable[m]
              /\ reported'[m] = (IF m = Destination THEN "unknown" ELSE reported[m])
        /\ delivered' = delivered
    BY <1>0, <1>2, <2>1, NameSets, WriteNames DEF RenameTemporary, Change, StoreInv, DoneInv
  <2>a. PICK n \in PublicName, new \in Doc : n = Destination /\ new = call.doc
    BY <1>0, WriteNames DEF Call
  <2>3. Store!Becomes(n, new)
    BY <1>0, <2>a, <2>1, <2>2, OneBecomes DEF StoreInv
  <2>4. NewIn(call) = call.doc
    BY <2>1 DEF NewIn
  <2>5. CASE call.op = "publish"
    <3>1. Destination = Store!Request(call.s) /\ call.doc = "request"
      BY <1>0, <2>5 DEF Destination, RequestOf, StoreInv, CallInv
    <3>2. Store!Publish(call.s)
      BY <1>1, <2>a, <2>1, <2>3, <2>5, <3>1 DEF Store!Publish, Store!Becomes
    <3> QED
      BY <1>1, <2>1, <3>2 DEF Store!Next, Store!Works
  <2>6. CASE call.op = "save"
    <3>1. Destination = Store!Record(call.s) /\ call.doc = "active"
      BY <1>0, <2>6 DEF Destination, StoreInv, OrderInv
    <3>2. Store!Save(call.s)
      BY <1>1, <2>a, <2>1, <2>3, <2>6, <3>1 DEF Store!Save, Store!Becomes
    <3> QED
      BY <1>1, <2>1, <3>2 DEF Store!Next, Store!Works
  <2>7. CASE call.op = "update"
    <3>1. Destination = Store!Record(call.s)
      BY <1>0, <2>7 DEF Destination
    <3>2. /\ visible[<<"record", call.s>>].doc \in RecordDoc
          /\ visible[<<"record", call.s>>].doc = "ended" => call.doc = "ended"
      BY <2>1, <2>7 DEF StoreInv, DoneInv, RecordFits, WorkPC, WritePC
    <3>3. Doing.new = new /\ Store!Record(call.s) = n
      BY <1>1, <2>a, <2>1, <2>4, <3>1
    <3>4. Store!Becomes(Store!Record(call.s), Doing.new)
      BY <2>3, <3>3 DEF Store!Becomes
    <3>5. [m \in PublicName |-> visible[m].doc][Store!Record(call.s)]
             = visible[<<"record", call.s>>].doc
      BY <1>0
    <3>6. Store!Update(call.s)
      <4> HIDE DEF Store!Becomes
      <4> QED
        BY <1>1, <2>a, <2>1, <2>7, <3>2, <3>3, <3>4, <3>5
           DEF Store!Update, Store!Decoded, RecordDoc
    <3> QED
      BY <1>1, <2>1, <3>6 DEF Store!Next, Store!Works
  <2> QED
    BY <2>1, <2>5, <2>6, <2>7
<1>3. ASSUME StartConsume \/ Drop PROVE Store!Next
  <2>1. /\ Working /\ call'.pc # "done" /\ call'.did = call.did \cup {RequestOf(call.s)}
        /\ \/ call.op = "consume"
           \/ call.pc = "drop" /\ (call.op \in {"discard", "delete", "clean"} \/ call.drop)
        /\ IsThere(RequestOf(call.s))
    <3>1. CASE StartConsume
      BY <1>0, <3>1 DEF StartConsume, Call, Working, StoreInv, OrderInv
    <3>2. CASE Drop
      BY <1>0, <3>2 DEF Drop, Call, Working, StoreInv, OrderInv
    <3> QED
      BY <1>3, <3>1, <3>2
  <2>2. /\ \A m \in PublicName :
              /\ visible'[m].doc = (IF m = RequestOf(call.s) THEN "none" ELSE visible[m].doc)
              /\ durable'[m] = durable[m]
              /\ reported'[m] = (IF m = RequestOf(call.s) THEN "unknown" ELSE reported[m])
        /\ delivered' = delivered
    BY <1>0, <1>3, NameSets, WriteNames, MissingFacts, ZenonT(40) DEF StartConsume, Drop, Change
  <2>a. PICK n \in PublicName : n = RequestOf(call.s)
    BY <1>0
  <2>3. Store!Becomes(n, "none")
    BY <1>0, <2>a, <2>1, <2>2, OneBecomes DEF StoreInv
  <2>4. visible[RequestOf(call.s)].doc = "request"
    BY <1>0, <2>1, ThereFacts DEF StoreInv
  <2>5. \/ call.op \in {"consume", "discard"}
        \/ call.op = "update" /\ call.drop /\ visible[<<"record", call.s>>].doc \in RecordDoc
        \/ call.op = "delete" /\ visible[<<"record", call.s>>].doc = "ended"
        \/ call.op = "clean" /\ visible[<<"record", call.s>>].doc \in {"none", "ended"}
    BY <2>1 DEF StoreInv, OrderInv, DoneInv, RecordFits, WorkPC
  <2>6. Store!Withdraw(call.s)
    BY <1>0, <1>1, <2>a, <2>1, <2>3, <2>4, <2>5
       DEF Store!Withdraw, Store!Decoded, Store!Becomes, RecordDoc
  <2> QED
    BY <1>1, <2>1, <2>6 DEF Store!Next, Store!Works
<1>4. ASSUME RemoveRecord PROVE Store!Next
  <2>1. /\ Working /\ call'.pc # "done" /\ call'.did = call.did \cup {<<"record", call.s>>}
        /\ call.pc = "remove" /\ call.op = "delete"
    BY <1>0, <1>4 DEF RemoveRecord, Call, Working, StoreInv, OrderInv
  <2>2. /\ \A m \in PublicName :
              /\ visible'[m].doc = (IF m = <<"record", call.s>> THEN "none" ELSE visible[m].doc)
              /\ durable'[m] = durable[m]
              /\ reported'[m] = (IF m = <<"record", call.s>> THEN "unknown" ELSE reported[m])
        /\ delivered' = delivered
    BY <1>0, <1>4, NameSets, WriteNames, MissingFacts DEF RemoveRecord, Change
  <2>a. PICK n \in PublicName : n = <<"record", call.s>>
    BY <1>0
  <2>3. Store!Becomes(n, "none")
    BY <1>0, <2>a, <2>1, <2>2, OneBecomes DEF StoreInv
  <2>4. visible[<<"record", call.s>>].doc = "ended" /\ visible[RequestOf(call.s)].doc = "none"
    BY <2>1 DEF StoreInv, DoneInv, RecordFits, RequestFits
  <2>5. Store!Remove(call.s)
    BY <1>0, <1>1, <2>a, <2>1, <2>3, <2>4 DEF Store!Remove, Store!Becomes
  <2> QED
    BY <1>1, <2>1, <2>5 DEF Store!Next, Store!Works
<1> QED
  BY <1>2, <1>3, <1>4

\* ... the beginning and the end of an operation, and what comes between them.
LEMMA StoreCalls ==
    ASSUME StoreInv, NEW op \in Operation, NEW s \in Session, NEW new \in Doc,
           NEW drop \in BOOLEAN, Request(op, s, new, drop)
    PROVE  Store!Next
<1>1. Doing = Store!NoTask /\ call'.pc # "idle" /\ call'.pc # "done"
  BY TaskIs, NoCallIsCall DEF Request, Call
<1>2. /\ call'.op = op /\ call'.s = s /\ call'.doc = new /\ call'.drop = drop /\ call'.did = {}
  BY NoCallIsCall, NoCallFields DEF Request, Call
<1> DEFINE of == IF op = "clean" THEN Session ELSE {s}
<1>3. /\ NewIn(call') = new /\ OfWhom(call') = of /\ StateOf(call') = "open"
      /\ op = "save" => new = "active" /\ drop = FALSE
      /\ op = "update" => new \in RecordDoc
      /\ op = "publish" => new = "request" /\ drop = FALSE
      /\ op \notin {"save", "update", "publish"} => new = "none" /\ drop = FALSE
  BY <1>1, <1>2 DEF NewIn, OfWhom, StateOf, Request
<1>4. Doing' = A(op, of, new, drop, {}, "open")
  <2> HIDE DEF of
  <2> QED
    BY <1>1, <1>2, <1>3, TaskIs, Zenon DEF TaskOf
<1>6. Store!Begin(op, of, new, drop)
  <2> HIDE DEF of
  <2> QED
    BY <1>1, <1>4 DEF Store!Begin, A, Request
<1>7. op \in {"save", "update", "publish", "consume", "discard", "delete", "clean"}
  BY DEF Operation
<1>8. Store!Calls
  BY <1>3, <1>6, <1>7 DEF Store!Calls, Store!Decoded, RecordDoc
<1> QED
  BY <1>8 DEF Store!Next

LEMMA StoreEnds ==
    ASSUME StoreInv, FilesTypeOK', Returns \/ PowerFailure \/ GivesUp \/ GivesUpWriting
    PROVE  Store!Next
<1>0. Doing' = Store!NoTask /\ call.did \subseteq PublicName /\ call \in Call /\ call.s \in Session
  BY TaskIs, NoCallFields
     DEF Returns, PowerFailure, GivesUp, GivesUpWriting, StoreInv, FilesTypeOK, Call
<1>1. ASSUME Returns PROVE Store!Next
  <2>1. /\ Doing.state = "complete" /\ Doing.did = call.did
        /\ Doing.op = call.op /\ Doing.of = OfWhom(call)
    BY <1>1, TaskIs DEF Returns, StateOf
  <2>2. reported' = [n \in Store!Name |-> IF n \in Doing.did
                                          THEN [m \in PublicName |-> visible[m].doc][n]
                                          ELSE reported[n]]
    BY <1>1, <2>1, StoreNames DEF Returns
  <2>3. Store!HandOut
    <3>1. CASE delivered' = delivered
      BY <3>1 DEF Store!HandOut
    <3>2. CASE delivered' # delivered
      <4>1. call.op = "consume" /\ call.doc = "request" /\ delivered' = delivered \cup {call.s}
        BY <1>1, <3>2 DEF Returns
      <4>2. call.s \in Doing.of \ delivered
        BY <2>1, <4>1 DEF OfWhom, StoreInv, DoneInv
      <4> QED
        BY <2>1, <4>1, <4>2 DEF Store!HandOut
    <3> QED
      BY <3>1, <3>2
  <2>4. /\ [m \in PublicName |-> visible[m].doc]' = [m \in PublicName |-> visible[m].doc]
        /\ [m \in PublicName |-> durable[m].doc]' = [m \in PublicName |-> durable[m].doc]
    BY <1>1 DEF Returns
  <2> QED
    BY <1>0, <2>1, <2>2, <2>3, <2>4 DEF Store!Report, Store!Next
<1>2. ASSUME PowerFailure PROVE Store!Next
  <2>1. \A n \in PublicName : visible'[n].doc = durable[n].doc /\ durable' = visible'
    BY <1>2, NameSets DEF PowerFailure, StoreInv, WholeInv, WholeFile, Whole
  <2>2. /\ [m \in PublicName |-> visible[m].doc]' = [m \in PublicName |-> durable[m].doc]
        /\ [m \in PublicName |-> durable[m].doc]' = [m \in PublicName |-> durable[m].doc]
    BY <2>1
  <2> QED
    BY <1>0, <1>2, <2>2 DEF PowerFailure, Store!PowerFailure, Store!Next
<1>3. ASSUME GivesUp \/ GivesUpWriting PROVE Store!Next
  <2>1. /\ \A n \in PublicName : visible'[n] = visible[n] /\ durable' = durable
        /\ reported' = reported /\ delivered' = delivered
    <3>1. CASE GivesUp
      BY <3>1 DEF GivesUp, NothingChanges
    <3>2. CASE GivesUpWriting
      <4>1. Temporary \notin PublicName
        BY WriteNames DEF StoreInv, FilesTypeOK
      <4>2. reported' = reported
        BY <3>2, <4>1 DEF GivesUpWriting, Change, StoreInv, FilesTypeOK
      <4> QED
        BY <3>2, <4>1, <4>2, NameSets DEF GivesUpWriting, Change
    <3> QED
      BY <1>3, <3>1, <3>2
  <2>2. /\ [m \in PublicName |-> visible[m].doc]' = [m \in PublicName |-> visible[m].doc]
        /\ [m \in PublicName |-> durable[m].doc]' = [m \in PublicName |-> durable[m].doc]
    BY <2>1
  <2> QED
    BY <1>0, <2>1, <2>2 DEF Store!Fail, Store!Next
<1> QED
  BY <1>1, <1>2, <1>3

\* A call that goes on with the operation and has changed no document.
LEMMA CallGoesOn ==
    ASSUME FilesTypeOK, CallInv,
           \/ \E kind \in {"record", "request"} : Sweep(kind) \/ SweepSync(kind) \/ SweepDone(kind)
           \/ StartWrite \/ StartUpdate \/ WriteTemporary \/ Flush \/ RenameSync
           \/ TakeClaim \/ ClaimSync
           \/ StartDiscard \/ StartDelete \/ StartClean \/ VisitedAll
           \/ \E s \in Session : Visit(s)
           \/ DropNothing \/ DropSync \/ RemoveSync
    PROVE  Quiet /\ Working /\ call'.did = call.did
<1>0. call \in Call
  BY DEF FilesTypeOK
<1>1. Quiet
  BY QuietCalls DEF QuietCall
<1>2. CASE \E pc : call.pc \notin {"idle", "done"} /\ pc # "idle" /\ GoesTo(pc)
  <2>1. PICK pc : call.pc \notin {"idle", "done"} /\ pc # "idle" /\ GoesTo(pc)
    BY <1>2
  <2> QED
    BY <1>0, <1>1, <2>1 DEF Working, Call, GoesTo
<1>3. CASE \/ \E kind \in {"record", "request"} : Sweep(kind) \/ SweepSync(kind) \/ SweepDone(kind)
           \/ StartWrite \/ StartUpdate \/ WriteTemporary \/ Flush \/ RenameSync
           \/ ClaimSync \/ StartDiscard \/ StartDelete \/ VisitedAll
           \/ DropNothing \/ DropSync \/ RemoveSync
  <2>1. CASE \E kind \in {"record", "request"} : Sweep(kind) \/ SweepSync(kind) \/ SweepDone(kind)
    BY <1>2, <2>1 DEF Sweep, SweepSync, SweepDone
  <2>2. CASE StartWrite \/ StartUpdate \/ WriteTemporary \/ Flush \/ RenameSync
    BY <1>2, <2>2 DEF StartWrite, StartUpdate, WriteTemporary, Flush, RenameSync
  <2>3. CASE ClaimSync \/ StartDiscard \/ StartDelete \/ VisitedAll \/ RemoveSync
    BY <1>2, <2>3 DEF ClaimSync, StartDiscard, StartDelete, VisitedAll, RemoveSync
  <2>4. CASE DropNothing \/ DropSync
    <3>1. AfterDrop # "idle"
      BY <1>0 DEF AfterDrop
    <3> QED
      BY <1>2, <2>4, <3>1 DEF DropNothing, DropSync
  <2> QED
    BY <1>3, <2>1, <2>2, <2>3, <2>4
<1>4. CASE TakeClaim
  BY <1>0, <1>1, <1>4 DEF TakeClaim, CallInv, Working, Call
<1>5. CASE StartClean
  BY <1>0, <1>1, <1>5 DEF StartClean, Working, Call
<1>6. CASE \E s \in Session : Visit(s)
  BY <1>0, <1>1, <1>6 DEF Visit, CallInv, Working, Call
<1> QED
  BY <1>3, <1>4, <1>5, <1>6

LEMMA StoreTolerates ==
    ASSUME FilesTypeOK, DropFails
    PROVE  Store!Next
<1>0. call \in Call /\ call.s \in Session
  BY DEF FilesTypeOK, Call
<1>1. /\ Working /\ call.op = "clean" /\ call'.pc # "done"
      /\ call'.did = call.did \ {RequestOf(call.s)}
  BY <1>0 DEF DropFails, Working, Call
<1>2. Quiet
  BY QuietCalls DEF QuietCall
<1>3. Doing.op = "clean" /\ Doing.of = Session /\ Doing.state = "open"
  BY <1>1, TaskIs DEF Working, OfWhom, StateOf
<1>4. Doing' = Dropping(Doing, Store!Request(call.s))
  <2>1. StateOf(call') = "open"
    BY <1>1 DEF StateOf
  <2>2. Doing' = A(call.op, OfWhom(call), NewIn(call), call.drop,
                  call.did \ {RequestOf(call.s)}, "open")
    BY <1>1, <2>1, TaskGoesOn
  <2>3. Dropping(Doing, RequestOf(call.s))
           = A(call.op, OfWhom(call), NewIn(call), call.drop,
               call.did \ {RequestOf(call.s)}, "open")
    BY <1>1, TaskGoesOn, TaskDropping
  <2> QED
    BY <1>0, <2>2, <2>3, StoreNames
<1>5. [m \in PublicName |-> durable[m].doc]' = [m \in PublicName |-> durable[m].doc]
  BY DEF DropFails, NothingChanges
<1>6. Store!Tolerate(call.s)
  BY <1>2, <1>3, <1>4, <1>5, QuietKeeps DEF Store!Tolerate, Dropping
<1> QED
  BY <1>0, <1>3, <1>6 DEF Store!Next, Store!Works

LEMMA StoreStep ==
    ASSUME StoreInv, OnceInv, [FilesNext]_filesVars
    PROVE  [Store!Next]_Store!vars
<1>0. /\ FilesTypeOK /\ CallInv /\ WholeInv /\ AckInv /\ OrderInv /\ DoneInv
      /\ FilesTypeOK' /\ AckInv' /\ OrderInv' /\ DoneInv'
  BY FilesTyped, AckInvStep, OrderStep, DoneStep DEF StoreInv
<1>1. ASSUME \/ \E kind \in {"record", "request"} :
                   Sweep(kind) \/ SweepSync(kind) \/ SweepDone(kind)
             \/ StartWrite \/ StartUpdate \/ WriteTemporary \/ Flush \/ RenameSync
             \/ TakeClaim \/ ClaimSync
             \/ StartDiscard \/ StartDelete \/ StartClean \/ VisitedAll
             \/ \E s \in Session : Visit(s)
             \/ DropNothing \/ DropSync \/ RemoveSync
      PROVE  Store!Next
  BY <1>0, <1>1, CallGoesOn, QuietWorks
<1>2. ASSUME NEW op \in Operation, NEW s \in Session, NEW doc \in Doc,
             NEW drop \in BOOLEAN, Request(op, s, doc, drop) PROVE Store!Next
  BY <1>2, StoreCalls
<1>3. RenameTemporary \/ StartConsume \/ Drop \/ RemoveRecord => Store!Next
  BY <1>0, StoreChanges
<1>4. Returns \/ PowerFailure \/ GivesUp \/ GivesUpWriting => Store!Next
  BY <1>0, StoreEnds
<1>5. DropFails => Store!Next
  BY <1>0, StoreTolerates
<1>6. ASSUME (\E n \in Name : WriteBack(n)) \/ UNCHANGED filesVars PROVE Store!Next
  <2>1. Quiet
    BY <1>0, <1>6, QuietCalls DEF QuietCall
  <2>2. call' = call
    BY <1>6 DEF WriteBack, filesVars
  <2>3. Doing' = Doing
    BY <2>2 DEF Doing
  <2> QED
    BY <2>1, <2>3, QuietPersists DEF Store!Next
<1>7. Store!Next
  BY <1>1, <1>2, <1>3, <1>4, <1>5, <1>6, FilesCases
<1> QED
  BY <1>7

LEMMA StoreInit == FilesInit => Store!Init
<1> SUFFICES ASSUME FilesInit PROVE Store!Init
  OBVIOUS
<1>1. Doing = Store!NoTask
  BY TaskIs, NoCallFields DEF FilesInit
<1>2. \A n \in PublicName : visible[n].doc \in {"garbled", "none"}
  BY NameSets DEF FilesInit, Whole, Missing
<1>3. \A s \in Session : RequestOf(s) \in PublicName /\ visible[RequestOf(s)].doc = "none"
  <2>1. \A s \in Session : RequestOf(s) \in PublicName /\ RequestOf(s) \in Name
                           /\ RequestOf(s)[1] # "record"
    BY DEF RequestOf, PublicName, Name, RequestKind
  <2> QED
    BY <2>1, MissingFacts DEF FilesInit, IsThere
<1>4. reported = [n \in PublicName |-> visible[n].doc] /\ durable = visible /\ delivered = {}
  BY DEF FilesInit
<1> QED
  BY <1>1, <1>2, <1>3, <1>4, StoreNames DEF Store!Init

\* The calls of the session store, with a crash between any two, implement the
\* store in which documents change one at a time and at once.
THEOREM StoreImplemented == FilesSpec => ImplementsStore
<1>1. FilesInit => OrderInv /\ DoneInv
  BY OrderInit, DoneInit
<1>2. FilesInv /\ OrderInv /\ DoneInv /\ [FilesNext]_filesVars => OrderInv' /\ DoneInv'
  BY OrderStep, DoneStep DEF FilesInv
<1>3. FilesSpec => [](OrderInv /\ DoneInv)
  BY <1>1, <1>2, FilesInvariant, PTL DEF FilesSpec
<1>4. FilesInv /\ OrderInv /\ DoneInv /\ [FilesNext]_filesVars => [Store!Next]_Store!vars
  BY StoreStep DEF FilesInv, StoreInv
<1> QED
  BY <1>3, <1>4, StoreInit, FilesInvariant, PTL DEF FilesSpec, ImplementsStore, Store!Spec
=============================================================================
