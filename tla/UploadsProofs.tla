--------------------------- MODULE UploadsProofs ---------------------------
(***************************************************************************)
(* Uploads, for any number of files, runs, parts and faults: what a        *)
(* finished object is made of, that no record is left looking active, and  *)
(* that "done" is shown of a finished file only.                           *)
(*                                                                         *)
(* WholeObjects rests on counting: a subset of the parts that has as many  *)
(* as the file is all of them.  The other two need to know which run a     *)
(* record is worked on by.                                                 *)
(***************************************************************************)
EXTENDS Uploads, FiniteSetTheorems, TLAPS

-----------------------------------------------------------------------------
(* The types.                                                              *)

LEMMA NatConstants ==
  TotalParts \in Nat \ {0} /\ MaxConcurrent \in Nat \ {0} /\ MaxRetries \in Nat \ {0}
  /\ Presses \in Nat \ {0} /\ MaxFaults \in Nat
BY PartsAssumption, FaultAssumption

RunRow ==
  [step : {"idle", "initiate", "initiated", "resume", "resumed", "upload", "complete", "completed", "refused"},
   file : FileId \cup {NoFile}, parts : SUBSET Part, todo : SUBSET Part, sent : SUBSET Part,
   arrived : SUBSET Part, tries : [Part -> 0..MaxRetries - 1], failed : BOOLEAN]

RecordRow ==
  [file : FileId \cup {NoFile}, done : SUBSET Part,
   status : {"none", "uploading", "completing", "done", "error", "incomplete"}]

\* The answers a part gets keep the run's type, and where it is.
LEMMA PartType ==
  ASSUME runs \in [Run -> RunRow], NEW r \in Run, NEW p \in Part, PartFails(r, p)
  PROVE  /\ runs' \in [Run -> RunRow]
         /\ \A q \in Run : runs'[q].step = runs[q].step /\ runs'[q].file = runs[q].file
<1>1. runs[r] \in RunRow
  OBVIOUS
<1>2. CASE TryAgain(runs[r].tries[p])
  <2> DEFINE new == [runs[r] EXCEPT !.tries[p] = @ + 1, !.arrived = @ \ {p}]
  <2>1. runs' = [runs EXCEPT ![r] = new]
    BY <1>2 DEF PartFails
  <2>2. runs[r].tries[p] + 1 \in 0..MaxRetries - 1
    BY <1>1, <1>2, NatConstants DEF RunRow, TryAgain
  <2>3. new \in RunRow /\ new.step = runs[r].step /\ new.file = runs[r].file
    BY <1>1, <2>2 DEF RunRow
  <2> QED BY <2>1, <2>3
<1>3. CASE ~TryAgain(runs[r].tries[p])
  <2> DEFINE new == [runs[r] EXCEPT !.sent = @ \ {p}, !.arrived = @ \ {p}, !.tries[p] = 0, !.failed = TRUE]
  <2>1. runs' = [runs EXCEPT ![r] = new]
    BY <1>3 DEF PartFails
  <2>2. 0 \in 0..MaxRetries - 1
    BY NatConstants
  <2>3. new \in RunRow /\ new.step = runs[r].step /\ new.file = runs[r].file
    BY <1>1, <2>2 DEF RunRow
  <2> QED BY <2>1, <2>3
<1> QED BY <1>2, <1>3

LEMMA IdleType == Idle \in RunRow /\ NoRecord \in RecordRow
BY NatConstants DEF Idle, NoRecord, RunRow, RecordRow

LEMMA TypeInit == Init => TypeOK
BY IdleType, NatConstants DEF Init, TypeOK, RunRow, RecordRow

\* A patch keeps the record's type.
LEMMA PatchType ==
  ASSUME record \in RecordRow, NEW s \in {"completing", "done", "error", "incomplete", "uploading", "none"}, PatchStatus(s)
  PROVE  record' \in RecordRow
BY DEF PatchStatus, RecordRow

\* A run past its first answer, and a record, have a file.
Known ==
  /\ \A r \in Run : runs[r].step \notin {"idle", "initiate"} => runs[r].file \in FileId
  /\ record # NoRecord => record.status # "none" /\ record.file \in FileId

LEMMA TypeStep == ASSUME TypeOK, Known, [Next]_vars PROVE TypeOK'
<1> USE NatConstants, IdleType
<1>0. runs \in [Run -> RunRow] /\ record \in RecordRow
  BY DEF TypeOK, RunRow, RecordRow
<1> DEFINE Server == /\ row' \in [FileId -> {"none", "pending", "complete", "binned", "removed", "destroyed"}]
                     /\ landed' \in [FileId -> SUBSET Part] /\ object' \in [FileId -> SUBSET Part]
           Rest == timers' \in Nat /\ discarding' \in [FileId -> 0..Presses] /\ faults' \in 0..MaxFaults
<1>1. SUFFICES Server /\ runs' \in [Run -> RunRow] /\ record' \in RecordRow /\ Rest
  BY DEF TypeOK, RunRow, RecordRow
<1>s. UNCHANGED server => Server
  BY DEF server, TypeOK
<1>k. UNCHANGED <<timers, discarding, faults>> => Rest
  BY DEF TypeOK
<1>l. \A f \in FileId : Listed(f) \in SUBSET Part
  BY DEF Listed, TypeOK
<1>f. \A call : Faulty(call) => faults' \in 0..MaxFaults
  BY DEF Faulty, TypeOK
<1>2. ASSUME NEW r \in Run, StartUpload(r) PROVE Server /\ runs' \in [Run -> RunRow] /\ record' \in RecordRow /\ Rest
  <2> DEFINE new == [runs[r] EXCEPT !.step = IF Resumable THEN "resume" ELSE "initiate", !.file = IF Resumable THEN record.file ELSE NoFile]
  <2>1. runs' = [runs EXCEPT ![r] = new]
    BY <1>2 DEF StartUpload
  <2>2. new \in RunRow
    BY ZenonT(30), <1>0 DEF RunRow, RecordRow
  <2>3. runs' \in [Run -> RunRow]
    <3> HIDE DEF new
    <3> QED BY <1>0, <2>1, <2>2
  <2> QED BY <1>0, <1>2, <1>s, <1>k, <2>3 DEF StartUpload
<1>3. ASSUME NEW r \in Run, HandleInitiate(r) PROVE Server /\ runs' \in [Run -> RunRow] /\ record' \in RecordRow /\ Rest
  <2>1. CASE NameTaken
    BY SMTT(30), <1>0, <1>3, <2>1, <1>k DEF HandleInitiate, End, TypeOK
  <2>2. CASE ~NameTaken
    <3>1. PICK f \in FileId : /\ row' = [row EXCEPT ![f] = "pending"]
                              /\ runs' = [runs EXCEPT ![r].step = "initiated", ![r].file = f]
      BY <1>3, <2>2 DEF HandleInitiate
    <3> DEFINE new == [runs[r] EXCEPT !.step = "initiated", !.file = f]
    <3>2. runs' = [runs EXCEPT ![r] = new]
      BY <3>1
    <3>3. new \in RunRow
      BY <1>0 DEF RunRow
    <3>4. runs' \in [Run -> RunRow]
      <4> HIDE DEF new
      <4> QED BY <1>0, <3>2, <3>3
    <3>5. Server
      BY <1>3, <3>1 DEF HandleInitiate, TypeOK
    <3> QED BY <1>0, <1>3, <1>k, <3>4, <3>5 DEF HandleInitiate
  <2> QED BY <2>1, <2>2
<1>4. ASSUME NEW r \in Run, HandleResume(r) PROVE Server /\ runs' \in [Run -> RunRow] /\ record' \in RecordRow /\ Rest
  <2>1. CASE row[runs[r].file] = "pending"
    <3> DEFINE new == [runs[r] EXCEPT !.step = "resumed", !.parts = Listed(runs[r].file)]
    <3>1. runs' = [runs EXCEPT ![r] = new]
      BY <1>4, <2>1 DEF HandleResume
    <3>2. runs[r].file \in FileId
      BY <1>4 DEF Known, HandleResume, At
    <3>3. Listed(runs[r].file) \in SUBSET Part
      BY <1>l, <3>2
    <3>4. new \in RunRow
      BY <1>0, <3>3 DEF RunRow
    <3>5. runs' \in [Run -> RunRow]
      <4> HIDE DEF new
      <4> QED BY <1>0, <3>1, <3>4
    <3> QED BY <1>0, <1>4, <1>s, <1>k, <3>5 DEF HandleResume
  <2>2. CASE row[runs[r].file] # "pending"
    BY <1>0, <1>4, <2>2, <1>s, <1>k DEF HandleResume, End
  <2> QED BY <2>1, <2>2
<1>5. ASSUME NEW r \in Run, HandleComplete(r) PROVE Server /\ runs' \in [Run -> RunRow] /\ record' \in RecordRow /\ Rest
  <2> DEFINE f == runs[r].file
             parts == IF runs[r].parts = {} THEN Listed(f) ELSE runs[r].parts
  <2>0. f \in FileId
    BY <1>5 DEF Known, HandleComplete, At
  <2>1. parts \in SUBSET Part
    BY <1>0, <1>l, <2>0 DEF RunRow
  <2>2. Server
    <3>1. CASE row[f] = "pending" /\ Enough(parts) /\ parts \subseteq landed[f]
      <4>1. /\ row' = [row EXCEPT ![f] = "complete"] /\ object' = [object EXCEPT ![f] = parts]
            /\ landed' = [landed EXCEPT ![f] = {}]
        BY <1>5, <3>1 DEF HandleComplete
      <4> HIDE DEF f, parts
      <4> QED BY <2>0, <2>1, <4>1 DEF TypeOK
    <3>2. CASE ~(row[f] = "pending" /\ Enough(parts) /\ parts \subseteq landed[f])
      BY <1>5, <1>s, <3>2 DEF HandleComplete
    <3> QED BY <3>1, <3>2
  <2>3. PICK s \in {"completed", "refused"} : runs' = [runs EXCEPT ![r].step = s]
    BY <1>5 DEF HandleComplete, Go
  <2>4. [runs[r] EXCEPT !.step = s] \in RunRow
    BY <1>0 DEF RunRow
  <2>5. runs' \in [Run -> RunRow]
    BY <1>0, <2>3, <2>4
  <2> QED BY <1>0, <1>5, <1>k, <2>2, <2>5 DEF HandleComplete
<1>d. ASSUME NEW f \in FileId, DeleteFile(f) PROVE Server
  <2>1. PICK s \in {"removed", "binned", "destroyed", row[f]} : row' = [row EXCEPT ![f] = s]
    BY <1>d DEF DeleteFile
  <2>2. PICK o \in {{}, object[f]} : object' = [object EXCEPT ![f] = o]
    BY <1>d DEF DeleteFile
  <2>3. landed' = [landed EXCEPT ![f] = {}]
    BY <1>d DEF DeleteFile
  <2> QED BY <2>1, <2>2, <2>3 DEF TypeOK
<1>6. ASSUME NEW f \in FileId, DeleteFromDrive(f) \/ RestoreFromBin(f)
      PROVE Server /\ runs' \in [Run -> RunRow] /\ record' \in RecordRow /\ Rest
  <2>1. CASE DeleteFromDrive(f)
    BY <1>0, <2>1, <1>d, <1>k DEF DeleteFromDrive
  <2>2. CASE RestoreFromBin(f)
    BY <1>0, <2>2, <1>k DEF RestoreFromBin, TypeOK
  <2> QED BY <1>6, <2>1, <2>2
<1>7. ASSUME NEW r \in Run, NEW p \in Part, TakePart(r, p) PROVE Server /\ runs' \in [Run -> RunRow] /\ record' \in RecordRow /\ Rest
  <2> DEFINE new == [runs[r] EXCEPT !.arrived = @ \cup {p}]
  <2>1. runs' = [runs EXCEPT ![r] = new]
    BY <1>7 DEF TakePart
  <2>2. new \in RunRow
    BY <1>0 DEF RunRow
  <2>3. runs' \in [Run -> RunRow]
    <3> HIDE DEF new
    <3> QED BY <1>0, <2>1, <2>2
  <2>4. Server
    <3>1. landed' = [landed EXCEPT ![runs[r].file] = @ \cup {p}] /\ UNCHANGED <<row, object>>
      BY <1>7 DEF TakePart
    <3>2. landed \in [FileId -> SUBSET Part]
      BY DEF TypeOK
    <3>3. landed' \in [FileId -> SUBSET Part]
      BY <3>1, <3>2
    <3> QED BY <3>1, <3>3 DEF TypeOK
  <2> QED BY <1>0, <1>7, <1>k, <2>3, <2>4 DEF TakePart
<1>8. ASSUME NEW r \in Run, ReceiveInitiate(r) PROVE Server /\ runs' \in [Run -> RunRow] /\ record' \in RecordRow /\ Rest
  <2> DEFINE new == [runs[r] EXCEPT !.step = "upload", !.todo = Part]
  <2>1. runs' = [runs EXCEPT ![r] = new]
    BY <1>8 DEF ReceiveInitiate
  <2>2. new \in RunRow
    BY <1>0 DEF RunRow
  <2>3. runs' \in [Run -> RunRow]
    <3> HIDE DEF new
    <3> QED BY <1>0, <2>1, <2>2
  <2>4. record' \in RecordRow
    BY <1>0, <1>8 DEF ReceiveInitiate, Upsert, RunRow, RecordRow
  <2> QED BY <1>8, <1>s, <1>k, <2>3, <2>4 DEF ReceiveInitiate
<1>9. ASSUME NEW r \in Run, ReceiveResume(r) PROVE Server /\ runs' \in [Run -> RunRow] /\ record' \in RecordRow /\ Rest
  <2> DEFINE new == [runs[r] EXCEPT !.step = "upload", !.todo = Part \ runs[r].parts]
  <2>1. runs' = [runs EXCEPT ![r] = new]
    BY <1>9 DEF ReceiveResume
  <2>2. new \in RunRow
    BY <1>0 DEF RunRow
  <2>3. runs' \in [Run -> RunRow]
    <3> HIDE DEF new
    <3> QED BY <1>0, <2>1, <2>2
  <2>4. record' \in RecordRow
    BY <1>0, <1>9 DEF ReceiveResume, Upsert, RunRow, RecordRow
  <2> QED BY <1>9, <1>s, <1>k, <2>3, <2>4 DEF ReceiveResume
<1>10. ASSUME NEW r \in Run, SendPart(r) PROVE Server /\ runs' \in [Run -> RunRow] /\ record' \in RecordRow /\ Rest
  <2>1. PICK p \in runs[r].todo : runs' = [runs EXCEPT ![r].todo = @ \ {p}, ![r].sent = @ \cup {p}]
    BY <1>10 DEF SendPart
  <2> DEFINE new == [runs[r] EXCEPT !.todo = @ \ {p}, !.sent = @ \cup {p}]
  <2>2. runs' = [runs EXCEPT ![r] = new]
    BY <2>1
  <2>3. new \in RunRow
    BY ZenonT(30), <1>0 DEF RunRow
  <2>4. runs' \in [Run -> RunRow]
    <3> HIDE DEF new
    <3> QED BY <1>0, <2>2, <2>3
  <2> QED BY <1>0, <1>10, <1>s, <1>k, <2>4 DEF SendPart
<1>11. ASSUME NEW r \in Run, NEW p \in Part, PartDone(r, p) PROVE Server /\ runs' \in [Run -> RunRow] /\ record' \in RecordRow /\ Rest
  <2> DEFINE new == [runs[r] EXCEPT !.sent = @ \ {p}, !.arrived = @ \ {p}, !.tries[p] = 0]
  <2>1. runs' = [runs EXCEPT ![r] = new]
    BY <1>11 DEF PartDone
  <2>2. new \in RunRow
    <3>1. 0 \in 0..MaxRetries - 1 /\ runs[r] \in RunRow
      BY <1>0
    <3> QED BY <3>1 DEF RunRow
  <2>3. runs' \in [Run -> RunRow]
    <3> HIDE DEF new
    <3> QED BY <1>0, <2>1, <2>2
  <2>4. record' \in RecordRow
    BY <1>0, <1>11 DEF PartDone, MergePart, RecordRow
  <2> QED BY <1>11, <1>s, <1>k, <2>3, <2>4 DEF PartDone
<1>12. ASSUME NEW r \in Run, NEW p \in Part, PartRefused(r, p) \/ LosePart(r, p) PROVE Server /\ runs' \in [Run -> RunRow] /\ record' \in RecordRow /\ Rest
  <2>1. PartFails(r, p)
    BY <1>12 DEF PartRefused, LosePart
  <2>2. runs' \in [Run -> RunRow]
    BY <1>0, <2>1, PartType
  <2>3. UNCHANGED <<server, record, timers, discarding>>
    BY <2>1 DEF PartFails
  <2>4. faults' \in 0..MaxFaults
    BY <1>12, <1>f DEF PartRefused, LosePart, TypeOK
  <2> QED BY <1>0, <1>s, <2>2, <2>3, <2>4 DEF TypeOK
<1>13. ASSUME NEW r \in Run, GiveUp(r) PROVE Server /\ runs' \in [Run -> RunRow] /\ record' \in RecordRow /\ Rest
  BY <1>0, <1>13, <1>s, <1>k, PatchType DEF GiveUp, End
<1>14. ASSUME NEW r \in Run, Finalize(r) PROVE Server /\ runs' \in [Run -> RunRow] /\ record' \in RecordRow /\ Rest
  <2>1. CASE record = NoRecord
    BY <1>0, <1>14, <1>s, <1>k, <2>1, PatchType DEF Finalize, End
  <2>2. CASE record # NoRecord
    <3> DEFINE new == [runs[r] EXCEPT !.step = "complete", !.parts = record.done]
    <3>1. runs' = [runs EXCEPT ![r] = new]
      BY <1>14, <2>2 DEF Finalize
    <3>2. new \in RunRow
      BY <1>0 DEF RunRow, RecordRow
    <3>3. runs' \in [Run -> RunRow]
      <4> HIDE DEF new
      <4> QED BY <1>0, <3>1, <3>2
    <3> QED BY <1>0, <1>14, <1>s, <1>k, <3>3, PatchType DEF Finalize
  <2> QED BY <2>1, <2>2
<1>15. ASSUME NEW r \in Run, ReceiveComplete(r) PROVE Server /\ runs' \in [Run -> RunRow] /\ record' \in RecordRow /\ Rest
  BY <1>0, <1>15, <1>s, PatchType DEF ReceiveComplete, End, TypeOK
<1>16. ASSUME NEW r \in Run, LoseCall(r) PROVE Server /\ runs' \in [Run -> RunRow] /\ record' \in RecordRow /\ Rest
  BY <1>0, <1>16, <1>s, <1>f, PatchType DEF LoseCall, End, TypeOK
<1>17. CASE RemoveFinished
  BY <1>0, <1>17, <1>s DEF RemoveFinished, Remove, TypeOK
<1>18. CASE Discard
  <2>1. record.file \in FileId
    BY <1>18 DEF Known, Discard, Resumable, NoRecord
  <2>2. discarding[record.file] + 1 \in 0..Presses
    BY <1>18, <2>1 DEF Discard, TypeOK
  <2>3. Rest
    BY <1>18, <2>1, <2>2 DEF Discard, TypeOK
  <2> QED BY <1>0, <1>18, <1>s, <2>3 DEF Discard
<1>19. ASSUME NEW f \in FileId, HandleDiscard(f)
       PROVE Server /\ runs' \in [Run -> RunRow] /\ record' \in RecordRow /\ Rest
  <2>1. Server
    BY <1>19, <1>s, <1>d DEF HandleDiscard
  <2>2. discarding[f] - 1 \in 0..Presses
    BY <1>19 DEF HandleDiscard, TypeOK
  <2>3. faults' \in 0..MaxFaults
    BY <1>19, <1>f DEF HandleDiscard, TypeOK
  <2>4. Rest
    BY <1>19, <2>2, <2>3 DEF HandleDiscard, TypeOK
  <2> QED BY <1>0, <1>19, <2>1, <2>4 DEF HandleDiscard, Remove
<1>20. CASE Reload
  <2>1. OnLoad(record.status) \in {"completing", "done", "error", "incomplete", "uploading", "none"}
    BY <1>0 DEF OnLoad, RecordRow
  <2>2. record' \in RecordRow
    BY <1>0, <1>20, <2>1, PatchType DEF Reload
  <2> QED BY <1>0, <1>20, <1>s, <1>f, <2>2 DEF Reload, TypeOK
<1>21. CASE UNCHANGED vars
  BY <1>0, <1>21 DEF vars, TypeOK
<1> QED BY <1>2, <1>3, <1>4, <1>5, <1>6, <1>7, <1>8, <1>9, <1>10, <1>11, <1>12, <1>13, <1>14, <1>15, <1>16, <1>17, <1>18, <1>19, <1>20, <1>21 DEF Next, Serve, Continue

-----------------------------------------------------------------------------
(* Every record that looks active is worked on.                            *)

Working == {"upload", "complete", "completed", "refused"}

Attended == record.status \in {"uploading", "completing"} => \E r \in Run : runs[r].step \in Working

\* The other runs stay where they are, and run r goes to step s with file f.
Goes(r, s, f) ==
  /\ \A q \in Run \ {r} : runs'[q].step = runs[q].step /\ runs'[q].file = runs[q].file
  /\ runs'[r].step = s /\ runs'[r].file = f

LEMMA Moves ==
  ASSUME TypeOK, NEW r \in Run
  PROVE  /\ StartUpload(r) => IF Resumable THEN Goes(r, "resume", record.file) ELSE Goes(r, "initiate", NoFile)
         /\ \A s : Go(r, s) => Goes(r, s, runs[r].file)
         /\ End(r) => Goes(r, "idle", NoFile)
         /\ ReceiveInitiate(r) \/ ReceiveResume(r) => Goes(r, "upload", runs[r].file)
         /\ SendPart(r) => Goes(r, "upload", runs[r].file)
         /\ \A p \in Part : TakePart(r, p) \/ PartDone(r, p) => Goes(r, runs[r].step, runs[r].file)
         /\ Finalize(r) /\ record # NoRecord => Goes(r, "complete", runs[r].file)
<1>0. runs \in [Run -> RunRow]
  BY DEF TypeOK, RunRow
<1>1. StartUpload(r) => IF Resumable THEN Goes(r, "resume", record.file) ELSE Goes(r, "initiate", NoFile)
  BY <1>0 DEF StartUpload, Goes, RunRow
<1>2. \A s : Go(r, s) => Goes(r, s, runs[r].file)
  BY <1>0 DEF Go, Goes, RunRow
<1>3. End(r) => Goes(r, "idle", NoFile)
  BY <1>0 DEF End, Goes, RunRow, Idle
<1>4. ReceiveInitiate(r) \/ ReceiveResume(r) => Goes(r, "upload", runs[r].file)
  BY <1>0 DEF ReceiveInitiate, ReceiveResume, Goes, RunRow
<1>5. SendPart(r) => Goes(r, "upload", runs[r].file)
  BY <1>0 DEF SendPart, PartsSettled, At, Goes, RunRow
<1>6. \A p \in Part : TakePart(r, p) \/ PartDone(r, p) => Goes(r, runs[r].step, runs[r].file)
  BY <1>0 DEF TakePart, PartDone, Goes, RunRow
<1>7. Finalize(r) /\ record # NoRecord => Goes(r, "complete", runs[r].file)
  BY <1>0 DEF Finalize, Goes, RunRow
<1> QED BY <1>1, <1>2, <1>3, <1>4, <1>5, <1>6, <1>7

LEMMA PatchSets ==
  ASSUME TypeOK, NEW s, PatchStatus(s)
  PROVE  \/ record = NoRecord /\ record' = NoRecord /\ record'.status = "none"
         \/ record # NoRecord /\ record'.status = s /\ record'.file = record.file
<1>1. record \in RecordRow
  BY DEF TypeOK, RecordRow
<1>2. CASE record = NoRecord
  BY <1>2 DEF PatchStatus, NoRecord
<1>3. CASE record # NoRecord
  BY <1>1, <1>3 DEF PatchStatus, RecordRow
<1> QED BY <1>2, <1>3

LEMMA AttendedStep == ASSUME TypeOK, Known, Attended, [Next]_vars PROVE Known' /\ Attended'
<1> USE DEF Known, Attended, Working, Goes
<1>0. runs \in [Run -> RunRow] /\ record \in RecordRow
  BY DEF TypeOK, RunRow, RecordRow
<1>p. \A s : PatchStatus(s) =>
        \/ record = NoRecord /\ record' = NoRecord /\ record'.status = "none"
        \/ record # NoRecord /\ record'.status = s /\ record'.file = record.file
  BY PatchSets
<1>1. ASSUME NEW r \in Run, StartUpload(r) PROVE Known' /\ Attended'
  <2>1. Resumable => record.file \in FileId
    BY DEF Resumable, NoRecord
  <2>2. (Goes(r, "resume", record.file) /\ Resumable) \/ Goes(r, "initiate", NoFile)
    BY <1>1, Moves
  <2>3. runs[r].step = "idle" /\ record' = record
    BY <1>1 DEF StartUpload, At
  <2> QED BY <2>1, <2>2, <2>3
<1>2. ASSUME NEW r \in Run, HandleInitiate(r) PROVE Known' /\ Attended'
  BY SMTT(30), <1>0, <1>2, Moves DEF HandleInitiate, At, RunRow
<1>3. ASSUME NEW r \in Run, HandleResume(r) PROVE Known' /\ Attended'
  <2>1. Goes(r, "resumed", runs[r].file) \/ Goes(r, "idle", NoFile)
    BY <1>0, <1>3, Moves DEF HandleResume, RunRow
  <2> QED BY <1>3, <2>1 DEF HandleResume, At
<1>4. ASSUME NEW r \in Run, HandleComplete(r) PROVE Known' /\ Attended'
  <2>1. Goes(r, "completed", runs[r].file) \/ Goes(r, "refused", runs[r].file)
    BY <1>4, Moves DEF HandleComplete
  <2> QED BY <1>4, <2>1 DEF HandleComplete, At
<1>5. ASSUME NEW r \in Run, ReceiveInitiate(r) \/ ReceiveResume(r) PROVE Known' /\ Attended'
  <2>1. runs[r].file \in FileId
    BY <1>5 DEF ReceiveInitiate, ReceiveResume, At
  <2>2. Goes(r, "upload", runs[r].file)
    BY <1>5, Moves
  <2>3. record'.file = runs[r].file /\ record'.status = "uploading"
    BY <1>5 DEF ReceiveInitiate, ReceiveResume, Upsert
  <2> QED BY <2>1, <2>2, <2>3
<1>6. ASSUME NEW r \in Run, SendPart(r) PROVE Known' /\ Attended'
  <2>1. Goes(r, "upload", runs[r].file) /\ runs[r].step = "upload" /\ record' = record
    BY <1>6, Moves DEF SendPart, At
  <2> QED BY <2>1
<1>7. ASSUME NEW r \in Run, NEW p \in Part, TakePart(r, p) \/ PartDone(r, p) PROVE Known' /\ Attended'
  <2>1. Goes(r, runs[r].step, runs[r].file)
    BY <1>7, Moves
  <2>2. record' = record \/ (record # NoRecord /\ record'.status = record.status /\ record'.file = record.file)
    BY <1>0, <1>7 DEF TakePart, PartDone, RecordRow
  <2> QED BY <2>1, <2>2
<1>8. ASSUME NEW r \in Run, NEW p \in Part, PartRefused(r, p) \/ LosePart(r, p) PROVE Known' /\ Attended'
  BY <1>0, <1>8, PartType DEF PartRefused, LosePart, PartFails
<1>9. ASSUME NEW r \in Run, GiveUp(r) PROVE Known' /\ Attended'
  <2>1. Goes(r, "idle", NoFile)
    BY <1>9, Moves DEF GiveUp
  <2>2. (record' = record /\ runs[r].step \notin Working) \/ \E s \in {"incomplete", "done", "error"} : PatchStatus(s)
    BY <1>9 DEF GiveUp, At
  <2>3. \/ record' = record /\ runs[r].step \notin Working
        \/ /\ record'.status \notin {"uploading", "completing"}
           /\ record' # NoRecord => record # NoRecord /\ record'.file = record.file /\ record'.status # "none"
    BY <2>2, PatchSets DEF NoRecord
  <2>4. Attended'
    BY <2>1, <2>3
  <2>5. Known'
    BY <2>1, <2>3
  <2> QED BY <2>4, <2>5
<1>10. ASSUME NEW r \in Run, Finalize(r) PROVE Known' /\ Attended'
  <2>1. CASE record = NoRecord
    BY <1>10, <2>1, <1>p, Moves DEF Finalize, NoRecord
  <2>2. CASE record # NoRecord
    <3>1. Goes(r, "complete", runs[r].file) /\ runs[r].step = "upload" /\ PatchStatus("completing")
      BY <1>10, <2>2, Moves DEF Finalize, PartsSettled, At
    <3> QED BY <2>2, <3>1, <1>p
  <2> QED BY <2>1, <2>2
<1>11. ASSUME NEW r \in Run, ReceiveComplete(r) PROVE Known' /\ Attended'
  <2>1. Goes(r, "idle", NoFile)
    BY <1>11, Moves DEF ReceiveComplete
  <2>2. (record' = record /\ runs[r].step \notin Working) \/ \E s \in {"incomplete", "done", "error"} : PatchStatus(s)
    BY <1>11 DEF ReceiveComplete, At
  <2>3. \/ record' = record /\ runs[r].step \notin Working
        \/ /\ record'.status \notin {"uploading", "completing"}
           /\ record' # NoRecord => record # NoRecord /\ record'.file = record.file /\ record'.status # "none"
    BY <2>2, PatchSets DEF NoRecord
  <2>4. Attended'
    BY <2>1, <2>3
  <2>5. Known'
    BY <2>1, <2>3
  <2> QED BY <2>4, <2>5
<1>12. ASSUME NEW r \in Run, LoseCall(r) PROVE Known' /\ Attended'
  <2>1. Goes(r, "idle", NoFile)
    BY <1>12, Moves DEF LoseCall
  <2>2. (record' = record /\ runs[r].step \notin Working) \/ \E s \in {"incomplete", "done", "error"} : PatchStatus(s)
    BY <1>12 DEF LoseCall, At
  <2>3. \/ record' = record /\ runs[r].step \notin Working
        \/ /\ record'.status \notin {"uploading", "completing"}
           /\ record' # NoRecord => record # NoRecord /\ record'.file = record.file /\ record'.status # "none"
    BY <2>2, PatchSets DEF NoRecord
  <2>4. Attended'
    BY <2>1, <2>3
  <2>5. Known'
    BY <2>1, <2>3
  <2> QED BY <2>4, <2>5
<1>13. CASE RemoveFinished \/ \E f \in FileId : HandleDiscard(f)
  BY <1>13 DEF RemoveFinished, HandleDiscard, Remove, NoRecord
<1>14. CASE Reload
  <2>1. OnLoad(record.status) \notin {"uploading", "completing"}
    BY DEF OnLoad
  <2>2. record # NoRecord => OnLoad(record.status) # "none"
    BY DEF OnLoad
  <2>3. \A q \in Run : runs'[q].step = "idle"
    BY <1>14 DEF Reload, Idle
  <2> QED BY <1>14, <1>p, <2>1, <2>2, <2>3 DEF Reload, NoRecord
<1>15. CASE Discard \/ (\E f \in FileId : DeleteFromDrive(f) \/ RestoreFromBin(f)) \/ UNCHANGED vars
  BY <1>15 DEF Discard, DeleteFromDrive, RestoreFromBin, vars
<1> QED BY <1>1, <1>2, <1>3, <1>4, <1>5, <1>6, <1>7, <1>8, <1>9, <1>10, <1>11, <1>12, <1>13, <1>14, <1>15
        DEF Next, Serve, Continue

-----------------------------------------------------------------------------
(* A finished object is whole.                                             *)

\* The steps that touch a row or an object.
LEMMA ServerSteps ==
  ASSUME [Next]_vars
  PROVE  \/ \E r \in Run : HandleComplete(r) \/ HandleInitiate(r)
         \/ \E f \in FileId : DeleteFromDrive(f) \/ RestoreFromBin(f) \/ HandleDiscard(f)
         \/ UNCHANGED <<row, object>>
<1> USE DEF server
<1>1. ASSUME NEW r \in Run, StartUpload(r) \/ HandleResume(r) \/ ReceiveInitiate(r) \/ ReceiveResume(r)
      PROVE UNCHANGED <<row, object>>
  BY <1>1 DEF StartUpload, HandleResume, ReceiveInitiate, ReceiveResume
<1>2. ASSUME NEW r \in Run, SendPart(r) \/ GiveUp(r) \/ Finalize(r) \/ ReceiveComplete(r) \/ LoseCall(r)
      PROVE UNCHANGED <<row, object>>
  BY <1>2 DEF SendPart, GiveUp, Finalize, ReceiveComplete, LoseCall
<1>3. ASSUME NEW r \in Run, NEW p \in Part, TakePart(r, p) \/ PartDone(r, p) \/ PartRefused(r, p) \/ LosePart(r, p)
      PROVE UNCHANGED <<row, object>>
  BY <1>3 DEF TakePart, PartDone, PartRefused, LosePart, PartFails
<1>4. RemoveFinished \/ Discard \/ Reload \/ UNCHANGED vars => UNCHANGED <<row, object>>
  BY DEF RemoveFinished, Discard, Reload, vars
<1> QED BY <1>1, <1>2, <1>3, <1>4 DEF Next, Serve, Continue

\* As many parts as the file has are all of them.
LEMMA AllParts == ASSUME NEW S \in SUBSET Part, Enough(S) PROVE S = Part
<1>1. IsFiniteSet(Part) /\ Cardinality(Part) = TotalParts
  BY NatConstants, FS_Interval DEF Part
<1> QED BY <1>1, FS_Subset DEF Enough

LEMMA WholeStep == ASSUME TypeOK, Known, WholeObjects, [Next]_vars PROVE WholeObjects'
<1> USE DEF WholeObjects
<1>0. runs \in [Run -> RunRow]
  BY DEF TypeOK, RunRow
<1>1. ASSUME NEW r \in Run, HandleComplete(r) PROVE WholeObjects'
  <2> DEFINE f == runs[r].file
             parts == IF runs[r].parts = {} THEN Listed(f) ELSE runs[r].parts
  <2>1. CASE row[f] = "pending" /\ Enough(parts) /\ parts \subseteq landed[f]
    <3>1. f \in FileId
      BY <1>1 DEF Known, HandleComplete, At
    <3>2. landed[f] \in SUBSET Part
      BY <3>1 DEF TypeOK
    <3>3. parts = Part
      BY <2>1, <3>2, AllParts
    <3>4. row' = [row EXCEPT ![f] = "complete"] /\ object' = [object EXCEPT ![f] = parts]
      BY <1>1, <2>1 DEF HandleComplete
    <3> HIDE DEF f, parts
    <3> QED BY <3>1, <3>3, <3>4 DEF TypeOK
  <2>2. CASE ~(row[f] = "pending" /\ Enough(parts) /\ parts \subseteq landed[f])
    BY <1>1, <2>2 DEF HandleComplete, server
  <2> QED BY <2>1, <2>2
<1>2. ASSUME NEW r \in Run, HandleInitiate(r) PROVE WholeObjects'
  BY <1>2 DEF HandleInitiate, TypeOK
<1>3. ASSUME NEW f \in FileId, DeleteFile(f) PROVE WholeObjects'
  <2>1. \A g \in FileId \ {f} : row'[g] = row[g] /\ object'[g] = object[g]
    BY <1>3 DEF DeleteFile, TypeOK
  <2>2. row'[f] \in {"complete", "binned"} => row[f] = "complete" /\ object'[f] = object[f]
    BY <1>3 DEF DeleteFile, TypeOK
  <2> QED BY <2>1, <2>2
<1>4. ASSUME NEW f \in FileId, DeleteFromDrive(f) \/ RestoreFromBin(f) \/ HandleDiscard(f) PROVE WholeObjects'
  <2>1. CASE RestoreFromBin(f)
    BY <2>1 DEF RestoreFromBin, TypeOK
  <2>2. CASE HandleDiscard(f) /\ UNCHANGED server
    BY <2>2 DEF server
  <2> QED BY <1>3, <1>4, <2>1, <2>2 DEF DeleteFromDrive, HandleDiscard
<1>5. CASE UNCHANGED <<row, object>>
  BY <1>5
<1> QED BY <1>1, <1>2, <1>4, <1>5, ServerSteps

UploadInv == TypeOK /\ Known /\ Attended /\ WholeObjects

LEMMA UploadInvInit == Init => UploadInv
BY TypeInit DEF Init, UploadInv, Known, Attended, WholeObjects, NoRecord, Idle

THEOREM UploadInvariant == Spec => []UploadInv
<1>1. UploadInv /\ [Next]_vars => UploadInv'
  BY TypeStep, AttendedStep, WholeStep DEF UploadInv
<1> QED BY <1>1, UploadInvInit, PTL DEF Spec

\* Every variable keeps its type, and the retries stay within their bound.
THEOREM UploadTypes == Spec => []TypeOK
<1>1. UploadInv => TypeOK
  BY DEF UploadInv
<1> QED BY <1>1, UploadInvariant, PTL

\* A finished file has every part, whatever was lost, sent twice or listed
\* in pages, and however many runs there were (files.ts:173-184).
THEOREM ObjectsAreWhole == Spec => []WholeObjects
<1>1. UploadInv => WholeObjects
  BY DEF UploadInv
<1> QED BY <1>1, UploadInvariant, PTL

\* No record is left looking active, whenever the tab was closed.
THEOREM RecordsAreAttended == Spec => []ActiveHasRun
<1>1. UploadInv => ActiveHasRun
  BY DEF UploadInv, Attended, ActiveHasRun, Busy, At, Working
<1> QED BY <1>1, UploadInvariant, PTL

-----------------------------------------------------------------------------
(* "Done" is shown of a finished file only, as long as one run works on    *)
(* the file at a time.                                                     *)

\* The record a run works on is its own, and an answer received is true.
Truthful ==
  /\ record.status = "done" => WasFinished(record.file)
  /\ \A r \in Run : runs[r].step \in Working => record = NoRecord \/ record.file = runs[r].file
  /\ \A r \in Run : runs[r].step = "completed" => WasFinished(runs[r].file)

\* What is finished stays finished.
LEMMA FinishedStays ==
  ASSUME TypeOK, Known, [Next]_vars, NEW f \in FileId, WasFinished(f)
  PROVE  WasFinished(f)'
<1> USE DEF WasFinished
<1>1. ASSUME NEW r \in Run, HandleComplete(r) PROVE WasFinished(f)'
  BY <1>1 DEF HandleComplete, TypeOK, server
<1>2. ASSUME NEW r \in Run, HandleInitiate(r) PROVE WasFinished(f)'
  BY <1>2 DEF HandleInitiate, TypeOK
<1>3. ASSUME NEW g \in FileId, DeleteFile(g) PROVE WasFinished(f)'
  BY <1>3 DEF DeleteFile, TypeOK
<1>4. ASSUME NEW g \in FileId, DeleteFromDrive(g) \/ RestoreFromBin(g) \/ HandleDiscard(g) PROVE WasFinished(f)'
  <2>1. CASE RestoreFromBin(g)
    BY <2>1 DEF RestoreFromBin, TypeOK
  <2>2. CASE HandleDiscard(g) /\ UNCHANGED server
    BY <2>2 DEF server
  <2> QED BY <1>3, <1>4, <2>1, <2>2 DEF DeleteFromDrive, HandleDiscard
<1>5. CASE row' = row
  BY <1>5
<1> QED BY <1>1, <1>2, <1>4, <1>5, ServerSteps

LEMMA TruthfulStep ==
  ASSUME TypeOK, Known, Truthful, Calm, [Next]_vars
  PROVE  Truthful'
<1> USE DEF Goes
<1>0. runs \in [Run -> RunRow] /\ record \in RecordRow
  BY DEF TypeOK, RunRow, RecordRow
<1>p. \A s : PatchStatus(s) =>
        \/ record = NoRecord /\ record' = NoRecord /\ record'.status = "none"
        \/ record # NoRecord /\ record'.status = s /\ record'.file = record.file
  BY PatchSets
<1>o. \A r, q \in Run : runs[r].step # "idle" /\ runs[q].step # "idle" => r = q
  BY DEF Calm, Busy, At
<1>f. \A f \in FileId : WasFinished(f) => WasFinished(f)'
  BY FinishedStays
<1>g. \A r \in Run : runs[r].step \in Working => runs[r].file \in FileId
  BY DEF Known, Working
<1>h. record.status = "done" => record.file \in FileId
  BY DEF Known, NoRecord
\* A step that leaves the record, or patches another status into it, and
\* moves no run into Working.
<1>q. ASSUME record' = NoRecord \/ record' = record
               \/ (record # NoRecord /\ record'.file = record.file /\ record'.status # "done"),
             \A r \in Run : runs'[r].step \in Working =>
               /\ runs[r].step \in Working /\ runs'[r].file = runs[r].file
               /\ runs'[r].step = "completed" => runs[r].step = "completed"
      PROVE  Truthful'
  <2>1. (record.status = "done" => WasFinished(record.file))'
    BY <1>q, <1>f, <1>h DEF Truthful, NoRecord, WasFinished
  <2>2. (\A r \in Run : runs[r].step \in Working => record = NoRecord \/ record.file = runs[r].file)'
    BY <1>q DEF Truthful
  <2>3. (\A r \in Run : runs[r].step = "completed" => WasFinished(runs[r].file))'
    BY <1>q, <1>f, <1>g DEF Truthful, Working, WasFinished
  <2> QED BY <2>1, <2>2, <2>3 DEF Truthful
<1>1. ASSUME NEW r \in Run, StartUpload(r) PROVE Truthful'
  BY ZenonT(30), <1>1, <1>q, Moves DEF StartUpload, Working
<1>2. ASSUME NEW r \in Run, HandleInitiate(r) PROVE Truthful'
  BY SMTT(30), <1>0, <1>2, <1>q, Moves DEF HandleInitiate, Working, RunRow
<1>3. ASSUME NEW r \in Run, HandleResume(r) PROVE Truthful'
  BY <1>0, <1>3, <1>q, Moves DEF HandleResume, Working, RunRow
<1>4. ASSUME NEW r \in Run, HandleComplete(r) PROVE Truthful'
  <2>1. CASE Goes(r, "completed", runs[r].file) /\ row' = [row EXCEPT ![runs[r].file] = "complete"]
    <3>1. runs[r].step \in Working /\ runs[r].file \in FileId
      BY <1>4, <1>g DEF HandleComplete, At, Working
    <3>2. WasFinished(runs[r].file)'
      BY <2>1, <3>1 DEF WasFinished, TypeOK
    <3>3. record' = record
      BY <1>4 DEF HandleComplete
    <3> QED BY <2>1, <3>1, <3>2, <3>3, <1>f, <1>g, <1>h DEF Truthful, Working, WasFinished
  <2>2. CASE Goes(r, "refused", runs[r].file)
    BY <1>4, <1>q, <2>2 DEF HandleComplete, At, Working
  <2> QED BY <1>4, <2>1, <2>2, Moves DEF HandleComplete
<1>5. ASSUME NEW r \in Run, ReceiveInitiate(r) \/ ReceiveResume(r) PROVE Truthful'
  <2>1. Goes(r, "upload", runs[r].file) /\ record'.file = runs[r].file /\ record'.status = "uploading"
    BY <1>5, Moves DEF ReceiveInitiate, ReceiveResume, Upsert
  <2>2. \A q \in Run \ {r} : runs[q].step = "idle"
    BY <1>5, <1>o DEF ReceiveInitiate, ReceiveResume, At
  <2> QED BY <2>1, <2>2 DEF Truthful, Working
<1>6. ASSUME NEW r \in Run, SendPart(r) PROVE Truthful'
  <2>1. Goes(r, "upload", runs[r].file) /\ runs[r].step = "upload" /\ record' = record
    BY <1>6, Moves DEF SendPart, At
  <2> QED BY <1>q, <2>1 DEF Working
<1>7. ASSUME NEW r \in Run, NEW p \in Part, TakePart(r, p) \/ PartDone(r, p) PROVE Truthful'
  <2>1. Goes(r, runs[r].step, runs[r].file)
    BY <1>7, Moves
  <2>2. record' = record \/ (record # NoRecord /\ record'.file = record.file /\ record'.status = record.status)
    BY <1>0, <1>7 DEF TakePart, PartDone, RecordRow
  <2> QED BY <2>1, <2>2, <1>f, <1>g, <1>h DEF Truthful, WasFinished, Working
<1>8. ASSUME NEW r \in Run, NEW p \in Part, PartRefused(r, p) \/ LosePart(r, p) PROVE Truthful'
  BY <1>0, <1>8, <1>q, PartType DEF PartRefused, LosePart, PartFails
<1>9. ASSUME NEW r \in Run, GiveUp(r) PROVE Truthful'
  BY <1>9, <1>p, <1>q, Moves DEF GiveUp, Working
<1>10. ASSUME NEW r \in Run, Finalize(r) PROVE Truthful'
  BY <1>10, <1>p, <1>q, Moves DEF Finalize, PartsSettled, At, Working
<1>11. ASSUME NEW r \in Run, ReceiveComplete(r) PROVE Truthful'
  <2>1. CASE At(r, "completed") /\ PatchStatus("done")
    <3>1. Goes(r, "idle", NoFile)
      BY <1>11, Moves DEF ReceiveComplete
    <3>2. record # NoRecord => record.file = runs[r].file /\ WasFinished(record.file) /\ record.file \in FileId
      BY <2>1, <1>g DEF Truthful, At, Working, WasFinished
    <3> QED BY <2>1, <3>1, <3>2, <1>p, <1>f, <1>g DEF Truthful, Working, WasFinished
  <2>2. CASE At(r, "refused") /\ PatchStatus("error")
    BY <1>11, <2>2, <1>p, <1>q, Moves DEF ReceiveComplete, Working
  <2> QED BY <1>11, <2>1, <2>2 DEF ReceiveComplete
<1>12. ASSUME NEW r \in Run, LoseCall(r) PROVE Truthful'
  BY <1>12, <1>p, <1>q, Moves DEF LoseCall, Working
<1>13. CASE RemoveFinished \/ \E f \in FileId : HandleDiscard(f)
  BY <1>13, <1>q DEF RemoveFinished, HandleDiscard, Remove
<1>14. CASE Reload
  <2>1. \A q \in Run : runs'[q].step \notin Working
    BY <1>14 DEF Reload, Idle, Working
  <2>2. PatchStatus(OnLoad(record.status))
    BY <1>14 DEF Reload
  <2>3. OnLoad(record.status) = "done" => record.status = "done"
    BY DEF OnLoad
  <2> QED BY <1>p, <1>f, <1>h, <2>1, <2>2, <2>3 DEF Truthful, Working, WasFinished, NoRecord
<1>15. CASE Discard \/ (\E f \in FileId : DeleteFromDrive(f) \/ RestoreFromBin(f)) \/ UNCHANGED vars
  BY <1>15, <1>q DEF Discard, DeleteFromDrive, RestoreFromBin, vars
<1> QED BY <1>1, <1>2, <1>3, <1>4, <1>5, <1>6, <1>7, <1>8, <1>9, <1>10, <1>11, <1>12, <1>13, <1>14, <1>15
        DEF Next, Serve, Continue

\* "Uploaded" is shown of a finished file only (uploadManager.ts:188-192).
THEOREM DoneIsTrue == Spec => DoneIsDone
<1>1. Init => Truthful
  BY DEF Init, Truthful, NoRecord, Idle, Working
<1>2. UploadInv /\ Calm /\ Truthful /\ [Next]_vars => Truthful'
  BY TruthfulStep DEF UploadInv
<1>3. Truthful => (record.status = "done" => WasFinished(record.file))
  BY DEF Truthful
<1> QED BY <1>1, <1>2, <1>3, UploadInvariant, PTL DEF Spec, DoneIsDone
=============================================================================
