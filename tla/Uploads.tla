------------------------------ MODULE Uploads ------------------------------
(***************************************************************************)
(* Resumable uploads end to end: the browser's upload manager and store    *)
(* (frontend/src/upload), the upload routes of routes/files.ts, and the    *)
(* parts in MinIO, for one local file dropped on one folder.               *)
(*                                                                         *)
(* The browser runs startUpload; each of its API calls is a step of the    *)
(* server and, later, a step of the browser that reads the answer.  The    *)
(* PUT of a part goes straight to MinIO and is acknowledged in the same    *)
(* way.  Any call may fail, before or after it took effect.  Server        *)
(* handlers are atomic here: DriveRequests takes them apart.               *)
(*                                                                         *)
(* Every upload of the file has the same folder and name, so the unique    *)
(* index lets one live row exist, and the same key in the browser's store. *)
(***************************************************************************)
EXTENDS Naturals, FiniteSets

CONSTANTS
  FileId,        \* the UUIDs the server may draw
  Run,           \* calls of startUpload that may be in progress at once
  TotalParts,    \* parts the file is cut into
  MaxConcurrent, \* MAX_CONCURRENT_PARTS
  MaxRetries,    \* MAX_RETRIES_PER_PART
  ListLimit,     \* parts one ListParts call returns
  Presses,       \* bound on the discards of one file in progress at once
  Lossy,         \* the calls that may fail: a subset of Call
  MaxFaults,     \* bound on failed calls and reloads
  NoFile         \* no file id

Call == {"initiate", "resume", "part", "complete", "discard", "reload"}

ASSUME NoFileAssumption == NoFile \notin FileId
ASSUME PartsAssumption  == {TotalParts, MaxConcurrent, MaxRetries, ListLimit, Presses} \subseteq Nat \ {0}
ASSUME FaultAssumption  == Lossy \subseteq Call /\ MaxFaults \in Nat

VARIABLES
  row,        \* what became of each id's row in table files
  landed,     \* the parts MinIO has for each id's multipart upload
  object,     \* the parts each finished object was stitched from
  record,     \* the store's record of the file, in memory and localStorage
  runs,       \* the local variables of each startUpload
  timers,     \* pending removals of a finished record (setTimeout)
  discarding, \* the calls of discardUpload in progress, by the file they delete
  faults      \* failed calls and reloads so far

server == <<row, landed, object>>
vars   == <<row, landed, object, record, runs, timers, discarding, faults>>

Part == 1..TotalParts

NoRecord == [file |-> NoFile, done |-> {}, status |-> "none"]
Idle     == [step |-> "idle", file |-> NoFile, parts |-> {}, todo |-> {},
             sent |-> {}, arrived |-> {}, tries |-> [p \in Part |-> 0], failed |-> FALSE]

TypeOK ==
  /\ row \in [FileId -> {"none", "pending", "complete", "binned",
                         "removed",    \* never finished, and gone
                         "destroyed"}] \* finished once, and gone
  /\ landed \in [FileId -> SUBSET Part]
  /\ object \in [FileId -> SUBSET Part]
  /\ record \in [file   : FileId \cup {NoFile},
                 done   : SUBSET Part, \* completedParts
                 status : {"none", "uploading", "completing", "done", "error", "incomplete"}]
  /\ runs \in [Run -> [step    : {"idle", "initiate", "initiated", "resume", "resumed", "upload",
                                  "complete", "completed", "refused"},
                       file    : FileId \cup {NoFile},
                       parts   : SUBSET Part, \* in a request or an answer
                       todo    : SUBSET Part, \* those not begun
                       sent    : SUBSET Part, \* those whose PUT is in flight
                       arrived : SUBSET Part, \* those of them MinIO has taken
                       tries   : [Part -> 0..MaxRetries - 1],
                       failed  : BOOLEAN]]    \* firstError is set
  /\ timers \in Nat
  /\ discarding \in [FileId -> 0..Presses]
  /\ faults \in 0..MaxFaults

Init ==
  /\ row = [f \in FileId |-> "none"]
  /\ landed = [f \in FileId |-> {}] /\ object = [f \in FileId |-> {}]
  /\ record = NoRecord
  /\ runs = [r \in Run |-> Idle]
  /\ timers = 0 /\ discarding = [f \in FileId |-> 0] /\ faults = 0

-----------------------------------------------------------------------------
At(r, step) == runs[r].step = step
Go(r, step) == runs' = [runs EXCEPT ![r].step = step]
End(r)      == runs' = [runs EXCEPT ![r] = Idle]

Faulty(call) == call \in Lossy /\ faults < MaxFaults /\ faults' = faults + 1

\* uploadStore's upsert, patch (nothing to patch, nothing done) and remove.
Upsert(rec)          == record' = rec
PatchStatus(status)  == record' = IF record = NoRecord THEN record ELSE [record EXCEPT !.status = status]
Remove               == record' = NoRecord

-----------------------------------------------------------------------------
(* The server, and MinIO behind it.                                        *)

NameTaken == \E f \in FileId : row[f] \in {"pending", "complete"}

\* POST /files/uploads: 409 when the folder has a live row of that name.
HandleInitiate(r) ==
  /\ At(r, "initiate")
  /\ \/ NameTaken /\ End(r) /\ UNCHANGED row
     \/ /\ ~NameTaken
        /\ \E f \in FileId :
             /\ row[f] = "none"
             /\ row' = [row EXCEPT ![f] = "pending"]
             /\ runs' = [runs EXCEPT ![r].step = "initiated", ![r].file = f]
  /\ UNCHANGED <<landed, object, record, timers, discarding, faults>>

\* listUploadedParts: the first page of MinIO's list.
Listed(f) == {p \in landed[f] : Cardinality({q \in landed[f] : q < p}) < ListLimit}

\* GET /files/uploads/:id: 404 unless the row is live and pending.
HandleResume(r) ==
  /\ At(r, "resume")
  /\ LET f == runs[r].file IN
       IF row[f] = "pending"
       THEN runs' = [runs EXCEPT ![r].step = "resumed", ![r].parts = Listed(f)]
       ELSE End(r)
  /\ UNCHANGED <<server, record, timers, discarding, faults>>

\* POST /files/uploads/:id/complete: 404 unless pending, 400 unless the
\* parts are as many as the file has, and MinIO's own refusal of an unknown
\* part.  An empty list stands for what MinIO lists.
AnyCount(parts) == TRUE \* mutant of Enough: no check of the count
Enough(parts)   == Cardinality(parts) = TotalParts

HandleComplete(r) ==
  /\ At(r, "complete")
  /\ LET f     == runs[r].file
         parts == IF runs[r].parts = {} THEN Listed(f) ELSE runs[r].parts
     IN IF row[f] = "pending" /\ Enough(parts) /\ parts \subseteq landed[f]
        THEN /\ row' = [row EXCEPT ![f] = "complete"]
             /\ object' = [object EXCEPT ![f] = parts]
             /\ landed' = [landed EXCEPT ![f] = {}]
             /\ Go(r, "completed")
        ELSE Go(r, "refused") /\ UNCHANGED server
  /\ UNCHANGED <<record, timers, discarding, faults>>

\* DELETE /files/:id: a pending upload is aborted and its row removed, a
\* finished file goes to the Bin, one in the Bin is destroyed, and what is
\* gone is a 404.
DeleteFile(f) ==
  /\ row' = [row EXCEPT ![f] = CASE row[f] = "pending"  -> "removed"
                                 [] row[f] = "complete" -> "binned"
                                 [] row[f] = "binned"   -> "destroyed"
                                 [] OTHER               -> row[f]]
  /\ landed' = [landed EXCEPT ![f] = {}]
  /\ object' = [object EXCEPT ![f] = IF row[f] = "binned" THEN {} ELSE @]

\* The owner deletes the file from the drive's list or the Bin's, purge-trash
\* takes it from the Bin, or cleanup-stale-uploads a pending row old enough.
DeleteFromDrive(f) ==
  /\ row[f] \in {"pending", "complete", "binned"}
  /\ DeleteFile(f)
  /\ UNCHANGED <<record, runs, timers, discarding, faults>>

\* POST /files/:id/restore: 409 when the name is taken again.
RestoreFromBin(f) ==
  /\ row[f] = "binned" /\ ~NameTaken
  /\ row' = [row EXCEPT ![f] = "complete"]
  /\ UNCHANGED <<landed, object, record, runs, timers, discarding, faults>>

\* MinIO takes the PUT of a part as long as the upload is open.
TakePart(r, p) ==
  /\ p \in runs[r].sent \ runs[r].arrived /\ row[runs[r].file] = "pending"
  /\ landed' = [landed EXCEPT ![runs[r].file] = @ \cup {p}]
  /\ runs' = [runs EXCEPT ![r].arrived = @ \cup {p}]
  /\ UNCHANGED <<row, object, record, timers, discarding, faults>>

-----------------------------------------------------------------------------
(* The browser: startUpload.                                               *)

Resumable == record.status \in {"incomplete", "error"}

\* Ids not used nor about to be: FileId bounds the uploads begun anew.
IdsLeft == Cardinality({f \in FileId : row[f] = "none"})
           > Cardinality({r \in Run : At(r, "initiate")})

\* The user drops or re-selects the file.
StartUpload(r) ==
  /\ At(r, "idle") /\ (Resumable \/ IdsLeft)
  /\ runs' = [runs EXCEPT ![r].step = IF Resumable THEN "resume" ELSE "initiate",
                          ![r].file = IF Resumable THEN record.file ELSE NoFile]
  /\ UNCHANGED <<server, record, timers, discarding, faults>>

ReceiveInitiate(r) ==
  /\ At(r, "initiated")
  /\ Upsert([file |-> runs[r].file, done |-> {}, status |-> "uploading"])
  /\ runs' = [runs EXCEPT ![r].step = "upload", ![r].todo = Part]
  /\ UNCHANGED <<server, timers, discarding, faults>>

\* The record is made anew from what the server lists, and from the record
\* found when the call was made.
ReceiveResume(r) ==
  /\ At(r, "resumed")
  /\ Upsert([file |-> runs[r].file, done |-> runs[r].parts, status |-> "uploading"])
  /\ runs' = [runs EXCEPT ![r].step = "upload", ![r].todo = Part \ runs[r].parts]
  /\ UNCHANGED <<server, timers, discarding, faults>>

\* runWithConcurrency: the next part, in order, as soon as one of the
\* workers is free; a failed part does not stop the others.
SendPart(r) ==
  /\ At(r, "upload") /\ Cardinality(runs[r].sent) < MaxConcurrent
  /\ \E p \in runs[r].todo :
       /\ \A q \in runs[r].todo : p <= q
       /\ runs' = [runs EXCEPT ![r].todo = @ \ {p}, ![r].sent = @ \cup {p}]
  /\ UNCHANGED <<server, record, timers, discarding, faults>>

\* The ETag comes back: it is merged into the record there is now, or, when
\* there is none any more, nowhere.
ForgetOthers(done, p) == {p} \* mutant of MergePart: not merged with the latest
MergePart(done, p)    == done \cup {p}

PartDone(r, p) ==
  /\ p \in runs[r].arrived
  /\ record' = IF record = NoRecord THEN record
               ELSE [record EXCEPT !.done = MergePart(@, p)]
  /\ runs' = [runs EXCEPT ![r].sent = @ \ {p}, ![r].arrived = @ \ {p}, ![r].tries[p] = 0]
  /\ UNCHANGED <<server, timers, discarding, faults>>

TryAgain(tries) == tries + 1 < MaxRetries

\* The PUT of a part fails: it is sent again, up to MaxRetries times.
PartFails(r, p) ==
  /\ runs' = IF TryAgain(runs[r].tries[p])
             THEN [runs EXCEPT ![r].tries[p] = @ + 1, ![r].arrived = @ \ {p}]
             ELSE [runs EXCEPT ![r].sent = @ \ {p}, ![r].arrived = @ \ {p},
                               ![r].tries[p] = 0, ![r].failed = TRUE]
  /\ UNCHANGED <<server, record, timers, discarding>>

\* MinIO refuses the part of an upload that is no longer open.
PartRefused(r, p) ==
  /\ p \in runs[r].sent \ runs[r].arrived /\ row[runs[r].file] # "pending"
  /\ PartFails(r, p)
  /\ UNCHANGED faults

\* The connection breaks, the part taken or not, or the URL has expired.
LosePart(r, p) == p \in runs[r].sent /\ Faulty("part") /\ PartFails(r, p)

PartsSettled(r) == At(r, "upload") /\ runs[r].todo = {} /\ runs[r].sent = {}

GiveUp(r) ==
  /\ PartsSettled(r) /\ runs[r].failed
  /\ PatchStatus("incomplete")
  /\ End(r)
  /\ UNCHANGED <<server, timers, discarding, faults>>

\* The parts sent are those of the record as it is now; without a record
\* the run ends here.
Finalize(r) ==
  /\ PartsSettled(r) /\ ~runs[r].failed
  /\ IF record = NoRecord
     THEN End(r)
     ELSE runs' = [runs EXCEPT ![r].step = "complete", ![r].parts = record.done]
  /\ PatchStatus("completing")
  /\ UNCHANGED <<server, timers, discarding, faults>>

\* Mutant of ReceiveComplete: an error answer is not looked at.
ReceiveAnything(r) ==
  /\ runs[r].step \in {"completed", "refused"}
  /\ PatchStatus("done") /\ timers' = timers + 1
  /\ End(r)
  /\ UNCHANGED <<server, discarding, faults>>

ReceiveComplete(r) ==
  /\ \/ At(r, "completed") /\ PatchStatus("done") /\ timers' = timers + 1
     \/ At(r, "refused") /\ PatchStatus("error") /\ UNCHANGED timers
  /\ End(r)
  /\ UNCHANGED <<server, discarding, faults>>

\* The call, or its answer, is lost.
LoseCall(r) ==
  /\ \/ runs[r].step \in {"initiate", "initiated"} /\ Faulty("initiate") /\ UNCHANGED record
     \/ runs[r].step \in {"resume", "resumed"} /\ Faulty("resume") /\ UNCHANGED record
     \/ runs[r].step \in {"complete", "completed", "refused"} /\ Faulty("complete")
        /\ PatchStatus("error")
  /\ End(r)
  /\ UNCHANGED <<server, timers, discarding>>

\* setTimeout(() => remove(record.key), 2500)
RemoveFinished ==
  /\ timers > 0 /\ timers' = timers - 1
  /\ Remove
  /\ UNCHANGED <<server, runs, discarding, faults>>

-----------------------------------------------------------------------------
(* The browser: discardUpload and a reload.                                *)

\* The panel has a discard button on an 'incomplete' or 'error' record, for
\* as long as the record is there: it can be pressed again before the first
\* press is through.
Discard ==
  /\ Resumable /\ discarding[record.file] < Presses
  /\ discarding' = [discarding EXCEPT ![record.file] = @ + 1]
  /\ UNCHANGED <<server, record, runs, timers, faults>>

HandleDiscard(f) ==
  /\ discarding[f] > 0
  /\ \/ DeleteFile(f) /\ UNCHANGED faults
     \/ Faulty("discard") /\ (DeleteFile(f) \/ UNCHANGED server)
  /\ discarding' = [discarding EXCEPT ![f] = @ - 1]
  /\ Remove
  /\ UNCHANGED <<runs, timers>>

\* markIncompleteOnLoad
LeaveCompleting(status) == \* mutant of OnLoad
  IF status = "uploading" THEN "incomplete" ELSE status
OnLoad(status) == IF status \in {"uploading", "completing"} THEN "incomplete" ELSE status

\* The tab is closed, killed or reloaded: what was in memory is gone.
Reload ==
  /\ Faulty("reload")
  /\ PatchStatus(OnLoad(record.status))
  /\ runs' = [r \in Run |-> Idle]
  /\ timers' = 0 /\ discarding' = [f \in FileId |-> 0]
  /\ UNCHANGED server

Serve(r) == HandleResume(r) \/ HandleComplete(r) \/ HandleInitiate(r)

Continue(r) ==
  \/ ReceiveInitiate(r) \/ ReceiveResume(r) \/ ReceiveComplete(r)
  \/ SendPart(r) \/ GiveUp(r) \/ Finalize(r)
  \/ \E p \in Part : TakePart(r, p) \/ PartDone(r, p) \/ PartRefused(r, p)

Next ==
  \/ \E r \in Run :
       \/ StartUpload(r) \/ Serve(r) \/ Continue(r) \/ LoseCall(r)
       \/ \E p \in Part : LosePart(r, p)
  \/ \E f \in FileId : DeleteFromDrive(f) \/ RestoreFromBin(f) \/ HandleDiscard(f)
  \/ RemoveFinished \/ Discard \/ Reload

\* Calls are answered, parts get through unless they fail, timers fire, and
\* the user comes back to an upload the panel offers to resume.
Fairness ==
  /\ \A r \in Run : WF_vars(Serve(r) \/ Continue(r))
  /\ WF_vars(RemoveFinished \/ \E f \in FileId : HandleDiscard(f))
  /\ WF_vars(\E r \in Run : Resumable /\ StartUpload(r))

Spec == Init /\ [][Next]_vars /\ Fairness

-----------------------------------------------------------------------------
(* Properties.                                                             *)

Busy == {r \in Run : ~At(r, "idle")}

\* A finished file has every part of the file dropped, however the parts
\* got there and whatever list the browser sent (files.ts:173-184).
WholeObjects == \A f \in FileId : row[f] \in {"complete", "binned"} => object[f] = Part

\* The panel never shows an upload as running that no run works on
\* (uploadManager.ts:213-215 "looking active forever").
ActiveHasRun == record.status \in {"uploading", "completing"} => Busy # {}

\* One run at a time, none before the last one's record is cleaned up.
Discarding == \E f \in FileId : discarding[f] > 0
Calm == (\A r, q \in Busy : r = q) /\ (timers > 0 \/ Discarding => Busy = {})

\* "Uploaded" is shown only of a file the server has finished, whatever its
\* owner has done with it since (uploadManager.ts:188-192).
WasFinished(f) == row[f] \in {"complete", "binned", "destroyed"}
DoneIsDone     == [](Calm) => [](record.status = "done" => WasFinished(record.file))

\* An upload the panel offers to resume is finished or gone in the end, or
\* the user discards it: whatever was lost, the server's list makes up for
\* it (README "A client that lost its local progress ... MinIO is the source
\* of truth").
ResumesFinish ==
  [](Calm) => \A f \in FileId :
     (record.file = f /\ Resumable /\ row[f] = "pending") ~> (row[f] # "pending" \/ discarding[f] > 0)

\* Discarding never takes a file that was finished (uploadManager.ts:201-203
\* "Safe to call even if the upload already finished").
DiscardIsSafe ==
  [][\A f \in FileId : HandleDiscard(f) /\ row[f] = "complete" => row'[f] = "complete"]_vars
=============================================================================
