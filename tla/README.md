# Silo: models and proofs

Silo is a self-hosted file drive: an Express API over PostgreSQL and MinIO, and a React frontend that uploads straight to
MinIO through presigned URLs. This directory holds TLA+ models of it, TLC configurations that check them on small
instances, and theorems checked by TLAPS. `PROJECT.json` lists the components, the runs, the source lines behind each
definition, the hazards and the theorems.

Paths are relative to the repository's root (`src/` in `PROJECT.json`); a bare `folders.ts` is the one of section 1.
`tlc -config X.cfg M` runs a model, `tlapm M.tla` checks the proofs of a module.

## 1. Inventory of the system

| part | state it keeps | operations | what makes it correct |
|---|---|---|---|
| drive tree (`src/routes/folders.ts`, `src/routes/files.ts`, `src/lib/dbHelpers.ts`) | tables `folders` and `files`, `deleted_at` timestamps | create, rename, move, trash, restore, delete for good, upload, list the Bin | folders are one tree; nothing live under a trashed folder; a restore undoes exactly one delete; the bucket and the tables agree |
| object storage (`src/storage.ts`, MinIO) | finished objects, thumbnails, open multipart uploads and their parts | create/complete/abort/list a multipart upload, get, put, delete | every finished file has its object, nothing unreachable is left |
| uploads (`files.ts:37-196`, `frontend/src/upload/`) | pending row, parts in MinIO, the browser's upload records in localStorage | initiate, put a part, resume, complete, discard | a finished file has all its parts; an upload can be resumed or thrown away after any failure |
| thumbnails (`src/lib/thumbnails.ts`, `files.ts:218-298`) | `thumbnail_status`, `thumbnail_key`, two in-memory slots and a queue of waiters | generate on first request | at most two at once, each waiter gets its turn, one result |
| maintenance scripts (`scripts/purge-trash.ts`, `scripts/cleanup-stale-uploads.ts`) | none (separate processes working from one SELECT) | purge the Bin, remove stale uploads | only old rows go, no object is left behind |
| sharing (`src/routes/shares.ts`, `src/routes/public.ts`) | table `shares` | share with a user, revoke, create and revoke a public link, follow one | access exactly while a share covers a live item |
| accounts (`src/routes/invites.ts`, `src/routes/auth.ts`, `scripts/create-admin.ts`) | tables `users`, `invites`; signed tokens | invite, accept, login, refresh | an invite opens one account; an account comes of one invite or of the script |
| browser session (`frontend/src/api/`, `frontend/src/auth/`) | both tokens in localStorage, shared by the tabs; per tab the user shown and one refresh in flight | sign in, request, refresh on 401, retry, sign out | the tokens stored are of one session; 401s share a refresh and nobody is left waiting; nobody is signed out without a cause |
| drive and Bin pages (`frontend/src/pages/`, `ItemRow.tsx`, `Sidebar.tsx`, React Query) | the listing kept per query, the fetches in flight, the page shown | navigate, trash, move, upload, restore, delete forever, invalidate | a page at rest shows what the server has; nothing is destroyed by a press that meant the Bin |
| dialogs (`MoveModal.tsx`, `PreviewModal.tsx`, `ShareModal.tsx`) | what is looked at, the loads in flight, the link just made | navigate, turn, share, revoke, create and revoke a link | late answers change nothing; what is shown at rest is so |
| appearance, configuration, migrations, deployment, password hashing | | | not modelled |

How they interact. Every request is a chain of awaited PostgreSQL and MinIO calls in one Node process, so any two
requests interleave at every `await`; only the two cascades (`folders.ts:169-180`, `247-272`) and the acceptance of an
invite run in a transaction. MinIO and PostgreSQL share no transaction: each handler orders its calls so that a failure in
between leaves something, and the hazards are about what it leaves. The scripts are further processes beside the server.
Access checks and permanent deletes lean on an invariant of the tree (nothing live under a trashed folder) that no
constraint of the database states.

The hard behaviours are therefore: handlers racing on rows they read earlier, a failure between the bucket's call and
the table's, a script working from a list that is no longer true, timestamps as batch identities, an in-memory
semaphore, a browser that keeps its own record of an upload, tabs that share a token store, and pages whose answers may
be older than what they show.

## 2. Plan

All of it is done. The order was that of importance: what the application promises first, then what can break it, then
the parts around it.

1. `DriveTree`: what the application promises, each handler one atomic step; all its properties proved for every number of
   folders, files and names (`DriveTreeProofs`).
2. `DriveRequests`: the same handlers taken apart at every `await`; with one request at a time it implements `DriveTree`,
   with two it shows what each overlap costs, with faults what an interruption leaves. `RequestProofs` proves for any
   number of requests, all operations beside each other and all failures allowed, until which stale read each property
   holds; `RefinementProofs` proves that one request alone is one step of `DriveTree`.
3. `ThumbnailSlots`: the semaphore, with liveness and a proof of its cap, of its wakeups and of its order.
4. `Uploads`: one file between browser, server and MinIO, part by part, with lost calls, retries and reloads; its safety
   proved (`UploadsProofs`).
5. `Sharing`, composed with `DriveTree`: shares, links, and reads that look at the tables several times; who can read what
   proved from the tree's invariant (`SharingProofs`).
6. `Accounts`: the acceptance of an invite, statement by statement; `Session`, composed with it: the browser's tokens, the
   shared refresh, the retry of a 401, sign-out; both proved (`SessionProofs`).
7. `Pages` and `Dialogs`: what a page and a dialog show against calls and answers in any order; both proved
   (`ViewsProofs`).

## 3. Modules

| module | models | corresponds to |
|---|---|---|
| `DriveTree` | folders, files, Bin and bucket of one owner | a table is a partial function from ids to rows, a handler one action; an action's guard is the handler's `throw`s, so a refused request is no step |
| `DriveRequests` (extends `DriveTree`) | the same handlers, call by call | `req[r]` holds the local variables of a handler; `step` names the call it makes next; `overtaken` and `torn` record what went stale and what was left halfway |
| `ThumbnailSlots` | `acquireThumbnailSlot` and the handler around it | `active` and `waiting` are the module's variables, `woken` the queue of microtasks that resume a waiter |
| `Uploads` | `uploadManager.ts`, `uploadStore.ts`, the upload routes, MinIO's parts | `runs[r]` holds the local variables of a `startUpload`, `record` the store's entry, `row`, `landed` and `object` the server's side |
| `Sharing` (extends `DriveTree`) | `shares.ts`, `public.ts`, access checks | `shares` and `links` are the two kinds of row of table `shares`; `reads[r]` the local variables of a recipient's read |
| `Accounts` | `invites.ts`, `create-admin.ts`, tables `users` and `invites` | `tx[v]` is an open transaction and its local variables; an action is one SQL statement, with the row locks and the unique index that make it wait |
| `Session` (extends `Accounts`) | `client.ts`, `tokenStore.ts`, `AuthContext.tsx`, the login and accept-invite pages, `auth.ts` | `store` is localStorage, `page` and `refresh` a tab's user and `refreshPromise`, `call[r]` a `request()` between its awaits |
| `Pages` | `DrivePage.tsx`, `BinPage.tsx`, `ItemRow.tsx`, `Sidebar.tsx`, `main.tsx`, the routes behind them | `cache[k]` is a query of React Query: the listing held and the fetch in flight, `act[a]` a call a row started |
| `Dialogs` | `MoveModal.tsx`, `PreviewModal.tsx`, `ShareModal.tsx`, `shares.ts` behind the last | the `useState`s of the component, `loads` its loads in flight, `ops[o]` its calls |
| `...Proofs` | theorems about the module of that name, `RequestProofs` and `RefinementProofs` about `DriveRequests`, `SessionProofs` also about `Accounts`, `ViewsProofs` about `Pages` and `Dialogs` | |
| `MC...` | symmetry sets, operator constants, bounds, a populated start | |

Abstractions common to the modules:

- One owner. Every query over rows filters by owner or by an id that belongs to one. Other accounts appear in `Sharing`.
- `deleted_at` is a small number. All rows of one trashing get one `now()`, and no two trashings the same (PostgreSQL's
  `now()` has microseconds; two trashings in one microsecond are left out). In `DriveRequests` it is the time of the
  transaction's BEGIN (`stamp`), which may be earlier than that of another transaction committed before.
- The recursive CTEs are the least set closed under their join. On a cycle the SQL would never end (`UNION ALL`);
  `requests_moves` is about how a cycle can come to be.
- A transaction is one step, that of its COMMIT, but for the BEGIN that fixes `now()`. Both have the shape of one UPDATE
  on `folders` and one on `files`.
- A call that fails does so before its effect or after it. To a handler that lets the error through, the second is the
  call and then a death; the handlers that catch (the INSERT of an upload, the generation of a thumbnail) go on from either
  (`Catch`, `CatchAfter`).
- `abortMultipartUpload` of an unknown upload is an error the handler recognises by its message
  (`files.ts:380`). The model takes that recognition to work.
- `created_at` is left out: to `cleanup-stale-uploads` any pending row may be old.

`Uploads` takes the server's handlers as one step (`DriveRequests` takes them apart), and a call that fails does so
before or after its effect, never long after the browser has given it up. Every upload in it is of one local file dropped
on one folder, so there is one key in the store and one name on the server. `ListLimit` stands for the 1000 parts of one
page of ListParts.

A row of `Uploads` may be deleted more than once: the first DELETE of a finished file puts it into the Bin, the next
destroys it (`DeleteFile`), and a restore may come in between. The discard button can be pressed again while a discard is
in flight (`discarding` counts, up to `Presses`).

In `Sharing` the owner's calls are one write each, on any row there is: their checks need the row to be live at an earlier
moment, every row was, and a call may take as long as it likes. Names are fixed to their rows, since all a name does is
refuse a step.

In `Accounts` transactions run under READ COMMITTED: a commit is seen at once by the others, an UPDATE of a row another
transaction has updated waits and looks again, and so does the INSERT of an email another has inserted. In `Session` a
session is numbered when its tokens are saved, and an access token is the number of its session; the server refuses or
accepts a token as it likes, since it may expire on the way. `crossed` records that a session began or ended while a
refresh was in flight.

In `Pages` React Query is external and modelled from how the pages use it (the comment of the module says how). `calm` is
the set of the queries on the screen that were first shown with no call under way and have not lost an answer since;
`condemned` the files the user confirmed to destroy, or pressed before the page had caught up with an earlier call. In
`Dialogs` one dialog is open at a time; `late` says that the list shown was overtaken by a newer one before it came,
`astray` that an answer of the dialog was lost or a call of an earlier dialog was still under way when it opened. These
are history variables: no guard reads them.

## 4. Runs

| run | question | bounds |
|---|---|---|
| `tree` | do the invariants of the tree, the Bin and the bucket survive every sequence of operations? | 2 folders beside the root, 2 files, 2 names, 3 trashings |
| `requests_alone` | do the handlers implement `DriveTree` when they run alone, and what does one that fails or dies leave? | 2 folders, 2 files, 1 name, 2 trashings (1 if anything fails), 1 request at a time, every fault |
| `requests_pairs` | what do any two overlapping operations keep, and until when? | 2 folders, 1 file, 1 name and 2 trashings, or 2 names, 1 trashing and no thumbnail; 2 requests |
| `requests_moves` | can two moves make a cycle? Yes | 2 folders, 2 requests |
| `requests_stamps` | can a purge leave an object without a row? Yes, after two trashings that overlap | 2 folders, 1 file, 2 trashings, 2 requests |
| `requests_stitch` | can an upload always be resumed after a crash? No | 1 file, 1 request, faults in the completion |
| `slots` | is the semaphore right? | 5 requests, 2 slots, 1 generation that never settles |
| `uploads` | what survives any overlap of uploads, discards, timers and reloads, and does a resumable upload end? | 2 ids, 2 runs, 2 parts of which 1 is listed, 2 attempts per part, 2 faults |
| `uploads_discard` | is discarding safe when the upload had finished? No | 1 part, 1 fault |
| `sharing` | who can read what, when? | 2 folders, 1 file, 1 recipient, 1 read, 2 trashings |
| `session` | does an invite open one account, and is the browser's session kept whole? | 3 addresses, 1 invite, 2 visitors; 2 tabs, 2 calls, 2 sessions, 1 fault |
| `views` | does what pages and dialogs show agree with the server? | 1 file, 2 folders, 2 calls; 2 folders or files to look at, 2 shares or links, 2 calls, 2 loads |

Why the bounds are enough. Two folders beside the root give every relation of two folders (parent, child, siblings) and
chains of three; two files and two names give a name clash in one folder and across a move. Three trashings give a batch
inside a batch inside the Bin, the deepest case the timestamps have to tell apart: an outer folder, an inner one trashed
before it, and a file trashed before that. `requests_pairs` needs no third request because every hazard listed is about
a read and one intruder. Once a read is stale no further request begins and those in progress end (`Winding`): what is
left out is a third request after the first stale read, which the theorems of section 6 do not leave out. In `slots`,
five requests on two slots fill the queue, with two released in a row. In `uploads`, two parts with a page of one make
the list incomplete, and two parts in flight can be acknowledged in either order; its two faults are for one run after
another, and while two runs overlap (`Apart`) there is one. In `sharing`, one read suffices since reads write nothing,
and a read sees the owner's operations in any number between its three looks. In `session`, two sessions are what it
takes for one to cross the refresh of the other, two calls what it takes to share a refresh, in one tab or to have one
in each. In `views`, two calls on one file are the double press; two loads are an older and a newer one. The theorems of
section 6 hold for any bounds; what is listed there under "Model-checked only" has these only.

Two runs have two kinds of start, so as not to multiply what does not interact. `session`: with no browser, everything
`Accounts` does from an empty database; with one, an admin and an unused invite are there and the acceptance under way
is the one a form submitted (`Sparse` in `MCSession`). `views`: a behaviour is of the pages or of the dialogs
(`onPages`), and one of the pages keeps to the root and one other query (`aside`). In `uploads` the ids are used in
order (`InOrder`). In `requests_alone` behaviours in which something fails have one trashing, and one failure that
leaves files halfway (`Early`): the second trashing is for telling batches apart, and a trashing or a restore, being one
transaction, has no half. In `requests_pairs` a behaviour with a second name has one trashing and no
thumbnail (`SecondNameAlone`): the second name is for moves, the second trashing for the Bin, and thumbnails look at
neither. `requests_stamps` follows stale stamps only (`StampsOnly`), so that the counterexample is about one.

`CHECK_DEADLOCK FALSE` is set for `Uploads` only: when the ids are used up and all is settled there is nothing left to do.

### Overlaps (requests_pairs)

The code serialises nothing, and the operations all run beside each other in this run. What its comments and its
documentation promise without a condition is lost to some overlap or failure: one tree, nothing live in the Bin, downloads
that work, no object without a row, uploads that can be resumed, nothing live destroyed, a thumbnail made once. Section 5
says by which; three of them have a violation run, and the overlaps of the others are behaviours of `requests_pairs`.

What is kept is said up to the history `overtaken`. A handler acts on what it has read; seven kinds of reads matter
(`Stands`), and a step of another request that makes one of them false puts its kind into `overtaken`. Nothing in the
model looks at it. A property then reads: as long as none of these kinds of reads has been overtaken, this holds, however
many requests overlap and wherever they fail.

| kind | what was read | lost with it |
|---|---|---|
| `chain` | the new parent is not below the folder moved (`CheckCycle`) | `TreeKept` |
| `live` | the folder written into, moved or restored to is out of the Bin | `BinKept`, `LiveKept`, `DownloadsKept`, `ObjectsKept` |
| `subtree` | `getDescendantFolderIds`, and the files listed from it | these and `UploadsKept` |
| `stamp` | nothing below the folder is stamped later than the transaction's BEGIN | as `live` |
| `doomed` | what is being deleted for good is in the Bin, or unfinished | `LiveKept`, `DownloadsKept`, `ThumbnailsKept`, `ObjectsKept` |
| `upload` | the upload being completed is of a file out of the Bin | `ObjectsKept` |
| `thumbnail` | the file has no thumbnail yet | `ReadyKept` |

Which calls can do that is `Overtakers`, one set of calls per kind, and `OnlyTheseOvertake` checks that no other call is
ever the first: a `chain` only by another move, a `live` only by a trashing, and so on. So a reader who wants to repair
the code finds there, kind by kind, the two calls a lock has to keep apart. A property may be lost later than the read
goes stale, or not at all: the conditions are sufficient.

### Faults (requests_alone, requests_stitch)

A handler may end at any await: its call threw and it answered 500, or the process died, before or after the call took
effect. `torn` records the files it had then taken from the bucket, or put there, and not yet told the table, or the
other way round; each property names the operations it is lost to. The order of the permanent deletes (bucket first,
table last) and the transactions around the cascades are what keeps `ObjectsKept` whatever fails except a completion,
and the Bin and the tree (`BinKept`, `TreeKept`) whatever fails. Four failures leave harm the code has no answer to:
between MinIO's complete and the UPDATE (`requests_stitch`), an INSERT whose answer is lost, a failure after a thumbnail
is ready, and a permanent delete interrupted after its object and undone by a restore. All happen in `requests_alone`. A
fifth, between `createMultipartUpload` and the INSERT, leaves an upload nobody knows, which no property is about.

### Fairness

- `ThumbnailSlots`: microtasks always run; a generation that does not hang ends. No request need arrive. At most
  `MaxHung < Max` generations hang: with as many as there are slots, all waiters wait for ever (ffmpeg has no timeout, and
  `pipe()` passes no error on, `thumbnails.ts:51`).
- `Uploads`: the server answers, MinIO takes parts, timers fire (weak fairness of each run's steps, and of the timers and
  discards together), and the user comes
  back to an upload the panel offers to resume. Faults are never fair; `MaxFaults` bounds them, so retries end.

The other modules have no liveness properties, and no fairness. Nothing in `Session`, `Pages` and `Dialogs` bounds when an
answer comes: `fetch` is called with no timeout.

### `Calm` in Uploads

`DoneIsDone` and `ResumesFinish` assume `[]Calm`: one run at a time and none started before the last one's removal timer
or discard is through. Without it they do not hold. The removal after 2.5 s and the removal at the end of a discard go by
key, so they drop the record of an upload of the same file begun meanwhile, whose run then ends without completing.

## 5. Findings and known gaps

The violation runs:

- `requests_moves` (`folders.ts:127`): two moves make a cycle.
- `requests_stamps` (`folders.ts:172`): of two trashings that overlap the outer may be the older, and a purge between the
  two leaves objects without a row.
- `requests_stitch` (`files.ts:188`): an upload stitched and not marked cannot be resumed, completed or reached.
- `uploads_discard` (`uploadManager.ts:205`): discarding after a lost answer moves a finished file to the Bin.

Behaviours of a passing run that break what the code or its documentation says; the condition of the property named is
what lets them pass:

| where | what happens | run | property |
|---|---|---|---|
| `folders.ts:161` | what is made, uploaded, moved or restored into a folder while it is trashed stays live under it; `folders.ts:147-150` and `dbHelpers.ts:166-168` rely on the contrary | `requests_pairs` | `BinKept` (`live`, `subtree`) |
| `purge-trash.ts:45`, `:55` | the purge removes a file or a folder restored since its SELECT, with all that is in it | `requests_pairs` | `LiveKept` (`doomed`) |
| `files.ts:395` | a file restored while it is deleted for good, after its object and before its row, has no object | `requests_pairs` | `ServedKept` (`doomed`) |
| `files.ts:383` | deleting an upload beside its completion leaves the object without a row | `requests_pairs` | `ObjectsKept` (`doomed`) |
| `files.ts:291` | of two that make one thumbnail, the one that fails has the last word | `requests_pairs` | `ReadyKept` (`thumbnail`) |
| `files.ts:389` | a file trashed alone and with its folder at once is stamped twice and drops out of the folder's batch | `requests_pairs` | `BinKept` (`stamp`) |
| `files.ts:283` | a thumbnail that is there is marked failed when the presigning after it fails, or when the UPDATE's answer is lost | `requests_alone` | `ReadyKept` (`torn`) |
| `files.ts:79` | an INSERT that took effect and rejected has its upload aborted: the row is there and cannot be resumed | `requests_alone` | `UploadsKept` (`torn`) |
| `folders.ts:187` | deleting a folder for good leaves the thumbnails of its files in the bucket; `README.md:447-450` says they are cleaned up | `tree` | none |

Seen while modelling and not the subject of a run:

- `purge-trash` removes the rows of trashed unfinished uploads without aborting them (`purge-trash.ts:34-47`); their parts
  stay in MinIO and no row names them (`DriveTree` does as the script does).
- A thumbnail put after its file has been deleted for good stays in the bucket (`files.ts:277`).
- A second press on the discard button while the first is in flight destroys the finished file that the first has put into
  the Bin (`UploadPanel.tsx:104-112`).
- The comment of `runWithConcurrency` (`uploadManager.ts:47`) says it stops on the first failure; it goes on to the end.
- `ResumePicker` compares name and size (`UploadPanel.tsx:21`), its comment and the key in the store also the time of the
  last change (`:13-14`): a changed file starts a new upload, which the pending row refuses with a 409.
- A record saved as `done` and reloaded within 2.5 s stays: its timer is gone.
- Two tabs write the whole map of records to one localStorage key, and loading the second marks the uploads of the first
  as incomplete (`uploadStore.ts:42`, `uploadManager.ts:212-222`).
- A public link of a file in the Bin cannot be revoked until the file is restored (`shares.ts:202`).
- Two requests that create a public link at once: the second answers 500 (`shares.ts:170-184`).
- Presigned URLs outlive the revocation of a share by their time to live.
- A read may be granted to a user who never had access at any one moment (`GrantsAreJustified` states the exception).

In the browser's session:

- A refresh that ends after a sign-out, or after another account signed in, stores the old account's access token
  (`client.ts:59`); until the next 401 the page asks in the name of that account. `WholeSession` is stated up to this.
- A call of one account that waits for a refresh or is sent again may go out under another signed in meanwhile.
- Any failure of the refresh or of the retried call signs out, a network error, a 429 or a 5xx included; the comment
  (`client.ts:33-36`) speaks of a 401 only. `SignedOutForCause` counts them as causes.
- The cache of React Query is not cleared when the account changes, so that the pages of the next account may show
  listings of the last until they are fetched again.
- Tabs share localStorage and not what React shows: a tab signed out elsewhere goes on showing its user until a 401.

In the pages:

- A move does not invalidate its destination, Move to Bin does not invalidate the Bin, and an upload resumed or discarded
  from the panel invalidates nothing (`DrivePage.tsx:50-53`): each is seen when its page is shown again.
- A folder made or a file uploaded while the first load of a listing is in flight may be missing from it, since an
  invalidation joins a first load.
- When the answer to a DELETE is lost the row stays, and a second press destroys the file for good.

In the dialogs:

- A load of the move dialog that fails leaves the previous folder's list under the new crumb, with an error.
- The preview goes by index into the listing under it: when that changes it shows another file, and each redraw of the
  page loads the file anew.
- Two loads of the share dialog may land in either order, and the older list then stays (`ShareModal.tsx:34`).
- "Revoke & create a new one" (`ShareModal.tsx:206`) only revokes.
- A call that outlives its dialog may revoke the link the next one has just shown.

## 6. Proofs

### DriveTree

`DriveTreeProofs` proves, for every set of folders, files and names and every bound on the clock:

| theorem | states |
|---|---|
| `Invariance` | `IInv == TypeOK /\ OneTree /\ BinOrder /\ ClockAhead` is an invariant |
| `TypeCorrect`, `AlwaysOneTree`, `AlwaysBinOrder` | its parts |
| `PurgeRetains` | `PurgeKeepsRetention` |
| `LiveRowsSurvive` | `NothingLiveIsDestroyed` |
| `ObjectsAlwaysMatchFiles` | `ObjectsMatchFiles` |

Why the strengthening. `BinOrder` says that under a trashed folder there are only rows trashed with it or before it.
Trashing keeps it because a new batch has the latest time there is, which is what `ClockAhead` is for; a restore keeps it
because the batch of the folder is the youngest below it. `OneTree` is needed with it: a cascade removes the whole subtree
of a folder, and that the live root is not in it follows from the root being outside every other folder's subtree
(`RootOutside`). `TrashedUnder` carries `BinOrder` from one edge to a whole
subtree, by the leastness of `Subtree` and no induction, and `PurgeRetains` and `LiveRowsSurvive` follow from it. A move
keeps `OneTree` (`MoveKeepsTree`) because the new parent's chain does not pass the moved folder. `ObjectsMatchFiles` is
inductive on top of `IInv`: the cascade of the purge takes no finished file, since the loop before it has taken all
files that are old enough, and `BinOrder` says a cascade meets no younger ones.

`Subtree` and `Chain` are defined as least closed sets, so that their properties are first-order facts; no recursion
and no induction is used. Assumptions: those of `DriveTree` on its constants (`RootAssumption`, `NameAssumption`,
`MaxClockAssumption`), all checked by TLC on each run.

### The Bin and restores

`DriveTreeProofs` also proves `RestoreBringsBackOneBatch`, `RestoreClashesOnlyAtItsTop` and `BinViewCoversTheBin`. A
timestamp stands for a batch, and `BatchInv` is what makes that enough, inductive on top of `IInv`: siblings with the
same timestamp have different names (`FolderNamesDiffer`, `FileNamesDiffer`; with the timestamp of live rows it is the
unique index, and a trashing keeps it because its timestamp is new), the folders of a batch hang together under one top
(`OneTop`), and the files of a batch that has folders are in them (`FilesFollow`). The Bin view rests on `IInv` alone:
going up from a row in the Bin the trashed folders come first (`BinOrder`), the root, which is live, is reached
(`OneTree`), and the last trashed folder before the live ones is the one entry.

### DriveRequests

`RequestProofs` proves what the handlers keep, for any number of requests in progress at once, any sets of ids and names,
any bound on the trashings, every operation beside every other and any of them failing or dying. No theorem has a
hypothesis on what may overlap: the condition is in the property, and it is about what has happened (`overtaken`, `torn`).

| theorem | states | until stale | but for files torn by |
|---|---|---|---|
| `HandlersKeepTypes` | `HandlerInv`: types, foreign keys, what a handler holds by the call it makes next, no UUID known to two before its INSERT | | |
| `StillOneTree` | `TreeKept` | `chain` | |
| `NothingLiveStaysInTheBin` | `BinKept` | `live`, `subtree`, `stamp` | |
| `NothingLiveDies` | `LiveKept` | those and `doomed` | |
| `DownloadsKeepWorking` | `DownloadsKept` | those and `doomed` | delete file, delete folder, purge |
| `ThumbnailsStayServed` | `ThumbnailsKept` | `doomed` | delete file, purge |
| `LiveFilesAreServed` | `ServedKept`, the two together | | |
| `UploadsStayOpen` | `UploadsKept` | `subtree` | initiate, complete, delete file, delete folder, cleanup |
| `NoObjectIsOrphaned` | `ObjectsKept` | `live`, `subtree`, `stamp`, `doomed`, `upload` | complete |
| `ThumbnailsAreMadeOnce` | `ReadyKept` | `thumbnail` | thumbnail |

Why this is more than the definition of `Stands`. A read that stands says something about the rows now; a property is
about all rows at all times, those no request has in hand included. The proof has to show that writes made on reads that
stand keep the tree, the Bin and the bucket as they should be: that a move whose check stands makes no cycle, that a
trashing whose subtree and stamp stand leaves the Bin in order, that a cascade whose lists stand takes no object's only
row, that what two handlers have in hand at once is told apart.

How the proofs go. A module of thirty-odd steps and nine properties would be 300 cases taken one by one; three lemmas
say instead, once and for all steps, what is needed of them. `Arrivals`: where each call of a handler comes from and what
the handler has just seen (`Arrived`). `EveryFate`: which call can insert, remove or change a row, add or take an object,
and which column (`Fates`). `Others`: the other requests' variables stay. An inductive invariant then speaks of what a
handler remembers and still relies on, or says that a read of the kinds concerned has been overtaken; the proof that
it lasts looks only at the calls that can break it:

- `HandlerInv` adds to the types that the calls follow their operation (`Doing`, `Holds`), that ids before their INSERT
  are nobody else's (`Fresh`, by `Learns`: ids come from the tables) and that the clock has room for the trashings that
  have begun (`ClockRoom`).
- `TreeInv`: unless `chain` is overtaken, `OneTree`, the cycle checks of all moves in progress stand, no folder is made its
  own parent and nothing that takes folders away has the root among them (`MovesAreSafe`).
- `BinInv`: `BinOrder` of the tree with what was read live, below a folder, or earlier than its stamp (`BinWhole`), unless
  one of `BinReads` is overtaken, and `ClockAhead` always.
- `DoomedInv`, `ListedInv`, `ThumbnailInv`: unless one of its kind is overtaken, what a delete, a cascade or a script has in
  hand is still in the Bin, or unfinished, until its row goes; what it has listed is still all there is; and a file whose
  thumbnail is being made has none.
- `ThumbInv` and `ObjectInv`: a row without its thumbnail or object is in the hand of a delete that has begun (`Takes`),
  or torn by one. `OpeningInv` and `PendingInv`: the same of an upload, which is open, being closed (`Closing`), or torn.
- `PendingBare`, `Bare` and `HaveRows`: an object whose file is pending is one being completed, the finished files a
  delete is about to remove the rows of have no object any more, and every other object has its row. The purge's second
  loop needs `BinOrder` for it.

Assumption, beside the tree's: SQL's NULL is no file's id (`NullAssumption`). TLC checked these invariants with two
requests of every operation at the bounds of `requests_pairs` with one name and one trashing, and, with one folder beside
the root and every fault, on the first 1.4 million states.

`RefinementProofs` proves that `DriveRequests` implements `DriveTree` (`AloneImplementsTree`: `ImplementsTree`) when
there is one request at a time (`OnlyOne`), for any sets of ids and names, until a call fails: what follows a failure is
the subject of the theorems above. The tables map to themselves and the bucket to what it holds with what the request
has taken from it and not yet from the table, without what it has put there and not yet told the table (`AbsObjects`,
`AbsThumbs`, `AbsUploads`). So of a handler's calls the one that settles the tables is the step of `DriveTree`, and
every other is a stutter (`StepMaps`, from one lemma per kind of call, `...Map` and `...Maps`); a cascade of many rows
and a script's row by row come out as the steps the atomic handler takes. The inductive invariant is `AloneInv`: the
checks a handler made still hold when it writes, since nobody else has written (`SeesFolders`, `SeesFiles`,
`SeesScript`); what it has in hand is gone from the bucket, or there (`Gone`); and the bucket so mapped agrees with the
tables (`BucketSeen`). That is also where the code's order matters: a handler that took its row away before the object
would fail `BucketSeen`. A trashing is a step of `DriveTree` when it commits, at the time of its BEGIN, and the clock is
seen accordingly (`AbsClock`); nothing is ever overtaken when requests do not overlap, which `Inv` carries along. TLC
checked `failed \/ AloneInv` with one request.

### ThumbnailSlots

`ThumbnailSlotsProofs` proves, for any finite set of requests and any limit above zero, `AtMostMax` (`Throttled`),
`NoIdleSlot` (`NoLostWakeup`) and `NoOvertaking` (`FirstComeFirstServed`). The inductive invariant adds to the types
that a request is queued once and not while it holds (`InLineOnce`), and that the count is exact: between events `active
= Cardinality(holders)`, at most one waiter is woken and there is room for it, and if anybody waits every slot is taken
or promised (`CountIsExact`).

### Uploads

`UploadsProofs` proves `WholeObjects` (`ObjectsAreWhole`), `ActiveHasRun` (`RecordsAreAttended`) and `DoneIsDone`
(`DoneIsTrue`), for any number of runs, parts and faults. The first is a count: the server checks that as many parts are
listed as the file has, and a subset of the parts with as many elements is all of them. `Known` and `Attended` say which
run stands behind a record; `Truthful`, which needs `Calm` in each step, that the run working on a record has that
record's file, so that "done" is said of a file whose completion was answered. What has been finished stays so
(`FinishedStays`): in the drive, in the Bin, back again or destroyed, whoever deleted it and how often.

### Sharing

`SharingProofs` carries `IInv` over to `ShareSpec` (`TreeStep`: every step is a step of the tree or leaves it alone) and
proves, for any rows, users, shares and reads, `BinIsPrivate` (`AlwaysBinIsPrivate`), `ReachableFromWithMe`
(`AlwaysReachable`) and `GrantsAreJustified` (`AlwaysGrantsAreJustified`). The first two rest on `LiveAbove`: everything
above a live folder is live, which is `BinOrder` read upwards and what the comment at `dbHelpers.ts:166-168` says. The
third needs of a read in progress that, unless it was justified or widened before, there is no share on its file while
that is still to be looked at, and none at or above its folder (`Looking`). A step puts a share above a folder only by
giving the user something to read he could not read before (`NewlyAbove`, by `TreeShapes`: the parents of folders change
only by a creation or a move), and that is what `widened` records. Assumptions beside the tree's: an id is not both a
folder's and a file's (`UuidAssumption`), the shape of `NameOf`, and `NoneAssumption`.

### Accounts and session

`SessionProofs` proves `InvitesOpenAccounts` of `AccountSpec` and of `SessionSpec`. It is not inductive: `Locks` adds
that an invite held by a transaction is unused and held by no other, and an email being inserted is nobody's and
inserted by no other; `Used` says who used which invite. Of the browser, `OneSession` (as long as nothing crossed, a
refresh in flight is of the session stored) makes `WholeSession` inductive; `NobodyLeftWaiting` is inductive with the
types, and `SignedOutForCause` follows step by step from the same invariant.

### Pages and dialogs

`ViewsProofs` proves `SettledPageIsCurrent` from `CalmInv`, which speaks of one file on one calm query: what the page
holds, or is about to receive, is right about the file, or the listing is still to be read, or a call on this file is
under way that invalidates the query when it ends. `NothingDestroyedUnasked` follows from `PressInv`: a Move to Bin on a
file nobody condemned is the only one on it and finds it out of the Bin.

Of the dialogs it proves `LateAnswersAreDropped` from `BrowseInv` (a load that is not cancelled is of what one is looking
at), `FreshLinkWorks` from `LinkInv` (a call that changes the link is alone, and known to the dialog) and
`SharesShownAreCurrent` from `ListInv`: unless a call is done and about to load again, what the dialog will end with is
right, the newest load if it has not been overtaken and the list on the screen otherwise.

The inductive invariants `IInv`, `BatchInv`, `ShareInv`, `DialogInv` and those of `DriveRequests` were first checked by
TLC at the bounds of the runs (`BatchInv` with 2 trashings).

### Model-checked only

Liveness (`WaitersAreServed`, `ResumesFinish`), which TLAPS does not reach. Every other property of the passing runs is
stated by a theorem.

## 7. Not modelled

- The Shared-with-me page, which changes nothing; creating a folder and renaming as actions of `Pages` (they go the way of
  a move: `runAction`); a reload of the tab while its calls are under way.
- Layout, themes, icons, formatting, the upload panel's wording, and the pure functions of `frontend/src/lib/`.
- Byte counts, progress, presigned URLs and their expiry; the contents of files and thumbnails.
- Rate limiting, validation, error mapping and configuration: stateless but for the counters of a library that only
  refuses requests.
- Password hashing: pure, and only slow.
- Migrations, deployment and provisioning scripts: operator tooling run with the application stopped.
- A second tab in `Uploads` and `Pages`; transactions of other isolation levels.
