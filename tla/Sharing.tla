------------------------------ MODULE Sharing ------------------------------
(***************************************************************************)
(* Shares and public links on one owner's drive: routes/shares.ts,         *)
(* routes/public.ts and the read access of lib/dbHelpers.ts, beside        *)
(* everything DriveTree does to the rows they hang on.                     *)
(*                                                                         *)
(* A recipient's read is taken apart at its awaits: between the row it     *)
(* reads and the shares it looks up, the owner may move, trash, share or   *)
(* revoke.  The owner's own calls check that the row is live and then      *)
(* write; a call may be slow and every row was live once, so the write     *)
(* may hit any row there is, and is one step.                              *)
(***************************************************************************)
EXTENDS DriveTree

CONSTANTS
  User,   \* the other accounts: the owner cannot share with himself
  Reader, \* reads of other accounts that may be in progress at once
  NameOf, \* the one name each row has: names only ever refuse a step
  None    \* no id or user

ASSUME NoneAssumption   == None \notin User \cup FolderId \cup FileId
ASSUME UuidAssumption   == FolderId \cap FileId = {}
ASSUME NameOfAssumption == NameOf \in [FolderId \cup FileId -> Name]

VARIABLES
  shares, \* rows of table shares with share_type = 'user'
  links,  \* the files with a row of share_type = 'public'
  reads   \* the local variables of each read in progress

shareVars == <<vars, shares, links, reads>>

Row == FolderId \cup FileId

Idle == [step |-> "idle", user |-> None, on |-> None, folder |-> None,
         could |-> FALSE, widened |-> FALSE]

ShareTypeOK ==
  /\ TypeOK
  /\ shares \subseteq [on : Row, to : User]
  /\ reads \in [Reader ->
       [step    : {"idle", "direct", "chain"},
        user    : User \cup {None},
        on      : Row \cup {None},
        folder  : FolderId \cup {None}, \* folder_id as the file's row had it
        could   : BOOLEAN,   \* the user could read the row at some moment of the read
        widened : BOOLEAN]]  \* the user got something more to read meanwhile
  \* ON DELETE CASCADE on folder_id and file_id
  /\ \A s \in shares : s.on \in DOMAIN folders \cup DOMAIN files
  /\ links \subseteq DOMAIN files

-----------------------------------------------------------------------------
(* Who can read what, in one look at the tables.                           *)

HasShare(u, x) == [on |-> x, to |-> u] \in shares

\* hasSharedFolderAccess: a share on the folder or above it.
SharedAbove(u, d) == d \in DOMAIN folders /\ \E a \in Chain(d) : HasShare(u, a)

CanOpen(u, d)     == LiveFolder(d) /\ SharedAbove(u, d)
CanDownload(u, f) == LiveFile(f) /\ (HasShare(u, f) \/ SharedAbove(u, files[f].folder))
CanRead(u, x)     == CanOpen(u, x) \/ CanDownload(u, x)

\* GET /public/:token
Public == {f \in links : LiveFile(f) /\ files[f].status = "complete"}

\* GET /shares/with-me
WithMe(u) == {x \in Row : HasShare(u, x) /\ (LiveFolder(x) \/ LiveFile(x))}

-----------------------------------------------------------------------------
\* What the reads in progress may look back on, after a step: `shared' is the
\* user, if any, the step shared something with.
Watch(new, shared) ==
  reads' = [r \in Reader |->
    IF new[r].step = "idle" THEN Idle
    ELSE [new[r] EXCEPT
            !.could   = @ \/ \E u \in User, x \in Row :
                             u = new[r].user /\ x = new[r].on /\ CanRead(u, x)',
            !.widened = @ \/ \E u \in User : u = new[r].user /\
                               (u = shared \/ \E x \in Row : CanRead(u, x)' /\ ~CanRead(u, x))]]

\* Every operation on the tree, and the cascade to the shares.  All but
\* GenerateThumbnail, which changes nothing a share or a read depends on.
Surviving(S) == {s \in S : s.on \in DOMAIN folders' \cup DOMAIN files'}

TreeNext ==
  \/ \E d \in SubfolderId, p \in FolderId :
       CreateFolder(d, p, NameOf[d]) \/ PatchFolder(d, p, NameOf[d])
  \/ \E d \in FolderId : TrashFolder(d) \/ RestoreFolder(d) \/ DeleteFolderForever(d)
  \/ \E f \in FileId, d \in FolderId :
       InitiateUpload(f, d, NameOf[f]) \/ PatchFile(f, d, NameOf[f])
  \/ \E f \in FileId :
       \/ CompleteUpload(f) \/ DeletePendingFile(f) \/ TrashFile(f) \/ RestoreFile(f)
       \/ DeleteFileForever(f) \/ CleanupStaleUpload(f)
  \/ \E f \in FileId, cutoff \in Cutoff : PurgeFile(f, cutoff)
  \/ \E d \in FolderId, cutoff \in Cutoff : PurgeFolder(d, cutoff)

ChangeTree ==
  /\ TreeNext
  /\ shares' = Surviving(shares) /\ links' = links \cap DOMAIN files'
  /\ Watch(reads, None)

-----------------------------------------------------------------------------
(* routes/shares.ts: the owner.                                            *)

\* POST /shares; the unique index refuses a second row.
Share(x, u) ==
  /\ x \in DOMAIN folders \cup DOMAIN files /\ ~HasShare(u, x)
  /\ shares' = shares \cup {[on |-> x, to |-> u]}
  /\ UNCHANGED <<vars, links>>
  /\ Watch(reads, u)

\* DELETE /shares/:id, whether the row it is on is in the Bin or not.
Revoke(s) ==
  /\ s \in shares /\ shares' = shares \ {s}
  /\ UNCHANGED <<vars, links>>
  /\ Watch(reads, None)

\* POST /shares/public-link: get or create, and of two that both found none
\* the unique index refuses the later.
CreateLink(f) ==
  /\ f \in DOMAIN files \ links
  /\ links' = links \cup {f}
  /\ UNCHANGED <<vars, shares, reads>>

\* DELETE /shares/public-link/:fileId
DeleteLink(f) ==
  /\ f \in links
  /\ links' = links \ {f}
  /\ UNCHANGED <<vars, shares, reads>>

-----------------------------------------------------------------------------
(* The reads of a recipient.                                               *)

Begin(r, read) ==
  /\ reads[r].step = "idle"
  /\ UNCHANGED <<vars, shares, links>>
  /\ Watch([reads EXCEPT ![r] = read], None)

\* getAccessibleFile (download, thumbnail-url) reads the live row, ...
StartDownload(r, u, f) ==
  /\ LiveFile(f)
  /\ Begin(r, [Idle EXCEPT !.step = "direct", !.user = u, !.on = f, !.folder = files[f].folder])

\* ... looks for a share on the file, ...
FoundDirect(r) == reads[r].step = "direct" /\ HasShare(reads[r].user, reads[r].on)

CheckDirect(r) ==
  /\ reads[r].step = "direct"
  /\ UNCHANGED <<vars, shares, links>>
  /\ Watch([reads EXCEPT ![r] = IF FoundDirect(r) THEN Idle ELSE [@ EXCEPT !.step = "chain"]], None)

\* ... and then for one on the folder it was in, or above it.
FoundAbove(r) == reads[r].step = "chain" /\ SharedAbove(reads[r].user, reads[r].folder)

CheckChain(r) ==
  /\ reads[r].step = "chain"
  /\ UNCHANGED <<vars, shares, links>>
  /\ Watch([reads EXCEPT ![r] = Idle], None)

\* Mutant of StartOpen: a folder in the Bin can be opened.
StartOpenTrashed(r, u, d) ==
  /\ d \in DOMAIN folders
  /\ Begin(r, [Idle EXCEPT !.step = "chain", !.user = u, !.on = d, !.folder = d])

\* getAccessibleFolder (GET /folders/:id)
StartOpen(r, u, d) ==
  /\ LiveFolder(d)
  /\ Begin(r, [Idle EXCEPT !.step = "chain", !.user = u, !.on = d, !.folder = d])

ShareInit ==
  /\ Init /\ folders[Root].name = NameOf[Root]
  /\ shares = {} /\ links = {}
  /\ reads = [r \in Reader |-> Idle]

ShareNext ==
  \/ ChangeTree
  \/ \E x \in Row, u \in User : Share(x, u)
  \/ \E s \in shares : Revoke(s)
  \/ \E f \in FileId : CreateLink(f) \/ DeleteLink(f)
  \/ \E r \in Reader, u \in User, x \in Row : StartDownload(r, u, x) \/ StartOpen(r, u, x)
  \/ \E r \in Reader : CheckDirect(r) \/ CheckChain(r)

ShareSpec == ShareInit /\ [][ShareNext]_shareVars

-----------------------------------------------------------------------------
(* Properties.                                                             *)

\* What a user can read, `shared with me' lists, or can be reached from it
\* by opening folders one at a time (shares.ts:211-214): between the row
\* and a listed share there is no folder the user cannot open.
ReachableFromWithMe ==
  \A u \in User, x \in Row : CanRead(u, x) =>
    \/ x \in WithMe(u)
    \/ LET up == IF x \in DOMAIN files THEN files[x].folder ELSE folders[x].parent
       IN CanOpen(u, up) /\ \E a \in Chain(up) : a \in WithMe(u) /\ \A d \in Chain(up) :
            a \in Chain(d) => CanOpen(u, d)

\* A read is granted only to a user who could read the row at some moment of
\* it.  Its queries look at different moments, so there is one exception:
\* the user was given something else to read meanwhile (the file was moved
\* away and then the folder it had been in was shared).
GrantsAreJustified ==
  \A r \in Reader : FoundDirect(r) \/ FoundAbove(r) => reads[r].could \/ reads[r].widened

\* Nobody but the owner sees a row in the Bin or one below it, by a share on
\* it, by one far above it, or by its public link, although the shares and
\* the link stay where they are and work again after a restore (README
\* "the share row itself survives the whole cycle").
Below(x, d) == IF x \in DOMAIN files THEN d \in Chain(files[x].folder) ELSE d \in Chain(x)

BinIsPrivate ==
  \A d \in DOMAIN folders : TrashedFolder(d) =>
    \A x \in Row : Below(x, d) =>
      /\ \A u \in User : ~CanRead(u, x)
      /\ x \notin Public
=============================================================================
