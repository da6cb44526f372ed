---------------------------- MODULE AssetStorage ----------------------------
(***************************************************************************)
(* Asset storage (server/app/storage): files on disk and rows of the       *)
(* assets table, which no transaction covers together.  A request is       *)
(* POST /assets (an upload), register_output (called by a client or, after *)
(* a render, by the Celery worker), DELETE /assets/{id} or POST /cleanup.  *)
(*                                                                         *)
(* A step is one database statement, one chunk read or written, or one     *)
(* unlink: between them other requests and the worker run.  A session      *)
(* reads committed rows and its changes appear at its commit.  Sizes count *)
(* chunks.  The path and the asset id of an upload are fresh (uuid4), so   *)
(* the request stands for both; a registration stands for the id it makes. *)
(* A path of an output is a string the caller writes: several spellings of *)
(* it ('a.png', './a.png') name one file, but the table compares strings.  *)
(***************************************************************************)
EXTENDS Naturals, FiniteSets

CONSTANTS
  Uploads,        \* POST /assets requests
  Outputs,        \* the files ComfyUI saves
  Spellings,      \* ways to write the path of one of them
  Registrations,  \* register_output calls
  FromWorker,     \* those of the Celery worker
  Deletes,        \* DELETE requests
  Cleanups,       \* callers of POST /cleanup, each one call after the other
  MaxSize,        \* max_upload_size_bytes, in chunks
  MaxFaults,      \* bound on failing awaits and API restarts
  NoPath, NoAsset

Creators == Uploads \cup Registrations
Removers == Deletes \cup Cleanups
Requests == Creators \cup Removers
Files == Uploads \cup Outputs
OutputPaths == Outputs \X Spellings
Paths == Uploads \cup OutputPaths
Rows == [id : Creators, path : Paths, size : 1..MaxSize]

ASSUME RequestsAssumption ==
  /\ Uploads \cap (Outputs \cup OutputPaths \cup Registrations) = {}
  /\ Creators \cap Removers = {} /\ Deletes \cap Cleanups = {}
  /\ FromWorker \subseteq Registrations
  /\ MaxSize \in Nat \ {0} /\ MaxFaults \in Nat
  /\ NoPath \notin OutputPaths /\ NoAsset \notin Creators

VARIABLES
  files,     \* file -> chunks on disk, 0 when there is no file
  rows,      \* the committed rows of the assets table
  aged,      \* uploads older than storage_cleanup_after_days
  pc,        \* request -> where it stands
  size,      \* creator -> size_bytes counted or measured so far
  target,    \* registration -> its relative_path
  answer,    \* registration -> id of the asset it answers with
  selected,  \* remover -> the rows it has read
  unlinked,  \* remover -> those of them whose file it has deleted
  faults

creating == <<size, target, answer>>
removing == <<selected, unlinked>>
vars == <<files, rows, aged, pc, creating, removing, faults>>

Init ==
  /\ files = [f \in Files |-> 0]
  /\ rows = {}
  /\ aged = {}
  /\ pc = [r \in Requests |-> "new"]
  /\ size = [c \in Creators |-> 0]
  /\ target = [r \in Registrations |-> NoPath]
  /\ answer = [r \in Registrations |-> NoAsset]
  /\ selected = [d \in Removers |-> {}]
  /\ unlinked = [d \in Removers |-> {}]
  /\ faults = 0

Move(r, from, to) == pc[r] = from /\ pc' = [pc EXCEPT ![r] = to]

Listed(id) == \E row \in rows : row.id = id

(* The rows whose relative_path is this string. *)
RowsOf(path) == {row \in rows : row.path = path}

(* The file a path names: Path.resolve normalises the spelling. *)
resolve(path) == IF path \in Uploads THEN path ELSE path[1]

-----------------------------------------------------------------------------
(* store_upload.  A bad name or type is refused before anything happens. *)
StartUpload(u) ==
  /\ \E next \in {"read", "failed"} : Move(u, "new", next)
  /\ UNCHANGED <<files, rows, aged, creating, removing, faults>>

(* Variant: the limit is checked one chunk late. *)
validate_size_late(n) == n > 0 /\ n <= MaxSize + 1

validate_size(n) == n > 0 /\ n <= MaxSize

(* A chunk is counted and checked before it is written; at the end the      *)
(* whole size is checked again, which refuses an empty file.                *)
ReadChunk(u) ==
  /\ \/ /\ size' = [size EXCEPT ![u] = @ + 1]
        /\ Move(u, "read", IF validate_size(size[u] + 1) THEN "write" ELSE "undo")
     \/ /\ UNCHANGED size
        /\ Move(u, "read", IF validate_size(size[u]) THEN "commit" ELSE "undo")
  /\ UNCHANGED <<files, rows, aged, target, answer, removing, faults>>

WriteChunk(u) ==
  /\ Move(u, "write", "read")
  /\ files' = [files EXCEPT ![u] = @ + 1]
  /\ UNCHANGED <<rows, aged, creating, removing, faults>>

CommitUpload(u) ==
  /\ Move(u, "commit", "refresh")
  /\ rows' = rows \cup {[id |-> u, path |-> u, size |-> size[u]]}
  /\ UNCHANGED <<files, aged, creating, removing, faults>>

(* Variant: the file is removed on the way out of a success, too. *)
RefreshUploadThenUndo(u) ==
  /\ Move(u, "refresh", "undo")
  /\ UNCHANGED <<files, rows, aged, creating, removing, faults>>

(* refresh reads the row back and raises when somebody has deleted it. *)
RefreshUpload(u) ==
  /\ Move(u, "refresh", IF Listed(u) THEN "done" ELSE "undo")
  /\ UNCHANGED <<files, rows, aged, creating, removing, faults>>

(* Variant: rollback without deleting the file. *)
UndoRollbackOnly(u) ==
  /\ Move(u, "undo", "failed")
  /\ UNCHANGED <<files, rows, aged, creating, removing, faults>>

(* except: rollback, which undoes no commit, and delete the file. *)
Undo(u) ==
  /\ Move(u, "undo", "failed")
  /\ files' = [files EXCEPT ![u] = 0]
  /\ UNCHANGED <<rows, aged, creating, removing, faults>>

Upload(u) == ReadChunk(u) \/ WriteChunk(u) \/ CommitUpload(u) \/ RefreshUpload(u) \/ Undo(u)

-----------------------------------------------------------------------------
(* register_output *)
RequireFile(r, p) ==
  /\ Move(r, "new", IF files[resolve(p)] = 0 THEN "failed" ELSE "lookup")
  /\ target' = [target EXCEPT ![r] = p]
  /\ UNCHANGED <<files, rows, aged, size, answer, removing, faults>>

(* An asset with the very same path is the answer; otherwise the file is    *)
(* measured.                                                                *)
LookUp(r) ==
  /\ \/ \E row \in RowsOf(target[r]) :
          /\ Move(r, "lookup", "done")
          /\ answer' = [answer EXCEPT ![r] = row.id]
     \/ /\ RowsOf(target[r]) = {}
        /\ Move(r, "lookup", "measure")
        /\ UNCHANGED answer
  /\ UNCHANGED <<files, rows, aged, size, target, removing, faults>>

(* Checksum and stat raise when the file is gone by now. *)
Measure(r) ==
  /\ Move(r, "measure", IF files[resolve(target[r])] = 0 THEN "failed" ELSE "commit")
  /\ size' = [size EXCEPT ![r] = files[resolve(target[r])]]
  /\ UNCHANGED <<files, rows, aged, target, answer, removing, faults>>

OutputRow(r) == [id |-> r, path |-> target[r], size |-> size[r]]

(* Variant: no unique constraint on relative_path. *)
CommitOutputUnconstrained(r) ==
  /\ Move(r, "commit", "refresh")
  /\ rows' = rows \cup {OutputRow(r)}
  /\ UNCHANGED <<files, aged, creating, removing, faults>>

(* The unique constraint on relative_path raises IntegrityError; another    *)
(* spelling of the same file passes it.                                     *)
CommitOutput(r) ==
  /\ \/ /\ RowsOf(target[r]) = {}
        /\ Move(r, "commit", "refresh")
        /\ rows' = rows \cup {OutputRow(r)}
     \/ /\ RowsOf(target[r]) # {}
        /\ Move(r, "commit", "failed")
        /\ UNCHANGED rows
  /\ UNCHANGED <<files, aged, creating, removing, faults>>

RefreshOutput(r) ==
  /\ Move(r, "refresh", IF Listed(r) THEN "done" ELSE "failed")
  /\ answer' = IF Listed(r) THEN [answer EXCEPT ![r] = r] ELSE answer
  /\ UNCHANGED <<files, rows, aged, size, target, removing, faults>>

Register(r) == LookUp(r) \/ Measure(r) \/ CommitOutput(r) \/ RefreshOutput(r)

-----------------------------------------------------------------------------
(* delete_asset and cleanup_expired_uploads: read rows, delete their files  *)
(* one by one (a missing file is no error), commit the deletion of all.     *)
Select(d, chosen) ==
  /\ selected' = [selected EXCEPT ![d] = chosen]
  /\ unlinked' = [unlinked EXCEPT ![d] = {}]
  /\ pc' = [pc EXCEPT ![d] = "unlink"]
  /\ UNCHANGED <<files, rows, aged, creating, faults>>

RequireAsset(d) == pc[d] = "new" /\ \E row \in rows : Select(d, {row})

SelectExpired(c) ==
  /\ pc[c] # "unlink"
  /\ Select(c, {row \in rows : row.id \in aged})

(* Variant: an asset whose file is missing already is passed over. *)
UnlinkExisting(d) ==
  /\ pc[d] = "unlink"
  /\ \E row \in selected[d] \ unlinked[d] :
       /\ unlinked' = IF files[resolve(row.path)] = 0 THEN unlinked
                      ELSE [unlinked EXCEPT ![d] = @ \cup {row}]
       /\ selected' = IF files[resolve(row.path)] = 0 THEN [selected EXCEPT ![d] = @ \ {row}]
                      ELSE selected
       /\ files' = [files EXCEPT ![resolve(row.path)] = 0]
  /\ UNCHANGED <<rows, aged, pc, creating, faults>>

Unlink(d) ==
  /\ pc[d] = "unlink"
  /\ \E row \in selected[d] \ unlinked[d] :
       /\ files' = [files EXCEPT ![resolve(row.path)] = 0]
       /\ unlinked' = [unlinked EXCEPT ![d] = @ \cup {row}]
  /\ UNCHANGED <<rows, aged, pc, selected, creating, faults>>

(* Variant: the rows go before all files are gone. *)
CommitRemovalEarly(d) ==
  /\ Move(d, "unlink", "done")
  /\ rows' = rows \ selected[d]
  /\ UNCHANGED <<files, aged, creating, removing, faults>>

(* Deleting a row that is gone already is no error. *)
CommitRemoval(d) ==
  /\ unlinked[d] = selected[d]
  /\ Move(d, "unlink", "done")
  /\ rows' = rows \ selected[d]
  /\ UNCHANGED <<files, aged, creating, removing, faults>>

Remove(d) == Unlink(d) \/ CommitRemoval(d)

-----------------------------------------------------------------------------
(* ComfyUI saves an output; it takes the name of a deleted file again. *)
Rendered(p) ==
  /\ files[p] = 0
  /\ files' = [files EXCEPT ![p] = 1]
  /\ UNCHANGED <<rows, aged, pc, creating, removing, faults>>

(* created_at falls behind the cutoff of the cleanup. *)
Age(u) ==
  /\ Listed(u) /\ u \notin aged
  /\ aged' = aged \cup {u}
  /\ UNCHANGED <<files, rows, pc, creating, removing, faults>>

Active(r) == pc[r] \notin {"new", "done", "failed", "gone"}

(* An await raises: a locked or lost database, a full disk, a file in use.  *)
(* An upload runs its except clause, which may raise itself; every other    *)
(* session just ends without its commit.                                    *)
Raise(r) ==
  /\ Active(r)
  /\ faults < MaxFaults
  /\ faults' = faults + 1
  /\ pc' = [pc EXCEPT ![r] = IF r \in Uploads /\ pc[r] # "undo" THEN "undo" ELSE "failed"]
  /\ UNCHANGED <<files, rows, aged, creating, removing>>

(* The API restarts; the worker goes on. *)
ApiRestart ==
  /\ faults < MaxFaults
  /\ faults' = faults + 1
  /\ pc' = [r \in Requests |-> IF Active(r) /\ r \notin FromWorker THEN "gone" ELSE pc[r]]
  /\ UNCHANGED <<files, rows, aged, creating, removing>>

-----------------------------------------------------------------------------
Next ==
  \/ \E u \in Uploads : StartUpload(u) \/ Upload(u) \/ Age(u)
  \/ \E r \in Registrations : Register(r) \/ \E p \in OutputPaths : RequireFile(r, p)
  \/ \E d \in Deletes : RequireAsset(d)
  \/ \E c \in Cleanups : SelectExpired(c)
  \/ \E d \in Removers : Remove(d)
  \/ \E p \in Outputs : Rendered(p)
  \/ \E r \in Requests : Raise(r)
  \/ ApiRestart

Spec == Init /\ [][Next]_vars

(* A request that has started goes on; nobody is obliged to send one. *)
Fairness ==
  /\ \A u \in Uploads : WF_vars(Upload(u))
  /\ \A r \in Registrations : WF_vars(Register(r))
  /\ \A d \in Removers : WF_vars(Remove(d))

FairSpec == Spec /\ Fairness

-----------------------------------------------------------------------------
(* Types; with them the size limit: no upload, accepted or refused, ever    *)
(* takes more than MaxSize on disk (the check before the write).            *)
TypeOK ==
  /\ files \in [Files -> 0..MaxSize]
  /\ rows \subseteq Rows
  /\ aged \subseteq Uploads
  /\ pc \in [Requests -> {"new", "read", "write", "commit", "refresh", "undo", "lookup",
                          "measure", "unlink", "done", "failed", "gone"}]
  /\ size \in [Creators -> 0..MaxSize + 1]
  /\ target \in [Registrations -> OutputPaths \cup {NoPath}]
  /\ answer \in [Registrations -> Creators \cup {NoAsset}]
  /\ \A d \in Removers : selected[d] \subseteq Rows /\ unlinked[d] \subseteq selected[d]
  /\ faults \in 0..MaxFaults

(* Without failures a listed asset can be downloaded, whole, unless its     *)
(* removal is under way: the row is written last, the file removed first.   *)
(* Only an output may lose its file otherwise, when another asset of the    *)
(* same file was deleted: one registered before it, with the deletion still *)
(* under way, or one registered with another spelling of the path.          *)
RowHasFile ==
  faults = 0 =>
    \A row \in rows :
      \/ files[resolve(row.path)] = row.size
      \/ \E d \in Removers : pc[d] = "unlink" /\ row \in unlinked[d]
      \/ /\ row.id \in Registrations
         /\ \E d \in Removers : \E other \in unlinked[d] :
              resolve(other.path) = resolve(row.path) /\ other.id # row.id

(* A file under uploads that no row knows belongs to an upload under way,   *)
(* or to one whose own failure was not undone (a restart, a rollback that   *)
(* raised): a removal, even one that fails half-way, leaves none.           *)
NoOrphanUpload ==
  \A u \in Uploads : files[u] > 0 /\ ~Listed(u) =>
    \/ pc[u] \in {"read", "write", "commit", "undo"}
    \/ pc[u] \in {"failed", "gone"} /\ faults > 0

(* After a delete or a cleanup has answered, the rows it read are gone and  *)
(* stay gone, and so do the files of uploads, however removals overlap with *)
(* each other and with the end of the upload.                               *)
RemovedIsGone ==
  \A d \in Removers : pc[d] = "done" =>
    \A row \in selected[d] : row \notin rows /\ (row.id \in Uploads => files[resolve(row.path)] = 0)

(* Registering the same relative_path twice, by the worker and a client     *)
(* say, gives one asset: two successful answers name the same one unless    *)
(* the asset was deleted in between (look-up, then the unique constraint).  *)
(* The promise is about the string: two spellings of a file make two.       *)
SameAsset ==
  \A r, s \in Registrations :
    /\ pc[r] = "done" /\ pc[s] = "done" /\ target[r] = target[s]
    /\ \A d \in Removers : \A row \in selected[d] : row.path # target[r]
    => answer[r] = answer[s]

(* Cleanup repairs what failed removals and uploads left: if it is called   *)
(* again and again, every expired upload finally has neither row nor file.  *)
ExpiredUploadsGo ==
  []<>(\E c \in Cleanups : pc[c] = "unlink") =>
    \A u \in Uploads : u \in aged ~> ~Listed(u) /\ files[u] = 0
=============================================================================
