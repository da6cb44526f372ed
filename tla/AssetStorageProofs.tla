--------------------------- MODULE AssetStorageProofs ---------------------------
(***************************************************************************)
(* Theorems about AssetStorage, for any uploads, outputs and requests and  *)
(* any number of failures.                                                 *)
(***************************************************************************)
EXTENDS AssetStorage, TLAPS

(* Every path names a file, and no output's path one under uploads.         *)
LEMMA Resolved ==
  /\ \A u \in Uploads : resolve(u) = u
  /\ \A p \in OutputPaths : p \notin Uploads /\ resolve(p) \in Outputs /\ resolve(p) \notin Uploads
  /\ \A p \in Paths : resolve(p) \in Files
BY RequestsAssumption DEF resolve, OutputPaths, Paths, Files

Post == {"refresh", "undo", "done", "failed", "gone"}

(* What an upload has counted is what it has written, up to the chunk in    *)
(* its hands.                                                               *)
UploadsAreSound ==
  \A u \in Uploads :
    /\ pc[u] \in {"new", "read", "write", "commit"} \cup Post
    /\ pc[u] = "new" => files[u] = 0 /\ size[u] = 0
    /\ pc[u] = "read" => files[u] = size[u]
    /\ pc[u] = "write" => files[u] + 1 = size[u] /\ size[u] <= MaxSize
    /\ pc[u] = "commit" => files[u] = size[u] /\ size[u] > 0

RegistrationsAreSound ==
  \A r \in Registrations :
    /\ pc[r] \in {"new", "lookup", "measure", "commit", "refresh", "done", "failed", "gone"}
    /\ pc[r] \in {"lookup", "measure", "commit", "refresh", "done"} => target[r] \in OutputPaths
    /\ pc[r] = "commit" => size[r] \in 1..MaxSize

(* A row that was ever read comes from a request that has committed it, and *)
(* will not commit again.                                                   *)
Committed(row) ==
  /\ pc[row.id] \in Post
  /\ row.size = size[row.id]
  /\ row.id \in Uploads => row.path = row.id
  /\ row.id \in Registrations => row.path = target[row.id] /\ row.path \in OutputPaths

RowsAreSound ==
  /\ \A row \in rows : Committed(row)
  /\ \A d \in Removers : \A row \in selected[d] : Committed(row)
  /\ \A row, other \in rows : row.path = other.path => row = other

RemovalsAreSound ==
  \A d \in Removers :
    /\ pc[d] \in {"new", "unlink", "done", "failed", "gone"}
    /\ pc[d] = "new" => selected[d] = {}
    /\ d \in Cleanups => \A row \in selected[d] : row.id \in Uploads
    /\ \A row \in unlinked[d] : row.id \in Uploads => files[resolve(row.path)] = 0
    /\ pc[d] = "done" => unlinked[d] = selected[d] /\ selected[d] \cap rows = {}

(* What an answer names is listed, or somebody has selected it to delete.   *)
AnswersAreSound ==
  \A r \in Registrations : pc[r] = "done" =>
    \/ \E row \in rows : row.id = answer[r] /\ row.path = target[r]
    \/ \E d \in Deletes : \E row \in selected[d] : row.path = target[r]

Shape ==
  /\ selected \in [Removers -> SUBSET Rows]
  /\ unlinked \in [Removers -> SUBSET Rows]

StorageInv ==
  /\ TypeOK /\ Shape
  /\ UploadsAreSound /\ RegistrationsAreSound /\ RowsAreSound /\ RemovalsAreSound

(* The file has been deleted as the file of another asset. *)
Shadowed(r) ==
  \E d \in Removers : \E other \in unlinked[d] :
    resolve(other.path) = resolve(target[r]) /\ other.id # r

(* Without failures: a row has its file but for a removal of this file, and *)
(* a registration about to commit will have one.                            *)
FilesAreSound ==
  faults = 0 =>
    /\ \A u \in Uploads : pc[u] = "undo" => ~Listed(u)
    /\ \A r \in Registrations : pc[r] = "commit" =>
         files[resolve(target[r])] = size[r] \/ Shadowed(r)
    /\ \A row \in rows :
         \/ files[resolve(row.path)] = row.size
         \/ \E d \in Removers : pc[d] = "unlink" /\ row \in unlinked[d]
         \/ row.id \in Registrations /\ Shadowed(row.id)

-----------------------------------------------------------------------------
(* A request that has committed is over but for its refresh; its row keeps  *)
(* what it says.                                                            *)
CreatorsGoOn ==
  \A c \in Creators :
    /\ pc[c] \in Post => pc'[c] \in Post /\ size'[c] = size[c]
    /\ c \in Registrations /\ pc[c] \in Post => target'[c] = target[c]

LEMMA CommittedStays ==
  ASSUME StorageInv, CreatorsGoOn, NEW row \in Rows, Committed(row)
  PROVE  Committed(row)'
BY DEF CreatorsGoOn, Committed, Rows, Creators

LEMMA RowsStay ==
  ASSUME StorageInv, CreatorsGoOn, rows' \subseteq rows,
         \A d \in Removers : selected'[d] \subseteq selected[d] \cup rows
  PROVE  RowsAreSound'
<1>1. \A row \in rows : row \in Rows /\ Committed(row)'
  BY CommittedStays DEF StorageInv, TypeOK, RowsAreSound
<1>2. \A d \in Removers : \A row \in selected[d] : Committed(row)'
  <2> TAKE d \in Removers
  <2> TAKE row \in selected[d]
  <2>1. row \in Rows /\ Committed(row)
    BY DEF StorageInv, TypeOK, RowsAreSound
  <2> QED
    BY <2>1, CommittedStays
<1> QED
  BY <1>1, <1>2 DEF StorageInv, RowsAreSound

(* What removals have done stays done when others take a step.              *)
LEMMA RemovalsStay ==
  ASSUME StorageInv, UNCHANGED removing,
         \A d \in Removers : pc'[d] = pc[d] \/ pc'[d] \in {"failed", "gone"},
         \A u \in Uploads : pc[u] \in Post /\ files[u] = 0 => files'[u] = 0,
         \A d \in Removers : selected[d] \cap rows' \subseteq rows
  PROVE  RemovalsAreSound'
<1> SUFFICES ASSUME NEW d \in Removers
             PROVE  /\ pc'[d] \in {"new", "unlink", "done", "failed", "gone"}
                    /\ pc'[d] = "new" => selected[d] = {}
                    /\ d \in Cleanups => \A row \in selected[d] : row.id \in Uploads
                    /\ \A row \in unlinked[d] : row.id \in Uploads => files'[resolve(row.path)] = 0
                    /\ pc'[d] = "done" => unlinked[d] = selected[d] /\ selected[d] \cap rows' = {}
  BY DEF RemovalsAreSound, removing
<1>1. \A row \in unlinked[d] : row.id \in Uploads => files'[resolve(row.path)] = 0
  <2> SUFFICES ASSUME NEW row \in unlinked[d], row.id \in Uploads
               PROVE  files'[resolve(row.path)] = 0
    OBVIOUS
  <2>1. Committed(row)
    BY DEF StorageInv, TypeOK, RowsAreSound
  <2>2. pc[row.id] \in Post /\ row.path = row.id
    BY <2>1 DEF Committed
  <2>3. files[resolve(row.path)] = 0
    BY DEF StorageInv, RemovalsAreSound
  <2> QED
    BY Resolved, <2>2, <2>3 DEF Files
<1> QED
  BY <1>1 DEF StorageInv, RemovalsAreSound

(* The invariant holds at the start. *)
LEMMA InitInv ==
  ASSUME Init
  PROVE  StorageInv
<1> USE RequestsAssumption DEF Init, Requests, Creators, Removers
<1>1. TypeOK
  BY DEF TypeOK, Paths
<1>2. Shape
  BY DEF Shape
<1>3. UploadsAreSound /\ RegistrationsAreSound
  BY Resolved DEF UploadsAreSound, RegistrationsAreSound, Paths, Files
<1>4. RowsAreSound /\ RemovalsAreSound
  BY DEF RowsAreSound, RemovalsAreSound
<1> QED
  BY <1>1, <1>2, <1>3, <1>4 DEF StorageInv

(* Each step of an upload preserves the invariant. *)
LEMMA UploadInv ==
  ASSUME StorageInv, NEW u \in Uploads, StartUpload(u) \/ Upload(u)
  PROVE  StorageInv'
<1> USE RequestsAssumption DEF StorageInv, Requests, Creators, Removers, creating, removing, Move
<1>1. u \in Paths /\ pc[u] \in {"new", "read", "write", "commit"} \cup Post
  BY DEF Paths, UploadsAreSound
<1>2. CASE StartUpload(u)
  <2> USE <1>2 DEF StartUpload
  <2>1. TypeOK' /\ Shape'
    BY DEF TypeOK, Shape
  <2>2. UploadsAreSound' /\ RegistrationsAreSound'
    BY DEF TypeOK, UploadsAreSound, RegistrationsAreSound, Post
  <2>3. RowsAreSound'
    BY RowsStay DEF CreatorsGoOn, TypeOK, Post
  <2>4. RemovalsAreSound'
    BY RemovalsStay DEF TypeOK
  <2> QED
    BY <2>1, <2>2, <2>3, <2>4
<1>3. CASE ReadChunk(u)
  <2> USE <1>3 DEF ReadChunk, validate_size
  <2>0. size[u] \in 0..MaxSize /\ files[u] = size[u]
    BY Resolved, <1>1 DEF TypeOK, UploadsAreSound, Files
  <2>1. TypeOK' /\ Shape'
    BY <2>0 DEF TypeOK, Shape
  <2>2. UploadsAreSound' /\ RegistrationsAreSound'
    BY <2>0 DEF TypeOK, UploadsAreSound, RegistrationsAreSound, Post
  <2>3. RowsAreSound'
    BY RowsStay DEF CreatorsGoOn, TypeOK, Post
  <2>4. RemovalsAreSound'
    BY RemovalsStay DEF TypeOK
  <2> QED
    BY <2>1, <2>2, <2>3, <2>4
<1>4. CASE WriteChunk(u)
  <2> USE <1>4 DEF WriteChunk
  <2>0. files[u] + 1 = size[u] /\ size[u] <= MaxSize
    BY DEF UploadsAreSound
  <2>1. TypeOK' /\ Shape'
    BY Resolved, <1>1, <2>0 DEF TypeOK, Shape, Files
  <2>2. UploadsAreSound' /\ RegistrationsAreSound'
    BY Resolved, <1>1, <2>0 DEF TypeOK, UploadsAreSound, RegistrationsAreSound, Post, Paths, Files
  <2>3. RowsAreSound'
    BY RowsStay DEF CreatorsGoOn, TypeOK, Post
  <2>4. RemovalsAreSound'
    BY RemovalsStay DEF TypeOK, Paths, Post
  <2> QED
    BY <2>1, <2>2, <2>3, <2>4
<1>5. CASE CommitUpload(u)
  <2> DEFINE new == [id |-> u, path |-> u, size |-> size[u]]
  <2> USE <1>5 DEF CommitUpload
  <2>0. size[u] \in 1..MaxSize
    BY Resolved, <1>1 DEF TypeOK, UploadsAreSound, Files
  <2>1. new \in Rows
    BY <1>1, <2>0 DEF Rows
  <2>2. \A row \in Rows : Committed(row) => row.id # u
    BY DEF Committed, Post
  <2>3. TypeOK' /\ Shape'
    BY <2>1 DEF TypeOK, Shape
  <2>4. UploadsAreSound' /\ RegistrationsAreSound'
    BY <1>1 DEF TypeOK, UploadsAreSound, RegistrationsAreSound, Post
  <2>5. CreatorsGoOn
    BY DEF CreatorsGoOn, TypeOK, Post
  <2>6. RowsAreSound'
    <3>1. \A row \in Rows : Committed(row) => Committed(row)'
      BY <2>5, CommittedStays
    <3>2. Committed(new)'
      BY DEF Committed, Post, TypeOK
    <3>3. \A row \in rows : row.path # u
      BY <2>2 DEF RowsAreSound, TypeOK, Committed, Rows
    <3> QED
      BY <3>1, <3>2, <3>3 DEF RowsAreSound, TypeOK
  <2>7. \A d \in Removers : new \notin selected[d]
    BY <2>1, <2>2 DEF RowsAreSound
  <2>8. RemovalsAreSound'
    BY <2>7, RemovalsStay DEF TypeOK
  <2> QED
    BY <2>3, <2>4, <2>6, <2>8
<1>6. CASE RefreshUpload(u)
  <2> USE <1>6 DEF RefreshUpload
  <2>1. TypeOK' /\ Shape'
    BY DEF TypeOK, Shape
  <2>2. UploadsAreSound' /\ RegistrationsAreSound'
    BY DEF TypeOK, UploadsAreSound, RegistrationsAreSound, Post
  <2>3. RowsAreSound'
    BY RowsStay DEF CreatorsGoOn, TypeOK, Post
  <2>4. RemovalsAreSound'
    BY RemovalsStay DEF TypeOK
  <2> QED
    BY <2>1, <2>2, <2>3, <2>4
<1>7. CASE Undo(u)
  <2> USE <1>7 DEF Undo
  <2>1. TypeOK' /\ Shape'
    BY Resolved, <1>1 DEF TypeOK, Shape, Files
  <2>2. UploadsAreSound' /\ RegistrationsAreSound'
    BY <1>1 DEF TypeOK, UploadsAreSound, RegistrationsAreSound, Post, Paths
  <2>3. RowsAreSound'
    BY RowsStay DEF CreatorsGoOn, TypeOK, Post
  <2>4. RemovalsAreSound'
    BY RemovalsStay DEF TypeOK, Paths
  <2> QED
    BY <2>1, <2>2, <2>3, <2>4
<1> QED
  BY <1>2, <1>3, <1>4, <1>5, <1>6, <1>7 DEF Upload

(* So does each step of a registration. *)
LEMMA RegisterInv ==
  ASSUME StorageInv, NEW r \in Registrations,
         Register(r) \/ \E p \in OutputPaths : RequireFile(r, p)
  PROVE  StorageInv'
<1> USE RequestsAssumption DEF StorageInv, Requests, Creators, Removers, creating, removing, Move
<1>1. CASE \E p \in OutputPaths : RequireFile(r, p)
  <2> PICK p \in OutputPaths : RequireFile(r, p)
    BY <1>1
  <2> USE DEF RequireFile
  <2>1. TypeOK' /\ Shape'
    BY DEF TypeOK, Shape
  <2>2. UploadsAreSound' /\ RegistrationsAreSound'
    BY DEF TypeOK, UploadsAreSound, RegistrationsAreSound
  <2>3. RowsAreSound'
    BY RowsStay DEF CreatorsGoOn, TypeOK, Post
  <2>4. RemovalsAreSound'
    BY RemovalsStay DEF TypeOK
  <2> QED
    BY <2>1, <2>2, <2>3, <2>4
<1>2. CASE LookUp(r)
  <2> USE <1>2 DEF LookUp, RowsOf
  <2>1. TypeOK' /\ Shape'
    <3>1. \A row \in rows : row.id \in Creators
      BY DEF TypeOK, Rows
    <3>2. answer' \in [Registrations -> Creators \cup {NoAsset}]
      BY <3>1 DEF TypeOK
    <3> QED
      BY <3>2 DEF TypeOK, Shape
  <2>2. UploadsAreSound' /\ RegistrationsAreSound'
    BY DEF TypeOK, UploadsAreSound, RegistrationsAreSound
  <2>3. RowsAreSound'
    BY RowsStay DEF CreatorsGoOn, TypeOK, Post
  <2>4. RemovalsAreSound'
    BY RemovalsStay DEF TypeOK
  <2> QED
    BY <2>1, <2>2, <2>3, <2>4
<1>3. CASE Measure(r)
  <2> USE <1>3 DEF Measure
  <2>0. target[r] \in Paths /\ files[resolve(target[r])] \in 0..MaxSize
    BY Resolved DEF RegistrationsAreSound, Paths, TypeOK, Files
  <2>1. TypeOK' /\ Shape'
    BY <2>0 DEF TypeOK, Shape
  <2>2. UploadsAreSound' /\ RegistrationsAreSound'
    BY <2>0 DEF TypeOK, UploadsAreSound, RegistrationsAreSound
  <2>3. RowsAreSound'
    BY RowsStay DEF CreatorsGoOn, TypeOK, Post
  <2>4. RemovalsAreSound'
    BY RemovalsStay DEF TypeOK
  <2> QED
    BY <2>1, <2>2, <2>3, <2>4
<1>4. CASE CommitOutput(r)
  <2> USE <1>4 DEF CommitOutput
  <2>0. target[r] \in OutputPaths /\ size[r] \in 1..MaxSize
    BY DEF RegistrationsAreSound
  <2>1. OutputRow(r) \in Rows
    BY <2>0 DEF Rows, OutputRow, Paths
  <2>2. \A row \in Rows : Committed(row) => row.id # r
    BY DEF Committed, Post
  <2>3. TypeOK' /\ Shape'
    BY <2>1 DEF TypeOK, Shape
  <2>4. UploadsAreSound' /\ RegistrationsAreSound'
    BY DEF TypeOK, UploadsAreSound, RegistrationsAreSound
  <2>5. CreatorsGoOn
    BY DEF CreatorsGoOn, TypeOK, Post
  <2>6. RowsAreSound'
    <3>1. \A row \in Rows : Committed(row) => Committed(row)'
      BY <2>5, CommittedStays
    <3>2. CASE UNCHANGED rows
      BY <3>1, <3>2 DEF RowsAreSound, TypeOK
    <3>3. CASE rows' = rows \cup {OutputRow(r)} /\ RowsOf(target[r]) = {} /\ pc'[r] = "refresh"
      <4>1. Committed(OutputRow(r))'
        BY <3>3, <2>0 DEF Committed, Post, TypeOK, OutputRow
      <4>2. \A row \in rows : row.path # target[r]
        BY <3>3 DEF RowsOf
      <4> QED
        BY <3>1, <3>3, <4>1, <4>2 DEF RowsAreSound, TypeOK, OutputRow
    <3> QED
      BY <3>2, <3>3 DEF TypeOK
  <2>7. \A d \in Removers : OutputRow(r) \notin selected[d]
    BY <2>1, <2>2 DEF RowsAreSound, OutputRow
  <2>8. RemovalsAreSound'
    BY <2>7, RemovalsStay DEF TypeOK
  <2> QED
    BY <2>3, <2>4, <2>6, <2>8
<1>5. CASE RefreshOutput(r)
  <2> USE <1>5 DEF RefreshOutput
  <2>1. TypeOK' /\ Shape'
    BY DEF TypeOK, Shape
  <2>2. UploadsAreSound' /\ RegistrationsAreSound'
    BY DEF TypeOK, UploadsAreSound, RegistrationsAreSound
  <2>3. RowsAreSound'
    BY RowsStay DEF CreatorsGoOn, TypeOK, Post
  <2>4. RemovalsAreSound'
    BY RemovalsStay DEF TypeOK
  <2> QED
    BY <2>1, <2>2, <2>3, <2>4
<1> QED
  BY <1>1, <1>2, <1>3, <1>4, <1>5 DEF Register

(* A removal reads rows and deletes what they name. *)
LEMMA SelectInv ==
  ASSUME StorageInv, NEW d \in Removers, pc[d] # "unlink",
         NEW chosen \in SUBSET rows, Select(d, chosen),
         d \in Cleanups => \A row \in chosen : row.id \in Uploads
  PROVE  StorageInv'
<1> USE RequestsAssumption DEF StorageInv, Requests, Creators, Removers, creating, Select
<1>1. chosen \subseteq Rows
  BY DEF TypeOK
<1>2. TypeOK' /\ Shape'
  BY <1>1 DEF TypeOK, Shape
<1>3. UploadsAreSound' /\ RegistrationsAreSound'
  BY DEF TypeOK, UploadsAreSound, RegistrationsAreSound
<1>4. RowsAreSound'
  BY RowsStay DEF CreatorsGoOn, TypeOK, Shape
<1>5. RemovalsAreSound'
  BY DEF TypeOK, Shape, RemovalsAreSound
<1> QED
  BY <1>2, <1>3, <1>4, <1>5

LEMMA RemoveInv ==
  ASSUME StorageInv, NEW d \in Removers, Remove(d)
  PROVE  StorageInv'
<1> USE RequestsAssumption DEF StorageInv, Requests, Creators, Removers, creating, removing, Move
<1>1. CASE Unlink(d)
  <2> PICK row \in selected[d] \ unlinked[d] :
           /\ files' = [files EXCEPT ![resolve(row.path)] = 0]
           /\ unlinked' = [unlinked EXCEPT ![d] = @ \cup {row}]
    BY <1>1 DEF Unlink
  <2> USE <1>1 DEF Unlink
  <2>1. row \in Rows /\ row.path \in Paths /\ Committed(row)
    BY DEF TypeOK, Rows, RowsAreSound
  <2>2. row.path \in Uploads => pc[row.path] \in Post
    BY <2>1 DEF Rows, Committed
  <2>3. TypeOK' /\ Shape'
    <3>1. files' \in [Files -> 0..MaxSize]
      BY Resolved, <2>1 DEF TypeOK, Files
    <3>2. unlinked' \in [Removers -> SUBSET Rows]
      BY <2>1 DEF Shape
    <3>3. \A e \in Removers : selected[e] \subseteq Rows /\ unlinked'[e] \subseteq selected[e]
      BY DEF TypeOK, Shape
    <3> QED
      BY <3>1, <3>2, <3>3 DEF TypeOK, Shape
  <2>4. UploadsAreSound' /\ RegistrationsAreSound'
    BY Resolved, <2>1, <2>2 DEF TypeOK, UploadsAreSound, RegistrationsAreSound, Post, Paths, Files
  <2>5. RowsAreSound'
    BY RowsStay DEF CreatorsGoOn
  <2>6. RemovalsAreSound'
    <3>1. \A p \in Paths : files[p] = 0 => files'[p] = 0
      BY DEF TypeOK
    <3>2. files'[resolve(row.path)] = 0
      BY Resolved, <2>1 DEF TypeOK, Files
    <3>3. \A e \in Removers : \A other \in unlinked[e] : other.path \in Paths
      BY DEF TypeOK, Rows
    <3>4. \A e \in Removers : e # d => unlinked'[e] = unlinked[e]
      BY DEF Shape
    <3>5. unlinked'[d] = unlinked[d] \cup {row} /\ pc[d] = "unlink"
      BY DEF Shape
    <3>6. \A e \in Removers : \A other \in unlinked'[e] :
            other.id \in Uploads => files'[resolve(other.path)] = 0
      BY <3>1, <3>2, <3>3, <3>4, <3>5 DEF RemovalsAreSound
    <3> QED
      BY <3>4, <3>5, <3>6 DEF RemovalsAreSound
  <2> QED
    BY <2>3, <2>4, <2>5, <2>6
<1>2. CASE CommitRemoval(d)
  <2> USE <1>2 DEF CommitRemoval
  <2>1. TypeOK' /\ Shape'
    BY DEF TypeOK, Shape
  <2>2. UploadsAreSound' /\ RegistrationsAreSound'
    BY DEF TypeOK, UploadsAreSound, RegistrationsAreSound
  <2>3. RowsAreSound'
    BY RowsStay DEF CreatorsGoOn, TypeOK
  <2>4. RemovalsAreSound'
    BY DEF TypeOK, RemovalsAreSound
  <2> QED
    BY <2>1, <2>2, <2>3, <2>4
<1> QED
  BY <1>1, <1>2 DEF Remove

(* Failures end a request or send an upload to its except clause. *)
LEMMA FailureInv ==
  ASSUME StorageInv, ApiRestart \/ \E r \in Requests : Raise(r)
  PROVE  StorageInv'
<1> USE RequestsAssumption DEF StorageInv, Requests, Creators, Removers, creating, removing, Active
<1>1. CASE ApiRestart
  <2> USE <1>1 DEF ApiRestart
  <2>1. TypeOK' /\ Shape'
    BY DEF TypeOK, Shape
  <2>2. UploadsAreSound' /\ RegistrationsAreSound'
    BY DEF TypeOK, UploadsAreSound, RegistrationsAreSound, Post
  <2>3. RowsAreSound'
    BY RowsStay DEF CreatorsGoOn, TypeOK, Post
  <2>4. RemovalsAreSound'
    BY RemovalsStay DEF TypeOK
  <2> QED
    BY <2>1, <2>2, <2>3, <2>4
<1>2. CASE \E r \in Requests : Raise(r)
  <2> PICK r \in Requests : Raise(r)
    BY <1>2
  <2> USE DEF Raise
  <2>1. TypeOK' /\ Shape'
    BY DEF TypeOK, Shape
  <2>2. UploadsAreSound' /\ RegistrationsAreSound'
    BY DEF TypeOK, UploadsAreSound, RegistrationsAreSound, Post
  <2>3. RowsAreSound'
    BY RowsStay DEF CreatorsGoOn, TypeOK, Post
  <2>4. RemovalsAreSound'
    BY RemovalsStay DEF TypeOK
  <2> QED
    BY <2>1, <2>2, <2>3, <2>4
<1> QED
  BY <1>1, <1>2

LEMMA NextInv ==
  ASSUME StorageInv, [Next]_vars
  PROVE  StorageInv'
<1> USE RequestsAssumption DEF StorageInv
<1>1. CASE UNCHANGED vars
  BY <1>1 DEF vars, creating, removing, TypeOK, Shape, UploadsAreSound, RegistrationsAreSound,
              RowsAreSound, RemovalsAreSound, Committed
<1>2. ASSUME NEW u \in Uploads, Age(u)
      PROVE  StorageInv'
  BY <1>2 DEF Age, creating, removing, TypeOK, Shape, UploadsAreSound, RegistrationsAreSound,
              RowsAreSound, RemovalsAreSound, Committed
<1>3. ASSUME NEW p \in Outputs, Rendered(p)
      PROVE  StorageInv'
  <2> USE <1>3 DEF Rendered, creating, removing, Creators
  <2>1. TypeOK' /\ Shape'
    BY Resolved DEF TypeOK, Shape, Paths, Files
  <2>2. UploadsAreSound' /\ RegistrationsAreSound'
    BY DEF TypeOK, Paths, UploadsAreSound, RegistrationsAreSound
  <2>3. RowsAreSound'
    BY RowsStay DEF CreatorsGoOn
  <2>4. RemovalsAreSound'
    BY RemovalsStay DEF TypeOK, Paths
  <2> QED
    BY <2>1, <2>2, <2>3, <2>4
<1>4. ASSUME NEW d \in Deletes, RequireAsset(d)
      PROVE  StorageInv'
  <2>1. PICK row \in rows : Select(d, {row})
    BY <1>4 DEF RequireAsset
  <2>2. pc[d] # "unlink" /\ d \notin Cleanups /\ d \in Removers
    BY <1>4 DEF RequireAsset, Removers
  <2> QED
    BY <2>1, <2>2, SelectInv
<1>5. ASSUME NEW c \in Cleanups, SelectExpired(c)
      PROVE  StorageInv'
  BY <1>5, SelectInv DEF SelectExpired, TypeOK, Removers
<1> QED
  BY <1>1, <1>2, <1>3, <1>4, <1>5, UploadInv, RegisterInv, RemoveInv, FailureInv DEF Next

(* A step that adds no file of an upload, keeps the row of every upload that *)
(* has a file, and leaves uploads where they stand leaves no orphan.        *)
LEMMA NoNewOrphan ==
  ASSUME NoOrphanUpload,
         \A u \in Uploads :
           /\ pc'[u] = pc[u]
           /\ files'[u] > 0 => files[u] > 0
           /\ files'[u] > 0 /\ Listed(u) => Listed(u)',
         faults' = faults
  PROVE  NoOrphanUpload'
BY DEF NoOrphanUpload

LEMMA OrphanStep ==
  ASSUME StorageInv, NoOrphanUpload, [Next]_vars
  PROVE  NoOrphanUpload'
<1> USE RequestsAssumption DEF StorageInv, Requests, Creators, Removers, creating, removing, Move
<1>1. CASE UNCHANGED vars
  BY <1>1 DEF vars, NoOrphanUpload, Listed
<1>2. ASSUME NEW u \in Uploads, StartUpload(u) \/ Upload(u)
      PROVE  NoOrphanUpload'
  <2>1. \A v \in Uploads : v # u => pc'[v] = pc[v] /\ files'[v] = files[v]
    BY Resolved, <1>2 DEF StartUpload, Upload, ReadChunk, WriteChunk, CommitUpload, RefreshUpload,
        Undo, TypeOK, Paths, Files
  <2>2. \A v \in Uploads : Listed(v) => Listed(v)'
    BY <1>2 DEF StartUpload, Upload, ReadChunk, WriteChunk, CommitUpload, RefreshUpload,
        Undo, Listed
  <2>3. faults' = faults
    BY <1>2 DEF StartUpload, Upload, ReadChunk, WriteChunk, CommitUpload, RefreshUpload, Undo
  <2>4. files'[u] > 0 /\ ~Listed(u)' => pc'[u] \in {"read", "write", "commit", "undo"}
    <3>1. CASE StartUpload(u)
      BY <3>1 DEF StartUpload, UploadsAreSound
    <3>2. CASE ReadChunk(u) \/ WriteChunk(u)
      BY <3>2 DEF ReadChunk, WriteChunk, TypeOK
    <3>3. CASE CommitUpload(u)
      <4> DEFINE new == [id |-> u, path |-> u, size |-> size[u]]
      <4>1. new \in rows' /\ new.id = u
        BY <3>3 DEF CommitUpload
      <4> QED
        BY <4>1 DEF Listed
    <3>4. CASE RefreshUpload(u)
      BY <3>4 DEF RefreshUpload, Listed, TypeOK
    <3>5. CASE Undo(u)
      BY Resolved, <3>5 DEF Undo, TypeOK, Paths, Files
    <3> QED
      BY <1>2, <3>1, <3>2, <3>3, <3>4, <3>5 DEF Upload
  <2> QED
    BY <2>1, <2>2, <2>3, <2>4 DEF NoOrphanUpload
<1>3. ASSUME NEW r \in Registrations, Register(r) \/ \E p \in OutputPaths : RequireFile(r, p)
      PROVE  NoOrphanUpload'
  BY <1>3, NoNewOrphan DEF Register, LookUp, Measure, CommitOutput, RefreshOutput, RequireFile,
                           TypeOK, Listed
<1>4. ASSUME NEW d \in Removers, NEW chosen, Select(d, chosen)
      PROVE  NoOrphanUpload'
  BY <1>4, NoNewOrphan DEF Select, TypeOK, Listed
<1>5. ASSUME NEW d \in Removers, Unlink(d)
      PROVE  NoOrphanUpload'
  <2>1. PICK row \in selected[d] \ unlinked[d] : files' = [files EXCEPT ![resolve(row.path)] = 0]
    BY <1>5 DEF Unlink
  <2>2. \A p \in Paths : files'[p] = 0 \/ files'[p] = files[p]
    BY <2>1 DEF TypeOK
  <2>3. UNCHANGED <<pc, rows, faults>>
    BY <1>5 DEF Unlink
  <2> QED
    BY <2>2, <2>3, NoNewOrphan DEF Listed, Paths
<1>6. ASSUME NEW d \in Removers, CommitRemoval(d)
      PROVE  NoOrphanUpload'
  <2>1. \A row \in selected[d] : row.id \in Uploads => files[row.id] = 0
    BY Resolved, <1>6 DEF CommitRemoval, RemovalsAreSound, RowsAreSound, Committed, Files
  <2> QED
    BY <1>6, <2>1, NoNewOrphan DEF CommitRemoval, TypeOK, Listed
<1>7. ASSUME NEW p \in Outputs, Rendered(p)
      PROVE  NoOrphanUpload'
  BY <1>7, NoNewOrphan DEF Rendered, TypeOK, Listed, Paths
<1>8. ASSUME NEW u \in Uploads, Age(u)
      PROVE  NoOrphanUpload'
  BY <1>8, NoNewOrphan DEF Age, Listed
<1>9. ASSUME ApiRestart \/ \E r \in Requests : Raise(r)
      PROVE  NoOrphanUpload'
  <2>1. faults' > 0 /\ files' = files /\ rows' = rows
    BY <1>9 DEF ApiRestart, Raise, TypeOK
  <2>2. \A u \in Uploads : pc'[u] = pc[u] \/ pc'[u] \in {"undo", "failed", "gone"}
    BY <1>9 DEF ApiRestart, Raise, TypeOK
  <2>3. \A u \in Uploads : pc[u] \in {"failed", "gone"} => pc'[u] = pc[u]
    BY <1>9 DEF ApiRestart, Raise, Active, TypeOK
  <2> QED
    BY <2>1, <2>2, <2>3 DEF NoOrphanUpload, Listed
<1> QED
  BY <1>1, <1>2, <1>3, <1>4, <1>5, <1>6, <1>7, <1>8, <1>9
     DEF Next, RequireAsset, SelectExpired, Remove

(* Answers: a row goes only when somebody has selected it. *)
LEMMA AnswersStay ==
  ASSUME StorageInv, AnswersAreSound,
         \A r \in Registrations : pc'[r] = "done" =>
           pc[r] = "done" /\ answer'[r] = answer[r] /\ target'[r] = target[r],
         \A row \in rows : row \in rows' \/ row.id \in Uploads
                           \/ \E d \in Deletes : row \in selected'[d],
         \A d \in Deletes : selected[d] \subseteq selected'[d]
  PROVE  AnswersAreSound'
<1> SUFFICES ASSUME NEW r \in Registrations, pc'[r] = "done"
             PROVE  \/ \E row \in rows' : row.id = answer[r] /\ row.path = target[r]
                    \/ \E d \in Deletes : \E row \in selected'[d] : row.path = target[r]
  BY DEF AnswersAreSound
<1>1. CASE \E d \in Deletes : \E row \in selected[d] : row.path = target[r]
  BY <1>1
<1>2. ASSUME NEW row \in rows, row.id = answer[r], row.path = target[r]
      PROVE  row.id \notin Uploads
  BY <1>2, RequestsAssumption DEF StorageInv, RowsAreSound, Committed, RegistrationsAreSound
<1> QED
  BY <1>1, <1>2 DEF AnswersAreSound

LEMMA AnswersStep ==
  ASSUME StorageInv, AnswersAreSound, [Next]_vars
  PROVE  AnswersAreSound'
<1> USE RequestsAssumption DEF StorageInv, Requests, Creators, Removers, creating, removing, Move
<1>1. CASE UNCHANGED vars
  BY <1>1 DEF vars, AnswersAreSound
<1>2. ASSUME NEW u \in Uploads, StartUpload(u) \/ Upload(u) \/ Age(u)
      PROVE  AnswersAreSound'
  BY <1>2, AnswersStay DEF StartUpload, Upload, ReadChunk, WriteChunk, CommitUpload, RefreshUpload,
                           Undo, Age, TypeOK
<1>3. ASSUME NEW r \in Registrations
      PROVE  Measure(r) \/ CommitOutput(r) \/ (\E p \in OutputPaths : RequireFile(r, p))
               => AnswersAreSound'
  BY <1>3, AnswersStay DEF Measure, CommitOutput, RequireFile, TypeOK
<1>4. ASSUME NEW r \in Registrations, LookUp(r)
      PROVE  AnswersAreSound'
  BY <1>4 DEF LookUp, RowsOf, TypeOK, AnswersAreSound
<1>5. ASSUME NEW r \in Registrations, RefreshOutput(r)
      PROVE  AnswersAreSound'
  <2>1. \A row \in rows : row.id = r => row.path = target[r]
    BY DEF RowsAreSound, Committed
  <2> QED
    BY <1>5, <2>1 DEF RefreshOutput, Listed, TypeOK, AnswersAreSound
<1>6. ASSUME NEW d \in Removers, NEW chosen, Select(d, chosen), d \in Deletes => pc[d] = "new"
      PROVE  AnswersAreSound'
  BY <1>6, AnswersStay DEF Select, TypeOK, Shape, RemovalsAreSound
<1>7. ASSUME NEW d \in Removers, Unlink(d)
      PROVE  AnswersAreSound'
  BY <1>7, AnswersStay DEF Unlink
<1>8. ASSUME NEW d \in Removers, CommitRemoval(d)
      PROVE  AnswersAreSound'
  BY <1>8, AnswersStay DEF CommitRemoval, TypeOK, RemovalsAreSound
<1>9. ASSUME NEW p \in Outputs, Rendered(p)
      PROVE  AnswersAreSound'
  BY <1>9, AnswersStay DEF Rendered
<1>10. ASSUME ApiRestart \/ \E r \in Requests : Raise(r)
       PROVE  AnswersAreSound'
  BY <1>10, AnswersStay DEF ApiRestart, Raise, TypeOK
<1> QED
  BY <1>1, <1>2, <1>3, <1>4, <1>5, <1>6, <1>7, <1>8, <1>9, <1>10
     DEF Next, Register, RequireAsset, SelectExpired, Remove

(* Files: what deletes have done to a path is remembered. *)
LEMMA ShadowStays ==
  ASSUME StorageInv, NEW r \in Registrations, target[r] \in OutputPaths, target'[r] = target[r],
         \A d \in Deletes : unlinked[d] \subseteq unlinked'[d],
         Shadowed(r)
  PROVE  Shadowed(r)'
<1>0. PICK d \in Removers : \E other \in unlinked[d] :
        resolve(other.path) = resolve(target[r]) /\ other.id # r
  BY DEF Shadowed
<1>1. PICK other \in unlinked[d] : resolve(other.path) = resolve(target[r]) /\ other.id # r
  BY <1>0
<1>2. other.id \notin Uploads
  BY <1>1, Resolved DEF StorageInv, TypeOK, RowsAreSound, Committed
<1>3. d \notin Cleanups
  BY <1>2 DEF StorageInv, TypeOK, RemovalsAreSound
<1> QED
  BY <1>1, <1>3 DEF Shadowed, Removers

(* A step that only moves requests, or takes rows away. *)
LEMMA FilesStay ==
  ASSUME StorageInv, FilesAreSound, CreatorsGoOn, faults' = faults,
         rows' \subseteq rows, files' = files,
         \A d \in Deletes : unlinked[d] \subseteq unlinked'[d],
         \A d \in Removers : pc[d] = "unlink" =>
           unlinked'[d] = unlinked[d] /\ (pc'[d] = "unlink" \/ unlinked[d] \cap rows' = {}),
         \A u \in Uploads : pc'[u] = "undo" => pc[u] = "undo" \/ ~Listed(u)',
         \A r \in Registrations : pc'[r] = "commit" =>
           /\ target'[r] = target[r] /\ target[r] \in OutputPaths
           /\ \/ pc[r] = "commit" /\ size'[r] = size[r]
              \/ size'[r] = files[resolve(target[r])]
  PROVE  FilesAreSound'
<1> SUFFICES ASSUME faults = 0
             PROVE  FilesAreSound'
  BY DEF FilesAreSound
<1>1. \A u \in Uploads : pc'[u] = "undo" => ~Listed(u)'
  BY DEF FilesAreSound, Listed
<1>2. \A r \in Registrations : pc'[r] = "commit" =>
        files'[resolve(target'[r])] = size'[r] \/ Shadowed(r)'
  BY ShadowStays DEF FilesAreSound
<1>3. ASSUME NEW row \in rows'
      PROVE  \/ files'[resolve(row.path)] = row.size
             \/ \E d \in Removers : pc'[d] = "unlink" /\ row \in unlinked'[d]
             \/ row.id \in Registrations /\ Shadowed(row.id)'
  <2>1. Committed(row)
    BY DEF StorageInv, RowsAreSound
  <2>2. CASE row.id \in Registrations /\ Shadowed(row.id)
    <3>1. target[row.id] \in OutputPaths /\ target'[row.id] = target[row.id]
      BY <2>1, <2>2 DEF Committed, CreatorsGoOn, Creators
    <3> QED
      BY <2>2, <3>1, ShadowStays
  <2>3. CASE \E d \in Removers : pc[d] = "unlink" /\ row \in unlinked[d]
    BY <2>3
  <2> QED
    BY <2>2, <2>3 DEF FilesAreSound
<1> QED
  BY <1>1, <1>2, <1>3 DEF FilesAreSound

(* An upload without a row has no file that a row names. *)
LEMMA RowsOfUpload ==
  ASSUME StorageInv, NEW u \in Uploads, NEW row \in rows, resolve(row.path) = u
  PROVE  row.id = u /\ pc[u] \in Post
<1>1. row \in Rows /\ Committed(row)
  BY DEF StorageInv, TypeOK, RowsAreSound
<1>2. row.path \notin OutputPaths
  BY Resolved
<1>3. row.id \in Uploads /\ row.path = row.id
  BY <1>1, <1>2 DEF Rows, Committed, Creators
<1> QED
  BY <1>1, <1>3, Resolved DEF Committed

(* Every row, and every registration about to commit, names a file.         *)
LEMMA RowsNameFiles ==
  ASSUME StorageInv
  PROVE  /\ \A row \in rows : resolve(row.path) \in Files
         /\ \A r \in Registrations : pc[r] = "commit" =>
              resolve(target[r]) \in Files /\ resolve(target[r]) \notin Uploads
<1>1. \A row \in rows : row.path \in Paths
  BY DEF StorageInv, TypeOK, Rows
<1>2. \A r \in Registrations : pc[r] = "commit" => target[r] \in OutputPaths
  BY DEF StorageInv, RegistrationsAreSound
<1> QED
  BY <1>1, <1>2, Resolved DEF Paths

LEMMA FilesStep ==
  ASSUME StorageInv, FilesAreSound, [Next]_vars
  PROVE  FilesAreSound'
<1> USE RequestsAssumption DEF StorageInv, Requests, Creators, Removers, creating, removing, Move
<1>1. CASE UNCHANGED vars
  BY <1>1 DEF vars, FilesAreSound, Shadowed, Listed
<1>2. ASSUME NEW u \in Uploads, StartUpload(u) \/ ReadChunk(u) \/ RefreshUpload(u) \/ Age(u)
      PROVE  FilesAreSound'
  <2>1. CreatorsGoOn
    BY <1>2 DEF StartUpload, ReadChunk, RefreshUpload, Age, CreatorsGoOn, TypeOK, Post
  <2>2. UNCHANGED <<files, rows, target, removing, faults>>
    BY <1>2 DEF StartUpload, ReadChunk, RefreshUpload, Age
  <2>3. \A r \in Requests \ {u} : pc'[r] = pc[r]
    BY <1>2 DEF StartUpload, ReadChunk, RefreshUpload, Age, TypeOK
  <2>4. pc'[u] = "undo" => pc[u] = "undo" \/ ~Listed(u)
    BY <1>2 DEF StartUpload, ReadChunk, RefreshUpload, Age, TypeOK, Listed, RowsAreSound,
                Committed, Post
  <2>5. \A r \in Registrations : size'[r] = size[r]
    BY <1>2 DEF StartUpload, ReadChunk, RefreshUpload, Age, TypeOK
  <2> QED
    BY <2>1, <2>2, <2>3, <2>4, <2>5, FilesStay DEF RegistrationsAreSound, Listed
<1>3. ASSUME NEW u \in Uploads, WriteChunk(u)
      PROVE  FilesAreSound'
  <2>1. \A row \in rows : resolve(row.path) # u
    BY <1>3, RowsOfUpload DEF WriteChunk, Post
  <2>2. \A f \in Files \ {u} : files'[f] = files[f]
    BY <1>3 DEF WriteChunk, TypeOK
  <2>3. \A r \in Registrations : pc[r] = "commit" =>
          files'[resolve(target[r])] = files[resolve(target[r])]
    BY <2>2, RowsNameFiles
  <2>4. \A row \in rows : files'[resolve(row.path)] = files[resolve(row.path)]
    BY <2>1, <2>2, RowsNameFiles
  <2>5. UNCHANGED <<rows, creating, removing, faults>> /\ pc' = [pc EXCEPT ![u] = "read"]
    BY <1>3 DEF WriteChunk
  <2> QED
    BY <2>3, <2>4, <2>5 DEF FilesAreSound, TypeOK, Shadowed, Listed
<1>4. ASSUME NEW u \in Uploads, CommitUpload(u)
      PROVE  FilesAreSound'
  <2>1. files[u] = size[u]
    BY <1>4 DEF CommitUpload, UploadsAreSound
  <2>2. rows' = rows \cup {[id |-> u, path |-> u, size |-> size[u]]}
    BY <1>4 DEF CommitUpload
  <2>3. UNCHANGED <<files, size, target, removing, faults>>
    BY <1>4 DEF CommitUpload
  <2>4. pc' = [pc EXCEPT ![u] = "refresh"]
    BY <1>4 DEF CommitUpload
  <2>5. \A r \in Registrations \cup Removers : pc'[r] = pc[r]
    BY <2>4 DEF TypeOK
  <2>6. \A v \in Uploads : pc'[v] = "undo" => pc[v] = "undo" /\ v # u
    BY <1>4, <2>4 DEF CommitUpload, TypeOK
  <2> QED
    BY Resolved, <2>1, <2>2, <2>3, <2>5, <2>6 DEF FilesAreSound, Shadowed, Listed, Files
<1>5. ASSUME NEW u \in Uploads, Undo(u)
      PROVE  FilesAreSound'
  <2> SUFFICES ASSUME faults = 0
               PROVE  FilesAreSound'
    BY <1>5 DEF Undo, FilesAreSound
  <2>1. \A row \in rows : resolve(row.path) # u
    BY <1>5, RowsOfUpload DEF Undo, FilesAreSound, Listed
  <2>2. \A f \in Files \ {u} : files'[f] = files[f]
    BY <1>5 DEF Undo, TypeOK
  <2>3. \A r \in Registrations : pc[r] = "commit" =>
          files'[resolve(target[r])] = files[resolve(target[r])]
    BY <2>2, RowsNameFiles
  <2>4. \A row \in rows : files'[resolve(row.path)] = files[resolve(row.path)]
    BY <2>1, <2>2, RowsNameFiles
  <2>5. UNCHANGED <<rows, creating, removing, faults>> /\ pc' = [pc EXCEPT ![u] = "failed"]
    BY <1>5 DEF Undo
  <2> QED
    BY <2>3, <2>4, <2>5 DEF FilesAreSound, TypeOK, Shadowed, Listed
<1>6. ASSUME NEW r \in Registrations,
             \/ \E p \in OutputPaths : RequireFile(r, p)
             \/ LookUp(r) \/ Measure(r) \/ RefreshOutput(r)
      PROVE  FilesAreSound'
  <2>1. CreatorsGoOn
    BY <1>6 DEF RequireFile, LookUp, Measure, RefreshOutput, CreatorsGoOn, TypeOK, Post
  <2>2. UNCHANGED <<files, rows, removing, faults>>
    BY <1>6 DEF RequireFile, LookUp, Measure, RefreshOutput
  <2>3. \A q \in Requests \ {r} : pc'[q] = pc[q]
    BY <1>6 DEF RequireFile, LookUp, Measure, RefreshOutput, TypeOK
  <2>4. \A q \in Registrations : pc'[q] = "commit" =>
          /\ target'[q] = target[q] /\ target[q] \in OutputPaths
          /\ \/ pc[q] = "commit" /\ size'[q] = size[q]
             \/ size'[q] = files[resolve(target[q])]
    BY <1>6 DEF RequireFile, LookUp, Measure, RefreshOutput, TypeOK, RegistrationsAreSound
  <2> QED
    BY <2>1, <2>2, <2>3, <2>4, FilesStay
<1>7. ASSUME NEW r \in Registrations, CommitOutput(r)
      PROVE  FilesAreSound'
  <2>1. rows' = rows \/ rows' = rows \cup {OutputRow(r)}
    BY <1>7 DEF CommitOutput
  <2>2. UNCHANGED <<files, size, target, removing, faults>>
    BY <1>7 DEF CommitOutput
  <2>3. \A q \in Requests \ {r} : pc'[q] = pc[q]
    BY <1>7 DEF CommitOutput, TypeOK
  <2>4. pc[r] = "commit" /\ pc'[r] # "commit"
    BY <1>7 DEF CommitOutput, TypeOK
  <2> QED
    BY <2>1, <2>2, <2>3, <2>4 DEF FilesAreSound, Shadowed, Listed, OutputRow
<1>8. ASSUME NEW d \in Removers, NEW chosen, Select(d, chosen), pc[d] # "unlink",
             d \in Deletes => pc[d] = "new"
      PROVE  FilesAreSound'
  <2>1. CreatorsGoOn
    BY <1>8 DEF Select, CreatorsGoOn, TypeOK
  <2>2. \A e \in Deletes : unlinked[e] \subseteq unlinked'[e]
    BY <1>8 DEF Select, Shape, TypeOK, RemovalsAreSound
  <2> QED
    BY <1>8, <2>1, <2>2, FilesStay DEF Select, TypeOK, Shape, Listed, RegistrationsAreSound
<1>9. ASSUME NEW d \in Removers, CommitRemoval(d)
      PROVE  FilesAreSound'
  <2>1. CreatorsGoOn
    BY <1>9 DEF CommitRemoval, CreatorsGoOn, TypeOK
  <2> QED
    BY <1>9, <2>1, FilesStay DEF CommitRemoval, TypeOK, Listed, RegistrationsAreSound
<1>10. ASSUME NEW d \in Removers, Unlink(d)
       PROVE  FilesAreSound'
  <2> PICK row \in selected[d] \ unlinked[d] :
           /\ files' = [files EXCEPT ![resolve(row.path)] = 0]
           /\ unlinked' = [unlinked EXCEPT ![d] = @ \cup {row}]
    BY <1>10 DEF Unlink
  <2>1. pc[d] = "unlink" /\ UNCHANGED <<rows, pc, selected, creating, faults>>
    BY <1>10 DEF Unlink
  <2>2. row \in Rows /\ Committed(row) /\ row.path \in Paths
    BY DEF TypeOK, Rows, RowsAreSound
  <2>3. \A e \in Removers : unlinked[e] \subseteq unlinked'[e]
    BY DEF Shape
  <2>4. row \in unlinked'[d]
    BY DEF Shape
  <2>5. \A f \in Files : f # resolve(row.path) => files'[f] = files[f]
    BY DEF TypeOK
  <2>6. \A r \in Registrations : Shadowed(r) => Shadowed(r)'
    BY <2>1, <2>3 DEF Shadowed
  <2>7. \A r \in Registrations :
          resolve(target[r]) = resolve(row.path) /\ row.id # r => Shadowed(r)'
    BY <2>1, <2>4 DEF Shadowed
  <2>8. ASSUME NEW other \in rows, resolve(other.path) = resolve(row.path)
        PROVE  other = row \/ (other.id \in Registrations /\ Shadowed(other.id)')
    <3>1. other \in Rows /\ Committed(other)
      BY DEF TypeOK, RowsAreSound
    <3>2. CASE other.id = row.id
      <4>1. \A x \in Rows : x = [id |-> x.id, path |-> x.path, size |-> x.size]
        BY DEF Rows
      <4>2. other.size = row.size /\ other.path = row.path
        BY <2>2, <3>1, <3>2 DEF Committed, Rows, Creators
      <4>3. /\ other = [id |-> other.id, path |-> other.path, size |-> other.size]
            /\ row = [id |-> row.id, path |-> row.path, size |-> row.size]
        BY <2>2, <3>1, <4>1
      <4> QED
        BY <3>2, <4>2, <4>3
    <3>3. CASE other.id # row.id /\ other.id \in Uploads
      <4>1. resolve(row.path) = other.id
        BY <2>8, <3>1, <3>3, Resolved DEF Committed
      <4>2. row.path \notin OutputPaths
        BY <3>3, <4>1, Resolved
      <4> QED
        BY <2>2, <3>3, <4>1, <4>2, Resolved DEF Rows, Committed
    <3>4. CASE other.id # row.id /\ other.id \in Registrations
      BY <2>7, <2>8, <3>1, <3>4 DEF Committed
    <3> QED
      BY <3>1, <3>2, <3>3, <3>4 DEF Rows
  <2>9. \A r \in Registrations : pc[r] = "commit" => resolve(target[r]) \in Files /\ row.id # r
    BY <2>2, RowsNameFiles DEF Committed, Post
  <2>10. \A other \in rows : resolve(other.path) \in Files
    BY RowsNameFiles
  <2>11. ASSUME faults = 0, NEW r \in Registrations, pc[r] = "commit"
         PROVE  files'[resolve(target[r])] = size[r] \/ Shadowed(r)'
    BY <2>5, <2>6, <2>7, <2>9, <2>11 DEF FilesAreSound
  <2>12. ASSUME faults = 0, NEW other \in rows
         PROVE  \/ files'[resolve(other.path)] = other.size
                \/ \E e \in Removers : pc[e] = "unlink" /\ other \in unlinked'[e]
                \/ other.id \in Registrations /\ Shadowed(other.id)'
    BY <2>1, <2>3, <2>4, <2>5, <2>6, <2>8, <2>10, <2>12 DEF FilesAreSound
  <2> QED
    BY <2>1, <2>11, <2>12 DEF FilesAreSound, Listed
<1>11. ASSUME NEW p \in Outputs, Rendered(p)
       PROVE  FilesAreSound'
  <2>1. \A f \in Files : files[f] > 0 => files'[f] = files[f]
    BY <1>11 DEF Rendered, TypeOK
  <2>2. \A row \in rows : resolve(row.path) \in Files /\ row.size > 0
    BY RowsNameFiles DEF TypeOK, Rows
  <2>3. \A r \in Registrations : pc[r] = "commit" => resolve(target[r]) \in Files /\ size[r] > 0
    BY RowsNameFiles DEF RegistrationsAreSound
  <2>4. UNCHANGED <<rows, pc, creating, removing, faults>>
    BY <1>11 DEF Rendered
  <2>5. \A r \in Registrations : Shadowed(r) => Shadowed(r)'
    BY <2>4 DEF Shadowed
  <2> QED
    BY <2>1, <2>2, <2>3, <2>4, <2>5 DEF FilesAreSound, Listed
<1>12. ASSUME ApiRestart \/ \E r \in Requests : Raise(r)
       PROVE  FilesAreSound'
  BY <1>12 DEF ApiRestart, Raise, TypeOK, FilesAreSound
<1> QED
  BY <1>1, <1>2, <1>3, <1>4, <1>5, <1>6, <1>7, <1>8, <1>9, <1>10, <1>11, <1>12
     DEF Next, Upload, Register, RequireAsset, SelectExpired, Remove

-----------------------------------------------------------------------------
(* Types, and with them the size limit of an upload on disk.                *)
THEOREM StorageIsTyped ==
  Spec => []TypeOK
<1>1. Init => StorageInv
  BY InitInv
<1>2. StorageInv /\ [Next]_vars => StorageInv'
  BY NextInv
<1>3. StorageInv => TypeOK
  BY DEF StorageInv
<1> QED
  BY <1>1, <1>2, <1>3, PTL DEF Spec

(* After a delete or a cleanup has answered, what it read is gone and stays *)
(* gone (delete_asset, cleanup_expired_uploads, store_upload).              *)
THEOREM RemovedStaysGone ==
  Spec => []RemovedIsGone
<1>1. Init => StorageInv
  BY InitInv
<1>2. StorageInv /\ [Next]_vars => StorageInv'
  BY NextInv
<1>3. StorageInv => RemovedIsGone
  BY DEF StorageInv, RemovalsAreSound, RemovedIsGone
<1> QED
  BY <1>1, <1>2, <1>3, PTL DEF Spec

(* However uploads, removals and failures overlap, a file no row knows      *)
(* belongs to an upload under way or to one that failed itself: the order   *)
(* of store_upload (file, then row) and of the removals (file, then row).   *)
THEOREM OrphansExplained ==
  Spec => []NoOrphanUpload
<1>1. Init => StorageInv /\ NoOrphanUpload
  BY Resolved, InitInv, RequestsAssumption DEF Init, NoOrphanUpload, Paths, Files
<1>2. StorageInv /\ NoOrphanUpload /\ [Next]_vars => StorageInv' /\ NoOrphanUpload'
  BY NextInv, OrphanStep
<1> QED
  BY <1>1, <1>2, PTL DEF Spec

(* Two registrations of one relative_path, spelt alike, that nobody deletes *)
(* answer with the same asset (the look-up and the unique constraint of     *)
(* register_output, which compare the strings).                             *)
THEOREM OneAssetPerOutput ==
  Spec => []SameAsset
<1>1. Init => StorageInv /\ AnswersAreSound
  BY InitInv, RequestsAssumption DEF Init, AnswersAreSound, Requests, Creators
<1>2. StorageInv /\ AnswersAreSound /\ [Next]_vars => StorageInv' /\ AnswersAreSound'
  BY NextInv, AnswersStep
<1>3. StorageInv /\ AnswersAreSound => SameAsset
  BY DEF StorageInv, RowsAreSound, AnswersAreSound, SameAsset, Removers
<1> QED
  BY <1>1, <1>2, <1>3, PTL DEF Spec

(* Without failures a listed asset has its whole file, whatever overlaps,   *)
(* unless its removal is under way or the same file was deleted as another  *)
(* asset's; the file of an upload is never another asset's.                 *)
THEOREM ListedHasFile ==
  Spec => []RowHasFile
<1>1. Init => StorageInv /\ FilesAreSound
  BY InitInv, RequestsAssumption DEF Init, FilesAreSound, Requests, Creators
<1>2. StorageInv /\ FilesAreSound /\ [Next]_vars => StorageInv' /\ FilesAreSound'
  BY NextInv, FilesStep
<1>3. StorageInv /\ FilesAreSound => RowHasFile
  BY DEF StorageInv, RowsAreSound, Committed, FilesAreSound, Shadowed, RowHasFile
<1> QED
  BY <1>1, <1>2, <1>3, PTL DEF Spec
=============================================================================
