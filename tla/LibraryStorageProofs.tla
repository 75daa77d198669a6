------------------------ MODULE LibraryStorageProofs ------------------------
(***************************************************************************)
(* The Library's bytes and objects, for any number of uploads of one        *)
(* content, requests and retention workers, and any number of faults.       *)
(*                                                                         *)
(* Neither property is inductive: what a purge, a discard or a sweep has    *)
(* decided to delete is safe because of what the rows said at the time of   *)
(* the decision, so the invariant says what each request and each worker    *)
(* that is between two steps may still rely on.  A step is then shown to    *)
(* make only certain moves (Moves), and the moves to keep the invariant.    *)
(***************************************************************************)
EXTENDS LibraryStorage, FiniteSetTheorems, TLAPS

UploadRows == [state : UploadStates, purpose : Purposes, expired : BOOLEAN]
BlobRows == [state : {"none", "ready", "purging", "deleted"}, key : Uploads]
FileRows == [state : {"none", "ready", "purging", "deleted"}, blob : Uploads \cup {Nobody}]
Usages == [used : Nat, reserved : Nat]
RequestRows ==
    [pc : {"idle", "head", "lookup", "headdup", "heal", "complete", "commit", "discard",
           "reject", "drop"},
     upload : Uploads \cup {Nobody}, key : Uploads \cup {Nobody}]
WorkerRows ==
    [pc : {"idle", "dropping", "sums", "write", "purging", "purged", "orphans"},
     keys : SUBSET Uploads, asset : Uploads \cup {Nobody}, blob : Uploads \cup {Nobody},
     sums : Usages]

\* The rows of the database have their types.
RowsOK ==
    /\ uploads \in [Uploads -> UploadRows]
    /\ reservations \in [Uploads -> {"none", "active", "consumed", "released"}]
    /\ blobs \in [Uploads -> BlobRows]
    /\ files \in [Uploads -> FileRows]
    /\ sources \in [Uploads -> {"none", "ready", "trash", "deleting", "deleted"}]
    /\ contributions \in [Uploads -> Held \cup {"none", "released"}]

\* All but the history.
StorageTypeOK ==
    /\ RowsOK /\ usage \in Usages /\ objects \subseteq Uploads
    /\ requests \in [Requests -> RequestRows] /\ lock \in Requests \cup {Nobody}
    /\ workers \in [Workers -> WorkerRows] /\ faults \in 0 .. MaxFaults

-----------------------------------------------------------------------------
(* The invariant, element by element.                                       *)

\* The client can not PUT the object (again).
Begun(u) == uploads[u].state \notin {"none", "initiated"}

\* The upload will not be completed (again).
Past(u) == uploads[u].state \notin Open \cup {"none"}

Live(b) == blobs[b].state \in {"ready", "purging"}

\* No blob that counts uses the object k.
NotKeyed(k) == \A b \in Uploads : Live(b) => blobs[b].key # k

UploadOK(u) == uploads[u].state = "none" => uploads[u] = NoUpload

\* A blob came from an upload that is past, and its object from one that is
\* at least no longer initiated.
BlobOK(b) == blobs[b].state # "none" => Past(b) /\ Begun(blobs[b].key)

FileOK(u) ==
    /\ files[u].state = "none" <=> sources[u] = "none"
    /\ files[u].state # "none" =>
          Past(u) /\ files[u].blob \in Uploads /\ blobs[files[u].blob].state # "none"
    /\ sources[u] \in {"ready", "trash"} => files[u].state = "ready"

\* The two conjuncts of BytesAccounted.
BytesOK(u) ==
    /\ reservations[u] = "active" <=> uploads[u].state \in Open
    /\ contributions[u] \in Held <=> \/ sources[u] \in {"ready", "trash"}
                                     \/ sources[u] = "deleting" /\ files[u].state = "ready"

\* A blob that is being purged is used by no live file.
UnusedOK(b) == blobs[b].state = "purging" =>
    \A f \in Uploads : files[f].state # "none" /\ files[f].blob = b =>
                          files[f].state \in {"purging", "deleted"}

\* The unique index on library_blobs.
OneLiveBlob == \A b, c \in Uploads : Live(b) /\ Live(c) => b = c

\* A request names an upload, and holds the content's lock exactly while it
\* commits.
RequestOK(q) ==
    /\ requests[q].pc # "idle" => requests[q].upload \in Uploads /\ Begun(requests[q].upload)
    /\ requests[q].pc = "commit" <=> lock = q

\* A completion's upload is still unverified, and the blob it read is still
\* the only live one, or was deleted with the last message that used it.
CommitOK(q) == requests[q].pc = "commit" =>
    /\ uploads[requests[q].upload].state = "uploaded_unverified"
    /\ requests[q].key # Nobody =>
          /\ blobs[requests[q].key].state \in {"ready", "deleted"}
          /\ \A b \in Uploads : Live(b) => b = requests[q].key

\* What a completion is about to discard is nobody's object, and stays so.
DiscardOK(q) == requests[q].pc = "discard" =>
    Past(requests[q].upload) /\ NotKeyed(requests[q].upload)

\* A purge is of an asset that is gone and of a blob that is still purging; if
\* another worker has completed it, then the object is gone too.
PurgeOK(w) == workers[w].pc \in {"purging", "purged"} =>
    /\ workers[w].asset \in Uploads
    /\ sources[workers[w].asset] \in {"deleting", "deleted"}
    /\ files[workers[w].asset].state \in {"purging", "deleted"}
    /\ workers[w].pc = "purging" => workers[w].blob # Nobody
    /\ workers[w].blob # Nobody =>
          /\ workers[w].keys = {blobs[workers[w].blob].key}
          /\ blobs[workers[w].blob].state \in {"purging", "deleted"}
          /\ workers[w].pc = "purged" \/ blobs[workers[w].blob].state = "deleted" =>
                blobs[workers[w].blob].key \notin objects

\* What the sweep has listed is of uploads that are over and of no live blob.
OrphansOK(w) == workers[w].pc = "orphans" =>
    \A k \in workers[w].keys : Past(k) /\ uploads[k].state # "ready" /\ NotKeyed(k)

\* The inductive invariant of everything but the history.
StorageInv ==
    /\ StorageTypeOK
    /\ \A u \in Uploads : /\ UploadOK(u) /\ BlobOK(u) /\ FileOK(u)
                          /\ BytesOK(u) /\ UnusedOK(u)
    /\ OneLiveBlob
    /\ \A q \in Requests : RequestOK(q) /\ CommitOK(q) /\ DiscardOK(q)
    /\ \A w \in Workers : PurgeOK(w) /\ OrphansOK(w)

\* The history explains every live file, and every completion about to commit
\* one, whose blob is not ready.
LiveInv ==
    /\ overtaken \subseteq Uploads
    /\ \A f \in Uploads : files[f].state = "ready" =>
          blobs[files[f].blob].state = "ready" \/ files[f].blob \in overtaken
    /\ \A q \in Requests : requests[q].pc = "commit" /\ requests[q].key # Nobody =>
          blobs[requests[q].key].state = "ready" \/ requests[q].key \in overtaken

-----------------------------------------------------------------------------
(* The moves a step makes.                                                  *)

\* An upload goes forward only.
UploadMoves(u) ==
    /\ Begun(u) => Begun(u)'
    /\ Past(u) => Past(u)'
    /\ Past(u) /\ uploads[u].state # "ready" => uploads'[u].state # "ready"
    /\ UploadOK(u)'

\* A blob is inserted as ready when no other counts; a ready one may take the
\* object of an unverified upload; a purging one keeps its object and is
\* deleted after it; a deleted one is left alone.
BlobMoves(b) ==
    /\ blobs[b].state = "none" =>
          \/ blobs'[b] = blobs[b]
          \/ /\ blobs'[b].state = "ready" /\ blobs'[b].key = b
             /\ uploads[b].state = "uploaded_unverified" /\ Past(b)'
             /\ \A c \in Uploads : ~Live(c) /\ (c # b => blobs'[c] = blobs[c])
    /\ blobs[b].state = "ready" =>
          /\ blobs'[b].state # "none"
          /\ blobs'[b].key = blobs[b].key
             \/ uploads[blobs'[b].key].state = "uploaded_unverified"
    /\ blobs[b].state = "purging" =>
          /\ blobs'[b].key = blobs[b].key
          /\ \/ blobs'[b].state = "purging"
             \/ blobs'[b].state = "deleted" /\ blobs[b].key \notin objects
    /\ blobs[b].state = "deleted" => blobs'[b] = blobs[b]

\* What is deleted stays deleted.
AssetMoves(u) ==
    /\ sources[u] \in {"deleting", "deleted"} => sources'[u] \in {"deleting", "deleted"}
    /\ files[u].state \in {"purging", "deleted"} => files'[u].state \in {"purging", "deleted"}

\* While a completion is between its two steps its upload's row does not
\* change, and no blob is inserted or claimed.
CommitMoves(q) == requests[q].pc = "commit" /\ requests'[q] = requests[q] =>
    /\ uploads'[requests[q].upload].state = "uploaded_unverified"
    /\ \A b \in Uploads : /\ blobs'[b].state = "purging" => blobs[b].state = "purging"
                          /\ Live(b)' => Live(b)

RowsMove ==
    /\ RowsOK'
    /\ \A u \in Uploads : /\ UploadMoves(u) /\ BlobMoves(u) /\ AssetMoves(u)
                          /\ FileOK(u)' /\ BytesOK(u)' /\ UnusedOK(u)'
    /\ \A q \in Requests : CommitMoves(q)

\* Objects are put only by clients whose upload is initiated.
ObjectsMove ==
    /\ objects' \subseteq Uploads
    /\ \A k \in Uploads : Begun(k) /\ k \in objects' => k \in objects

RequestMoves(q) ==
    /\ requests'[q] \in RequestRows
    /\ requests'[q].pc = "commit" <=> lock' = q
    /\ \/ requests'[q] = requests[q]
       \/ requests'[q].pc = "idle"
       \/ /\ requests'[q].upload \in Uploads /\ Begun(requests[q].upload)'
          /\ CommitOK(q)' /\ DiscardOK(q)'

RequestsMove ==
    /\ requests' = [q \in Requests |-> requests'[q]]
    /\ lock' \in Requests \cup {Nobody}
    /\ \A q \in Requests : RequestMoves(q)

WorkerMoves(w) ==
    /\ workers'[w] \in WorkerRows
    /\ workers'[w] = workers[w] \/ (PurgeOK(w)' /\ OrphansOK(w)')

WorkersMove ==
    /\ workers' = [w \in Workers |-> workers'[w]]
    /\ \A w \in Workers : WorkerMoves(w)

Moves ==
    /\ RowsMove /\ ObjectsMove /\ RequestsMove /\ WorkersMove
    /\ usage' \in Usages /\ faults' \in 0 .. MaxFaults

-----------------------------------------------------------------------------
\* The parts of the type invariant.
LEMMA TypeIs ==
    StorageTypeOK <=> /\ RowsOK /\ usage \in Usages /\ objects \subseteq Uploads
                      /\ requests \in [Requests -> RequestRows] /\ lock \in Requests \cup {Nobody}
                      /\ workers \in [Workers -> WorkerRows] /\ faults \in 0 .. MaxFaults
BY DEF StorageTypeOK

\* The same in the next state.
LEMMA TypeIsNext ==
    ASSUME RowsOK', usage' \in Usages, objects' \subseteq Uploads,
           requests' \in [Requests -> RequestRows], lock' \in Requests \cup {Nobody},
           workers' \in [Workers -> WorkerRows], faults' \in 0 .. MaxFaults
    PROVE  StorageTypeOK'
BY DEF StorageTypeOK

\* The fields of well-typed rows.
LEMMA Fields ==
    ASSUME StorageInv
    PROVE  /\ \A u \in Uploads : /\ uploads[u].state \in UploadStates
                                 /\ blobs[u].state \in {"none", "ready", "purging", "deleted"}
                                 /\ blobs[u].key \in Uploads
                                 /\ files[u].state \in {"none", "ready", "purging", "deleted"}
           /\ \A q \in Requests : /\ requests[q] \in RequestRows
                                  /\ requests[q].upload \in Uploads \cup {Nobody}
                                  /\ requests[q].key \in Uploads \cup {Nobody}
           /\ \A w \in Workers : /\ workers[w] \in WorkerRows
                                 /\ workers[w].keys \subseteq Uploads
                                 /\ workers[w].blob \in Uploads \cup {Nobody}
                                 /\ workers[w].asset \in Uploads \cup {Nobody}
                                 /\ workers[w].sums \in Usages
<1>1. /\ RowsOK /\ requests \in [Requests -> RequestRows] /\ workers \in [Workers -> WorkerRows]
  BY TypeIs DEF StorageInv
<1>2. \A q \in Requests : requests[q] \in RequestRows
  BY <1>1
<1>3. \A w \in Workers : workers[w] \in WorkerRows
  BY <1>1
<1>4. \A u \in Uploads : uploads[u] \in UploadRows /\ blobs[u] \in BlobRows /\ files[u] \in FileRows
  BY <1>1 DEF RowsOK
<1>5. \A u \in Uploads : uploads[u].state \in UploadStates
  BY <1>4 DEF UploadRows
<1>6. \A u \in Uploads : /\ blobs[u].state \in {"none", "ready", "purging", "deleted"}
                         /\ blobs[u].key \in Uploads
  BY <1>4 DEF BlobRows
<1>7. \A u \in Uploads : files[u].state \in {"none", "ready", "purging", "deleted"}
  BY <1>4 DEF FileRows
<1>8. \A q \in Requests : /\ requests[q].upload \in Uploads \cup {Nobody}
                          /\ requests[q].key \in Uploads \cup {Nobody}
  BY <1>2 DEF RequestRows
<1>9. \A w \in Workers : /\ workers[w].keys \subseteq Uploads
                         /\ workers[w].blob \in Uploads \cup {Nobody}
                         /\ workers[w].asset \in Uploads \cup {Nobody}
                         /\ workers[w].sums \in Usages
  BY <1>3 DEF WorkerRows
<1> QED
  BY <1>2, <1>3, <1>5, <1>6, <1>7, <1>8, <1>9

-----------------------------------------------------------------------------
(* The moves keep the invariant.                                            *)

\* An object that no live blob uses is not taken by one once its upload is past.
LEMMA NotKeyedStands ==
    ASSUME StorageInv, RowsMove, NEW k \in Uploads, Past(k), NotKeyed(k)
    PROVE  NotKeyed(k)'
<1> SUFFICES ASSUME NEW b \in Uploads, Live(b)' PROVE blobs'[b].key # k
  BY DEF NotKeyed
<1>1. BlobMoves(b) /\ blobs[b].state \in {"none", "ready", "purging", "deleted"}
  BY Fields DEF RowsMove
<1>2. uploads[k].state # "uploaded_unverified"
  BY DEF Past, Open
<1>3. CASE blobs[b].state = "none"
  BY <1>1, <1>2, <1>3 DEF BlobMoves, Live
<1>4. CASE blobs[b].state \in {"ready", "purging"}
  BY <1>1, <1>2, <1>4 DEF BlobMoves, Live, NotKeyed
<1>5. CASE blobs[b].state = "deleted"
  BY <1>1, <1>5 DEF BlobMoves, Live
<1> QED
  BY <1>1, <1>3, <1>4, <1>5

\* A blob that counts afterwards counted before, or is the only one.
LEMMA OneLiveBlobStands ==
    ASSUME StorageInv, RowsMove
    PROVE  OneLiveBlob'
<1> SUFFICES ASSUME NEW b \in Uploads, NEW c \in Uploads, Live(b)', Live(c)', b # c PROVE FALSE
  BY DEF OneLiveBlob
<1>1. /\ BlobMoves(b) /\ blobs[b].state \in {"none", "ready", "purging", "deleted"}
      /\ BlobMoves(c) /\ blobs[c].state \in {"none", "ready", "purging", "deleted"}
  BY Fields DEF RowsMove
<1>2. Live(b) \/ blobs[b].state = "none"
  BY <1>1 DEF BlobMoves, Live
<1>3. Live(c) \/ blobs[c].state = "none"
  BY <1>1 DEF BlobMoves, Live
<1>4. CASE blobs[b].state = "none"
  BY <1>1, <1>4 DEF BlobMoves, Live
<1>5. CASE blobs[c].state = "none"
  BY <1>1, <1>5 DEF BlobMoves, Live
<1> QED
  BY <1>2, <1>3, <1>4, <1>5 DEF StorageInv, OneLiveBlob

\* Blobs still come from past uploads.
LEMMA BlobStands ==
    ASSUME StorageInv, RowsMove, NEW b \in Uploads
    PROVE  BlobOK(b)'
<1> SUFFICES ASSUME blobs'[b].state # "none" PROVE Past(b)' /\ Begun(blobs[b].key)'
  BY DEF BlobOK
<1>1. /\ BlobMoves(b) /\ blobs[b].state \in {"none", "ready", "purging", "deleted"}
      /\ BlobOK(b) /\ blobs[b].key \in Uploads
      /\ \A u \in Uploads : UploadMoves(u)
  BY Fields DEF RowsMove, StorageInv
<1>2. blobs'[b].key \in Uploads
  <2>1. blobs'[b] \in BlobRows
    BY DEF RowsMove, RowsOK
  <2> QED
    BY <2>1 DEF BlobRows
<1>3. CASE blobs[b].state = "none"
  BY <1>1, <1>3 DEF BlobMoves, Past, Begun, Open
<1>4. CASE blobs[b].state # "none"
  <2>1. blobs'[b].key = blobs[b].key \/ uploads[blobs'[b].key].state = "uploaded_unverified"
    BY <1>1, <1>4 DEF BlobMoves
  <2>2. Begun(blobs'[b].key)
    BY <1>1, <1>4, <2>1 DEF BlobOK, Begun
  <2> QED
    BY <1>1, <1>2, <1>4, <2>2 DEF BlobOK, UploadMoves, Begun
<1> QED
  BY <1>3, <1>4

\* A completion that does not move keeps what it relies on.
LEMMA RequestStands ==
    ASSUME StorageInv, RowsMove, RequestsMove, NEW q \in Requests
    PROVE  RequestOK(q)' /\ CommitOK(q)' /\ DiscardOK(q)'
<1>1. /\ RequestMoves(q) /\ RequestOK(q) /\ CommitOK(q) /\ DiscardOK(q) /\ CommitMoves(q)
      /\ \A u \in Uploads : UploadMoves(u) /\ BlobMoves(u)
  BY DEF StorageInv, RowsMove, RequestsMove
<1>2. CASE requests'[q] = requests[q]
  <2>1. RequestOK(q)'
    BY <1>1, <1>2 DEF RequestOK, RequestMoves, UploadMoves, Begun
  <2>2. CommitOK(q)'
    <3> SUFFICES ASSUME requests[q].pc = "commit" PROVE CommitOK(q)'
      BY <1>2 DEF CommitOK
    <3>1. requests[q].key \in Uploads \cup {Nobody}
      BY Fields
    <3>2. requests[q].key # Nobody => blobs'[requests[q].key].state \in {"ready", "deleted"}
      <4> SUFFICES ASSUME requests[q].key # Nobody
                   PROVE  blobs'[requests[q].key].state \in {"ready", "deleted"}
        OBVIOUS
      <4> DEFINE k == requests[q].key
      <4>1. k \in Uploads /\ BlobMoves(k) /\ blobs[k].state \in {"ready", "deleted"}
        BY <1>1, <3>1 DEF CommitOK
      <4>2. blobs'[k].state \in {"none", "ready", "purging", "deleted"}
        <5>1. blobs'[k] \in BlobRows
          BY <4>1 DEF RowsMove, RowsOK
        <5> QED
          BY <5>1 DEF BlobRows
      <4>3. blobs'[k].state # "purging"
        BY <1>1, <1>2, <4>1 DEF CommitMoves
      <4>4. blobs'[k].state # "none"
        BY <4>1 DEF BlobMoves
      <4> QED
        BY <4>2, <4>3, <4>4
    <3> QED
      BY <1>1, <1>2, <3>2 DEF CommitOK, CommitMoves
  <2>3. DiscardOK(q)'
    <3> SUFFICES ASSUME requests[q].pc = "discard" PROVE DiscardOK(q)'
      BY <1>2 DEF DiscardOK
    <3>1. requests[q].upload \in Uploads
      BY <1>1 DEF RequestOK
    <3>2. NotKeyed(requests[q].upload)'
      BY <1>1, <1>2, <3>1, NotKeyedStands DEF DiscardOK, NotKeyed
    <3> QED
      BY <1>1, <1>2, <3>1, <3>2 DEF DiscardOK, UploadMoves, Past, NotKeyed
  <2> QED
    BY <2>1, <2>2, <2>3
<1>3. CASE requests'[q].pc = "idle"
  BY <1>1, <1>3 DEF RequestOK, CommitOK, DiscardOK, RequestMoves
<1>4. CASE /\ requests'[q].upload \in Uploads /\ Begun(requests[q].upload)'
           /\ CommitOK(q)' /\ DiscardOK(q)'
  BY <1>1, <1>4 DEF RequestOK, RequestMoves, Begun
<1> QED
  BY <1>1, <1>2, <1>3, <1>4 DEF RequestMoves

\* A worker that does not move keeps what it relies on.
LEMMA WorkerStands ==
    ASSUME StorageInv, RowsMove, ObjectsMove, WorkersMove, NEW w \in Workers
    PROVE  PurgeOK(w)' /\ OrphansOK(w)'
<1>1. /\ WorkerMoves(w) /\ PurgeOK(w) /\ OrphansOK(w)
      /\ \A u \in Uploads : UploadMoves(u) /\ BlobMoves(u) /\ AssetMoves(u) /\ BlobOK(u)
  BY DEF StorageInv, RowsMove, WorkersMove
<1>2. CASE workers'[w] = workers[w]
  <2>0. /\ workers[w].keys \subseteq Uploads /\ workers[w].blob \in Uploads \cup {Nobody}
        /\ \A u \in Uploads : blobs[u].key \in Uploads
    BY Fields
  <2>1. PurgeOK(w)'
    <3> SUFFICES ASSUME workers[w].pc \in {"purging", "purged"} PROVE PurgeOK(w)'
      BY <1>2 DEF PurgeOK
    <3>1. /\ workers[w].asset \in Uploads
          /\ sources'[workers[w].asset] \in {"deleting", "deleted"}
          /\ files'[workers[w].asset].state \in {"purging", "deleted"}
          /\ workers[w].pc = "purging" => workers[w].blob # Nobody
      BY <1>1 DEF PurgeOK, AssetMoves
    <3>2. ASSUME workers[w].blob # Nobody
          PROVE  /\ workers[w].keys = {blobs'[workers[w].blob].key}
                 /\ blobs'[workers[w].blob].state \in {"purging", "deleted"}
                 /\ workers[w].pc = "purged" \/ blobs'[workers[w].blob].state = "deleted" =>
                       blobs'[workers[w].blob].key \notin objects'
      <4> DEFINE b == workers[w].blob
      <4>1. /\ b \in Uploads /\ BlobMoves(b) /\ BlobOK(b) /\ blobs[b].key \in Uploads
            /\ workers[w].keys = {blobs[b].key} /\ blobs[b].state \in {"purging", "deleted"}
            /\ workers[w].pc = "purged" \/ blobs[b].state = "deleted" => blobs[b].key \notin objects
        BY <1>1, <2>0, <3>2 DEF PurgeOK
      <4> HIDE DEF b
      <4>2. /\ blobs'[b].key = blobs[b].key /\ blobs'[b].state \in {"purging", "deleted"}
            /\ blobs'[b].state = "deleted" => blobs[b].key \notin objects
        BY <4>1 DEF BlobMoves
      <4>3. blobs[b].key \notin objects => blobs[b].key \notin objects'
        BY <4>1 DEF BlobOK, ObjectsMove
      <4>4. /\ workers[w].keys = {blobs'[b].key}
            /\ blobs'[b].state \in {"purging", "deleted"}
            /\ workers[w].pc = "purged" \/ blobs'[b].state = "deleted" => blobs'[b].key \notin objects'
        BY <4>1, <4>2, <4>3
      <4> QED
        BY <4>4 DEF b
    <3> QED
      BY <1>2, <3>1, <3>2 DEF PurgeOK
  <2>2. OrphansOK(w)'
    <3> SUFFICES ASSUME workers[w].pc = "orphans", NEW k \in workers[w].keys
                 PROVE  Past(k)' /\ uploads'[k].state # "ready" /\ NotKeyed(k)'
      BY <1>2 DEF OrphansOK
    <3>1. k \in Uploads /\ Past(k) /\ uploads[k].state # "ready" /\ NotKeyed(k)
      BY <1>1, <2>0 DEF OrphansOK
    <3> QED
      BY <1>1, <3>1, NotKeyedStands DEF UploadMoves
  <2> QED
    BY <2>1, <2>2
<1> QED
  BY <1>1, <1>2 DEF WorkerMoves

\* A step that makes only these moves keeps the invariant.
LEMMA MovesKeepInv ==
    ASSUME StorageInv, Moves
    PROVE  StorageInv'
<1>1. StorageTypeOK'
  <2>1. requests' \in [Requests -> RequestRows] /\ workers' \in [Workers -> WorkerRows]
    BY DEF Moves, RequestsMove, RequestMoves, WorkersMove, WorkerMoves
  <2> QED
    BY <2>1, TypeIsNext DEF Moves, RowsMove, ObjectsMove, RequestsMove
<1>2. \A u \in Uploads : UploadOK(u)' /\ BlobOK(u)' /\ FileOK(u)' /\ BytesOK(u)' /\ UnusedOK(u)'
  BY BlobStands DEF Moves, RowsMove, UploadMoves
<1>3. OneLiveBlob'
  BY OneLiveBlobStands DEF Moves
<1>4. \A q \in Requests : RequestOK(q)' /\ CommitOK(q)' /\ DiscardOK(q)'
  BY RequestStands DEF Moves
<1>5. \A w \in Workers : PurgeOK(w)' /\ OrphansOK(w)'
  BY WorkerStands DEF Moves
<1> QED
  BY <1>1, <1>2, <1>3, <1>4, <1>5 DEF StorageInv

-----------------------------------------------------------------------------
(* What a step leaves alone.                                                *)

\* A step that leaves the database alone.
LEMMA RowsStand ==
    ASSUME StorageInv, UNCHANGED database
    PROVE  RowsMove
<1>1. /\ uploads' = uploads /\ reservations' = reservations /\ blobs' = blobs /\ files' = files
      /\ sources' = sources /\ contributions' = contributions
  BY DEF database
<1>2. RowsOK'
  BY <1>1, TypeIs DEF StorageInv, RowsOK
<1>3. ASSUME NEW u \in Uploads
      PROVE  /\ UploadMoves(u) /\ BlobMoves(u) /\ AssetMoves(u)
             /\ FileOK(u)' /\ BytesOK(u)' /\ UnusedOK(u)'
  <2>1. UploadOK(u) /\ FileOK(u) /\ BytesOK(u) /\ UnusedOK(u)
    BY DEF StorageInv
  <2>2. UploadMoves(u)
    BY <1>1, <2>1 DEF UploadMoves, UploadOK, Begun, Past
  <2>3. BlobMoves(u) /\ AssetMoves(u)
    BY <1>1 DEF BlobMoves, AssetMoves
  <2>4. FileOK(u)' /\ BytesOK(u)' /\ UnusedOK(u)'
    BY <1>1, <2>1 DEF FileOK, BytesOK, UnusedOK, Past
  <2> QED
    BY <2>2, <2>3, <2>4
<1>4. ASSUME NEW q \in Requests PROVE CommitMoves(q)
  BY <1>1 DEF StorageInv, CommitMoves, CommitOK, Live
<1> QED
  BY <1>2, <1>3, <1>4 DEF RowsMove

\* A step that leaves the object store alone, or only deletes from it.
LEMMA ObjectsShrink ==
    ASSUME StorageInv, objects' \subseteq objects
    PROVE  ObjectsMove
BY TypeIs DEF StorageInv, ObjectsMove

\* A step that leaves the requests alone.
LEMMA RequestsStand ==
    ASSUME StorageInv, UNCHANGED <<requests, lock>>
    PROVE  RequestsMove
<1>1. requests \in [Requests -> RequestRows] /\ lock \in Requests \cup {Nobody}
  BY TypeIs DEF StorageInv
<1>2. \A q \in Requests : RequestMoves(q)
  BY <1>1 DEF RequestMoves, StorageInv, RequestOK
<1> QED
  BY <1>1, <1>2 DEF RequestsMove

\* A step that leaves the workers alone.
LEMMA WorkersStand ==
    ASSUME StorageInv, UNCHANGED workers
    PROVE  WorkersMove
<1>1. workers \in [Workers -> WorkerRows]
  BY TypeIs DEF StorageInv
<1> QED
  BY <1>1 DEF WorkersMove, WorkerMoves

\* One request moves; the others hold the lock as before.
LEMMA RequestMovesOn ==
    ASSUME StorageInv, NEW q \in Requests, NEW v \in RequestRows,
           requests' = [requests EXCEPT ![q] = v], lock' \in Requests \cup {Nobody},
           v.pc = "commit" <=> lock' = q,
           \A p \in Requests : p # q => (lock' = p <=> lock = p),
           \/ v.pc = "idle"
           \/ /\ v.upload \in Uploads /\ uploads'[v.upload].state \notin {"none", "initiated"}
              /\ CommitOK(q)' /\ DiscardOK(q)'
    PROVE  RequestsMove
<1>1. requests \in [Requests -> RequestRows]
  BY TypeIs DEF StorageInv
<1>2. requests'[q] = v /\ \A p \in Requests : p # q => requests'[p] = requests[p]
  BY <1>1
<1>3. requests' = [p \in Requests |-> requests'[p]]
  BY <1>1
<1>4. RequestMoves(q)
  BY <1>2 DEF RequestMoves, Begun
<1>5. ASSUME NEW p \in Requests, p # q PROVE RequestMoves(p)
  <2>1. RequestOK(p) /\ requests[p] \in RequestRows /\ requests'[p] = requests[p]
    BY <1>1, <1>2, <1>5 DEF StorageInv
  <2> QED
    BY <1>5, <2>1 DEF RequestMoves, RequestOK
<1> QED
  BY <1>3, <1>4, <1>5 DEF RequestsMove

\* A request that is not at its commit goes on with its upload.
LEMMA RequestGoes ==
    ASSUME StorageInv, NEW q \in Requests, NEW v \in RequestRows,
           requests' = [requests EXCEPT ![q] = v], UNCHANGED lock,
           requests[q].pc \notin {"idle", "commit"}, v.pc \notin {"commit", "discard"},
           v.upload = requests[q].upload, \A u \in Uploads : Begun(u) => Begun(u)'
    PROVE  RequestsMove
<1>1. /\ requests \in [Requests -> RequestRows] /\ lock \in Requests \cup {Nobody}
      /\ RequestOK(q)
  BY TypeIs DEF StorageInv
<1>2. requests'[q] = v
  BY <1>1
<1>3. v.upload \in Uploads /\ uploads'[v.upload].state \notin {"none", "initiated"} /\ lock # q
  BY <1>1 DEF RequestOK, Begun
<1>4. CommitOK(q)' /\ DiscardOK(q)'
  BY <1>2 DEF CommitOK, DiscardOK
<1> QED
  BY <1>1, <1>3, <1>4, RequestMovesOn

\* A request ends, and gives the lock back if it held it.
LEMMA RequestEnds ==
    ASSUME StorageInv, NEW q \in Requests, Finish(q),
           lock' = IF lock = q THEN Nobody ELSE lock
    PROVE  RequestsMove
<1>1. lock \in Requests \cup {Nobody} /\ Nobody \notin Requests
  BY TypeIs, NobodyAssumption DEF StorageInv
<1>2. IdleRequest \in RequestRows /\ IdleRequest.pc = "idle"
  BY DEF IdleRequest, RequestRows
<1> QED
  BY <1>1, <1>2, RequestMovesOn DEF Finish

\* One worker moves.
LEMMA WorkerMovesOn ==
    ASSUME StorageInv, NEW w \in Workers, NEW v \in WorkerRows,
           workers' = [workers EXCEPT ![w] = v], PurgeOK(w)', OrphansOK(w)'
    PROVE  WorkersMove
<1>1. workers \in [Workers -> WorkerRows]
  BY TypeIs DEF StorageInv
<1> QED
  BY <1>1 DEF WorkersMove, WorkerMoves

\* A worker moves to where it relies on nothing.
LEMMA WorkerRests ==
    ASSUME StorageInv, NEW w \in Workers, NEW v \in WorkerRows,
           workers' = [workers EXCEPT ![w] = v], v.pc \in {"idle", "dropping", "sums", "write"}
    PROVE  WorkersMove
<1>1. workers \in [Workers -> WorkerRows]
  BY TypeIs DEF StorageInv
<1>2. workers'[w] = v
  BY <1>1
<1>3. PurgeOK(w)' /\ OrphansOK(w)'
  BY <1>2 DEF PurgeOK, OrphansOK
<1> QED
  BY <1>3, WorkerMovesOn

\* A step of the clients, the clock or a request that changes neither the
\* database nor the object store beyond deleting from it.
LEMMA QuietMoves ==
    ASSUME StorageInv, UNCHANGED database, objects' \subseteq objects, UNCHANGED usage,
           faults' \in 0 .. MaxFaults
    PROVE  RequestsMove /\ WorkersMove => Moves
<1>1. usage' \in Usages
  BY TypeIs DEF StorageInv
<1> QED
  BY <1>1, RowsStand, ObjectsShrink DEF Moves

-----------------------------------------------------------------------------
(* The steps of a request that leave the database alone.                    *)

\* The object is looked for, and found or not, or its rejection fails.
LEMMA HeadObjectMoves ==
    ASSUME StorageInv, NEW q \in Requests,
           HeadObject(q) \/ HeadFails(q) \/ HeadDuplicate(q) \/ RejectFails(q)
    PROVE  Moves
<1>1. /\ UNCHANGED <<database, usage, objects, lock, workers>>
      /\ faults' = faults \/ (faults < MaxFaults /\ faults' = faults + 1)
      /\ requests[q].pc \in {"head", "headdup", "reject"}
  BY DEF HeadObject, HeadFails, HeadDuplicate, RejectFails
<1>2. faults \in 0 .. MaxFaults /\ MaxFaults \in Nat /\ requests[q] \in RequestRows
      /\ requests \in [Requests -> RequestRows]
  BY Fields, TypeIs, QuotaAssumption DEF StorageInv
<1>3. PICK pc \in {"lookup", "reject", "drop", "complete", "heal"} :
        requests' = [requests EXCEPT ![q].pc = pc]
  <2>1. CASE HeadObject(q)
    <3>1. requests' = [requests EXCEPT ![q].pc =
              IF requests[q].upload \in objects THEN "lookup" ELSE "reject"]
      BY <2>1 DEF HeadObject, Goto
    <3> QED
      BY <3>1
  <2>2. CASE HeadFails(q) \/ RejectFails(q)
    BY <2>2 DEF HeadFails, RejectFails, Goto
  <2>3. CASE HeadDuplicate(q)
    <3>1. requests' = [requests EXCEPT ![q].pc =
              IF requests[q].key \in objects THEN "complete" ELSE "heal"]
      BY <2>3 DEF HeadDuplicate, Goto
    <3> QED
      BY <3>1
  <2> QED
    BY <2>1, <2>2, <2>3
<1> DEFINE v == [requests[q] EXCEPT !.pc = pc]
<1>4. v \in RequestRows /\ v.pc = pc /\ v.upload = requests[q].upload
  BY <1>2 DEF RequestRows
<1>5. requests' = [requests EXCEPT ![q] = v]
  BY <1>2, <1>3
<1> HIDE DEF v
<1>6. \A u \in Uploads : Begun(u) => Begun(u)'
  BY <1>1 DEF database, Begun
<1>7. RequestsMove
  BY <1>1, <1>4, <1>5, <1>6, RequestGoes
<1>8. faults' \in 0 .. MaxFaults
  BY <1>1, <1>2
<1> QED
  BY <1>1, <1>7, <1>8, QuietMoves, WorkersStand

\* The object of a rejected or a duplicate upload is deleted.
LEMMA DropObjectMoves ==
    ASSUME StorageInv, NEW q \in Requests, DropObject(q)
    PROVE  Moves
<1>1. /\ UNCHANGED <<database, usage, lock, workers, faults>> /\ objects' \subseteq objects
      /\ requests[q].pc # "commit" /\ Finish(q)
  BY DEF DropObject
<1>2. faults \in 0 .. MaxFaults /\ RequestOK(q)
  BY TypeIs DEF StorageInv
<1>3. lock' = IF lock = q THEN Nobody ELSE lock
  BY <1>1, <1>2 DEF RequestOK
<1>4. RequestsMove
  BY <1>1, <1>3, RequestEnds
<1> QED
  BY <1>1, <1>2, <1>4, QuietMoves, WorkersStand

\* A ready blob of the same content is looked for.
LEMMA LookupMoves ==
    ASSUME StorageInv, NEW q \in Requests, LibraryUploadDeduplicationObjectKey(q)
    PROVE  Moves
<1>1. /\ UNCHANGED <<database, usage, objects, lock, workers, faults>>
      /\ requests[q].pc = "lookup"
  BY DEF LibraryUploadDeduplicationObjectKey
<1>2. faults \in 0 .. MaxFaults /\ requests[q] \in RequestRows
      /\ requests \in [Requests -> RequestRows] /\ \A b \in Uploads : blobs[b].key \in Uploads
  BY Fields, TypeIs DEF StorageInv
<1>3. PICK v \in RequestRows : /\ requests' = [requests EXCEPT ![q] = v]
                               /\ v.upload = requests[q].upload /\ v.pc \in {"headdup", "complete"}
  <2>1. CASE Goto(q, "complete")
    <3> DEFINE v == [requests[q] EXCEPT !.pc = "complete"]
    <3>1. v \in RequestRows /\ v.upload = requests[q].upload /\ v.pc = "complete"
      BY <1>2 DEF RequestRows
    <3>2. requests' = [requests EXCEPT ![q] = v]
      BY <1>2, <2>1 DEF Goto
    <3> QED
      BY <3>1, <3>2
  <2>2. CASE \E k \in Uploads : GotoWith(q, "headdup", k)
    <3>1. PICK k \in Uploads : GotoWith(q, "headdup", k)
      BY <2>2
    <3> DEFINE v == [requests[q] EXCEPT !.pc = "headdup", !.key = k]
    <3>2. v \in RequestRows /\ v.upload = requests[q].upload /\ v.pc = "headdup"
      BY <1>2 DEF RequestRows
    <3>3. requests' = [requests EXCEPT ![q] = v]
      BY <1>2, <3>1 DEF GotoWith
    <3> QED
      BY <3>2, <3>3
  <2> QED
    BY <1>2, <2>1, <2>2 DEF LibraryUploadDeduplicationObjectKey, ReadyBlobs
<1>4. \A u \in Uploads : Begun(u) => Begun(u)'
  BY <1>1 DEF database, Begun
<1>5. RequestsMove
  BY <1>1, <1>3, <1>4, RequestGoes
<1> QED
  BY <1>1, <1>2, <1>5, QuietMoves, WorkersStand

\* A completion reads under the lock which blob to share.
LEMMA CompleteBeginMoves ==
    ASSUME StorageInv, NEW q \in Requests, CompleteBegin(q)
    PROVE  Moves
<1>1. /\ UNCHANGED <<database, usage, objects, workers, faults>>
      /\ requests[q].pc = "complete" /\ lock = Nobody
  BY DEF CompleteBegin
<1>2. faults \in 0 .. MaxFaults /\ requests[q] \in RequestRows
      /\ requests \in [Requests -> RequestRows] /\ RequestOK(q) /\ Nobody \notin Requests
      /\ Nobody \notin Uploads
  BY Fields, TypeIs, NobodyAssumption DEF StorageInv
<1>3. CASE Finish(q) /\ UNCHANGED lock
  <2>1. lock' = IF lock = q THEN Nobody ELSE lock
    BY <1>1, <1>3
  <2>2. RequestsMove
    BY <1>3, <2>1, RequestEnds
  <2> QED
    BY <1>1, <1>2, <2>2, QuietMoves, WorkersStand
<1>4. ASSUME lock' = q, NEW k \in Uploads \cup {Nobody}, GotoWith(q, "commit", k),
             uploads[requests[q].upload].state = "uploaded_unverified",
             k # Nobody => k \in ReadyBlobs
      PROVE  Moves
  <2> DEFINE v == [requests[q] EXCEPT !.pc = "commit", !.key = k]
  <2>1. v \in RequestRows /\ v.upload = requests[q].upload /\ v.pc = "commit" /\ v.key = k
    BY <1>2 DEF RequestRows
  <2>2. requests' = [requests EXCEPT ![q] = v]
    BY <1>2, <1>4 DEF GotoWith
  <2> HIDE DEF v
  <2>3. requests'[q] = v
    BY <1>2, <2>2
  <2>4. v.upload \in Uploads /\ uploads'[v.upload].state \notin {"none", "initiated"}
    BY <1>1, <1>2, <2>1 DEF RequestOK, Begun, database
  <2>5. k # Nobody => /\ blobs[k].state = "ready"
                      /\ \A b \in Uploads : Live(b) => b = k
    BY <1>4 DEF ReadyBlobs, StorageInv, OneLiveBlob, Live
  <2>6. CommitOK(q)'
    BY <1>1, <1>4, <2>1, <2>3, <2>5 DEF CommitOK, database, Live
  <2>7. DiscardOK(q)'
    BY <2>1, <2>3 DEF DiscardOK
  <2>8. RequestsMove
    BY <1>1, <1>2, <1>4, <2>1, <2>2, <2>4, <2>6, <2>7, RequestMovesOn
  <2> QED
    BY <1>1, <1>2, <2>8, QuietMoves, WorkersStand
<1> QED
  BY <1>3, <1>4 DEF CompleteBegin, ReadyBlobs

\* The insertion is refused, or the request is abandoned.
LEMMA RequestStopsMoves ==
    ASSUME StorageInv, NEW q \in Requests, CompleteRefused(q) \/ Abandon(q)
    PROVE  Moves
<1>1. faults \in 0 .. MaxFaults /\ RequestOK(q) /\ MaxFaults \in Nat
  BY TypeIs, QuotaAssumption DEF StorageInv
<1>2. /\ UNCHANGED <<database, usage, objects, workers>> /\ Finish(q)
      /\ faults' = faults \/ (faults < MaxFaults /\ faults' = faults + 1)
      /\ lock' = IF lock = q THEN Nobody ELSE lock
  BY <1>1 DEF CompleteRefused, Abandon, RequestOK
<1>3. faults' \in 0 .. MaxFaults
  BY <1>1, <1>2
<1>4. RequestsMove
  BY <1>2, RequestEnds
<1> QED
  BY <1>2, <1>3, <1>4, QuietMoves, WorkersStand

-----------------------------------------------------------------------------
(* The client, and the steps of a worker that leave the database alone.     *)

\* The client PUTs the object of an initiated upload.
LEMMA ClientPutMoves ==
    ASSUME StorageInv, NEW u \in Uploads, ClientPut(u)
    PROVE  Moves
<1>1. /\ UNCHANGED <<database, usage, requests, lock, workers, faults>>
      /\ objects' = objects \cup {u} /\ uploads[u].state = "initiated"
  BY DEF ClientPut
<1>2. usage \in Usages /\ objects \subseteq Uploads /\ faults \in 0 .. MaxFaults
  BY TypeIs DEF StorageInv
<1>3. ObjectsMove
  BY <1>1, <1>2 DEF ObjectsMove, Begun
<1>4. RowsMove /\ RequestsMove /\ WorkersMove
  BY <1>1, RowsStand, RequestsStand, WorkersStand
<1> QED
  BY <1>1, <1>2, <1>3, <1>4 DEF Moves

\* Idle workers are well-typed.
LEMMA IdleWorkerIs ==
    IdleWorker \in WorkerRows /\ IdleWorker.pc = "idle"
BY DEF IdleWorker, WorkerRows, Usages

\* The sums of the rows are numbers, for there are finitely many.
LEMMA ActualType == Actual \in Usages
<1>1. \A S \in SUBSET Uploads : Cardinality(S) \in Nat
  BY UploadsAssumption, FS_Subset, FS_CardinalityType
<1> DEFINE A == {u \in Uploads : contributions[u] \in Held}
           B == {u \in Uploads : reservations[u] = "active"}
<1>2. Cardinality(A) \in Nat /\ Cardinality(B) \in Nat
  BY <1>1
<1>3. Actual = [used |-> Cardinality(A), reserved |-> Cardinality(B)]
  BY DEF Actual
<1> HIDE DEF A, B
<1> QED
  BY <1>2, <1>3 DEF Usages

\* A worker deletes the object of an expired upload.
LEMMA DropExpiredMoves ==
    ASSUME StorageInv, NEW w \in Workers, DropExpired(w)
    PROVE  Moves
<1>1. /\ UNCHANGED <<database, usage, requests, lock, faults>> /\ workers[w].pc = "dropping"
  BY DEF DropExpired
<1>2. PICK k \in workers[w].keys : /\ objects' = objects \ {k}
                                   /\ workers' = [workers EXCEPT ![w].keys = @ \ {k}]
  BY DEF DropExpired
<1>3. workers[w] \in WorkerRows /\ workers \in [Workers -> WorkerRows] /\ faults \in 0 .. MaxFaults
  BY Fields, TypeIs DEF StorageInv
<1> DEFINE v == [workers[w] EXCEPT !.keys = workers[w].keys \ {k}]
<1>4. v \in WorkerRows /\ v.pc = "dropping"
  BY <1>1, <1>3 DEF WorkerRows
<1>5. workers' = [workers EXCEPT ![w] = v]
  BY <1>2, <1>3
<1> HIDE DEF v
<1>6. WorkersMove
  BY <1>4, <1>5, WorkerRests
<1> QED
  BY <1>1, <1>2, <1>3, <1>6, QuietMoves, RequestsStand

\* A worker adds up the rows.
LEMMA ReadSumsMoves ==
    ASSUME StorageInv, NEW w \in Workers, ReadSums(w)
    PROVE  Moves
<1> DEFINE v == [IdleWorker EXCEPT !.pc = "write", !.sums = Actual]
<1>1. /\ UNCHANGED <<database, usage, objects, requests, lock, faults>>
      /\ workers' = [workers EXCEPT ![w] = v]
  BY DEF ReadSums
<1>2. v \in WorkerRows /\ v.pc = "write"
  BY ActualType DEF IdleWorker, WorkerRows
<1> HIDE DEF v
<1>3. WorkersMove
  BY <1>1, <1>2, WorkerRests
<1>4. faults \in 0 .. MaxFaults
  BY TypeIs DEF StorageInv
<1> QED
  BY <1>1, <1>3, <1>4, QuietMoves, RequestsStand

\* A worker writes the sums it has read.
LEMMA WriteUsageMoves ==
    ASSUME StorageInv, NEW w \in Workers, WriteUsage(w)
    PROVE  Moves
<1>1. /\ UNCHANGED <<database, objects, requests, lock, faults>>
      /\ workers' = [workers EXCEPT ![w] = IdleWorker] /\ usage' = workers[w].sums
  BY DEF WriteUsage
<1>2. WorkersMove
  BY <1>1, IdleWorkerIs, WorkerRests
<1>3. faults \in 0 .. MaxFaults /\ workers[w].sums \in Usages
  BY Fields, TypeIs DEF StorageInv
<1>4. RowsMove /\ ObjectsMove /\ RequestsMove
  BY <1>1, RowsStand, ObjectsShrink, RequestsStand
<1> QED
  BY <1>1, <1>2, <1>3, <1>4 DEF Moves

\* A worker deletes the object of the blob it has claimed.
LEMMA DeletePurgedMoves ==
    ASSUME StorageInv, NEW w \in Workers, DeletePurged(w)
    PROVE  Moves
<1>1. /\ UNCHANGED <<database, usage, requests, lock, faults>> /\ workers[w].pc = "purging"
      /\ objects' = objects \ workers[w].keys
      /\ workers' = [workers EXCEPT ![w].pc = "purged"]
  BY DEF DeletePurged, WorkerAt
<1>2. workers[w] \in WorkerRows /\ workers \in [Workers -> WorkerRows] /\ faults \in 0 .. MaxFaults
      /\ PurgeOK(w)
  BY Fields, TypeIs DEF StorageInv
<1> DEFINE v == [workers[w] EXCEPT !.pc = "purged"]
<1>3. /\ v \in WorkerRows /\ v.pc = "purged" /\ v.keys = workers[w].keys
      /\ v.asset = workers[w].asset /\ v.blob = workers[w].blob
  BY <1>2 DEF WorkerRows
<1>4. workers' = [workers EXCEPT ![w] = v]
  BY <1>1, <1>2
<1> HIDE DEF v
<1>5. workers'[w] = v
  BY <1>2, <1>4
<1>6. PurgeOK(w)'
  BY <1>1, <1>2, <1>3, <1>5 DEF PurgeOK, database
<1>7. OrphansOK(w)'
  BY <1>3, <1>5 DEF OrphansOK
<1>8. WorkersMove
  BY <1>3, <1>4, <1>6, <1>7, WorkerMovesOn
<1> QED
  BY <1>1, <1>2, <1>8, QuietMoves, RequestsStand

\* The sweep lists objects that nothing expects: their uploads are over.
LEMMA ListOrphansMoves ==
    ASSUME StorageInv, NEW w \in Workers, ListOrphans(w)
    PROVE  Moves
<1> DEFINE orphans == {k \in objects : uploads[k].expired /\ ~Expected(k)}
           v == [workers[w] EXCEPT !.pc = "orphans", !.keys = orphans]
<1>1. /\ UNCHANGED <<database, usage, objects, requests, lock, faults>>
      /\ workers' = [workers EXCEPT ![w].pc = "orphans", ![w].keys = orphans]
  BY DEF ListOrphans
<1>2. workers[w] \in WorkerRows /\ workers \in [Workers -> WorkerRows] /\ faults \in 0 .. MaxFaults
      /\ objects \subseteq Uploads
  BY Fields, TypeIs DEF StorageInv
<1>3. ASSUME NEW k \in orphans
      PROVE  k \in Uploads /\ Past(k) /\ uploads[k].state # "ready" /\ NotKeyed(k)
  <2>1. k \in Uploads /\ uploads[k].expired /\ ~Expected(k) /\ UploadOK(k)
    BY <1>2 DEF StorageInv
  <2>2. uploads[k].state # "none"
    BY <2>1 DEF UploadOK, NoUpload
  <2> QED
    BY <2>1, <2>2 DEF Expected, Past, NotKeyed, Live
<1>4. orphans \subseteq Uploads
  BY <1>2
<1> HIDE DEF orphans
<1>5. v \in WorkerRows /\ v.pc = "orphans" /\ v.keys = orphans
  BY <1>2, <1>4 DEF WorkerRows
<1>6. workers' = [workers EXCEPT ![w] = v]
  BY <1>1, <1>2
<1> HIDE DEF v
<1>7. workers'[w] = v
  BY <1>2, <1>6
<1>8. PurgeOK(w)'
  BY <1>5, <1>7 DEF PurgeOK
<1>9. OrphansOK(w)'
  BY <1>1, <1>3, <1>5, <1>7 DEF OrphansOK, database, Past, NotKeyed, Live
<1>10. WorkersMove
  BY <1>5, <1>6, <1>8, <1>9, WorkerMovesOn
<1> QED
  BY <1>1, <1>2, <1>10, QuietMoves, RequestsStand

\* The sweep deletes one of the objects it has listed.
LEMMA DropOrphanMoves ==
    ASSUME StorageInv, NEW w \in Workers, DropOrphan(w)
    PROVE  Moves
<1>1. /\ UNCHANGED <<database, usage, requests, lock, faults>> /\ workers[w].pc = "orphans"
  BY DEF DropOrphan
<1>2. PICK k \in workers[w].keys :
        /\ objects' = objects \ {k}
        /\ workers' = [workers EXCEPT ![w] = IF workers[w].keys = {k} THEN IdleWorker
                          ELSE [workers[w] EXCEPT !.keys = workers[w].keys \ {k}]]
  BY DEF DropOrphan
<1>3. workers[w] \in WorkerRows /\ workers \in [Workers -> WorkerRows] /\ faults \in 0 .. MaxFaults
      /\ OrphansOK(w)
  BY Fields, TypeIs DEF StorageInv
<1>4. CASE workers[w].keys = {k}
  <2>1. WorkersMove
    BY <1>2, <1>4, IdleWorkerIs, WorkerRests
  <2> QED
    BY <1>1, <1>2, <1>3, <2>1, QuietMoves, RequestsStand
<1>5. CASE workers[w].keys # {k}
  <2> DEFINE v == [workers[w] EXCEPT !.keys = workers[w].keys \ {k}]
  <2>1. v \in WorkerRows /\ v.pc = "orphans" /\ v.keys \subseteq workers[w].keys
    BY <1>1, <1>3 DEF WorkerRows
  <2>2. workers' = [workers EXCEPT ![w] = v]
    BY <1>2, <1>5
  <2> HIDE DEF v
  <2>3. workers'[w] = v
    BY <1>3, <2>2
  <2>4. PurgeOK(w)'
    BY <2>1, <2>3 DEF PurgeOK
  <2>5. OrphansOK(w)'
    BY <1>1, <1>3, <2>1, <2>3 DEF OrphansOK, database, Past, NotKeyed, Live
  <2>6. WorkersMove
    BY <2>1, <2>2, <2>4, <2>5, WorkerMovesOn
  <2> QED
    BY <1>1, <1>2, <1>3, <2>6, QuietMoves, RequestsStand
<1> QED
  BY <1>4, <1>5

\* A worker stops.
LEMMA WorkerFailsMoves ==
    ASSUME StorageInv, NEW w \in Workers, WorkerFails(w)
    PROVE  Moves
<1>1. /\ UNCHANGED <<database, usage, objects, requests, lock>>
      /\ workers' = [workers EXCEPT ![w] = IdleWorker]
      /\ faults < MaxFaults /\ faults' = faults + 1
  BY DEF WorkerFails
<1>2. faults' \in 0 .. MaxFaults
  BY <1>1, TypeIs, QuotaAssumption DEF StorageInv
<1>3. WorkersMove
  BY <1>1, IdleWorkerIs, WorkerRests
<1> QED
  BY <1>1, <1>2, <1>3, QuietMoves, RequestsStand

-----------------------------------------------------------------------------
(* Steps that change uploads and reservations only.                         *)

\* What remains to be shown of such a step.
LEMMA UploadsOnly ==
    ASSUME StorageInv, UNCHANGED <<blobs, files, sources, contributions>>,
           uploads' \in [Uploads -> UploadRows],
           reservations' \in [Uploads -> {"none", "active", "consumed", "released"}],
           \A u \in Uploads : UploadMoves(u),
           \A u \in Uploads : reservations'[u] = "active" <=> uploads'[u].state \in Open,
           \A q \in Requests : requests[q].pc = "commit" =>
              uploads'[requests[q].upload].state = uploads[requests[q].upload].state
    PROVE  RowsMove
<1>1. RowsOK /\ RowsOK'
  BY TypeIs DEF StorageInv, RowsOK
<1>2. ASSUME NEW u \in Uploads
      PROVE  /\ BlobMoves(u) /\ AssetMoves(u)
             /\ FileOK(u)' /\ BytesOK(u)' /\ UnusedOK(u)'
  <2>1. FileOK(u) /\ BytesOK(u) /\ UnusedOK(u) /\ UploadMoves(u)
    BY DEF StorageInv
  <2>2. BlobMoves(u) /\ AssetMoves(u)
    BY DEF BlobMoves, AssetMoves
  <2>3. FileOK(u)'
    BY <2>1 DEF FileOK, UploadMoves
  <2>4. BytesOK(u)'
    BY <2>1 DEF BytesOK
  <2>5. UnusedOK(u)'
    BY <2>1 DEF UnusedOK
  <2> QED
    BY <2>2, <2>3, <2>4, <2>5
<1>3. ASSUME NEW q \in Requests PROVE CommitMoves(q)
  BY DEF StorageInv, CommitMoves, CommitOK, Live
<1> QED
  BY <1>1, <1>2, <1>3 DEF RowsMove

\* An upload is created within the quota.
LEMMA CreateMoves ==
    ASSUME StorageInv, NEW u \in Uploads, NEW p \in Purposes, CreateLibraryUpload(u, p)
    PROVE  Moves
<1> DEFINE v == [state |-> "initiated", purpose |-> p, expired |-> FALSE]
<1>1. /\ uploads[u].state = "none" /\ uploads' = [uploads EXCEPT ![u] = v]
      /\ reservations' = [reservations EXCEPT ![u] = "active"]
      /\ usage' = [usage EXCEPT !.reserved = usage.reserved + 1]
      /\ UNCHANGED <<blobs, files, sources, contributions, objects, requests, lock, workers, faults>>
  BY DEF CreateLibraryUpload
<1>2. RowsOK /\ usage \in Usages /\ faults \in 0 .. MaxFaults
  BY TypeIs DEF StorageInv
<1>3. v \in UploadRows /\ v.state = "initiated"
  BY DEF UploadRows, UploadStates, Open
<1> HIDE DEF v
<1>4. /\ uploads' \in [Uploads -> UploadRows]
      /\ reservations' \in [Uploads -> {"none", "active", "consumed", "released"}]
      /\ uploads'[u] = v /\ \A x \in Uploads : x # u => uploads'[x] = uploads[x]
      /\ reservations'[u] = "active"
      /\ \A x \in Uploads : x # u => reservations'[x] = reservations[x]
  BY <1>1, <1>2, <1>3 DEF RowsOK
<1>5. usage' \in Usages
  <2>1. usage.reserved + 1 \in Nat
    BY <1>2 DEF Usages
  <2> DEFINE n == usage.reserved + 1
  <2> HIDE DEF n
  <2>2. usage' = [usage EXCEPT !.reserved = n] /\ n \in Nat
    BY <1>1, <2>1 DEF n
  <2> QED
    BY <1>2, <2>2 DEF Usages
<1>6. ASSUME NEW x \in Uploads
      PROVE  UploadMoves(x) /\ (reservations'[x] = "active" <=> uploads'[x].state \in Open)
  <2>1. UploadOK(x) /\ BytesOK(x)
    BY DEF StorageInv
  <2>2. CASE x = u
    BY <1>1, <1>3, <1>4, <2>2 DEF UploadMoves, UploadOK, Begun, Past, Open
  <2>3. CASE x # u
    BY <1>4, <2>1, <2>3 DEF UploadMoves, UploadOK, BytesOK, Begun, Past
  <2> QED
    BY <2>2, <2>3
<1>7. ASSUME NEW q \in Requests, requests[q].pc = "commit"
      PROVE  uploads'[requests[q].upload].state = uploads[requests[q].upload].state
  <2>1. requests[q].upload \in Uploads /\ requests[q].upload # u
    BY <1>1, <1>7 DEF StorageInv, RequestOK, CommitOK
  <2> QED
    BY <1>4, <2>1
<1>8. RowsMove
  BY <1>1, <1>4, <1>6, <1>7, UploadsOnly
<1> QED
  BY <1>1, <1>2, <1>5, <1>8, ObjectsShrink, RequestsStand, WorkersStand DEF Moves

\* An upload passes its expiry.
LEMMA TimePassesMoves ==
    ASSUME StorageInv, NEW u \in Uploads, TimePasses(u)
    PROVE  Moves
<1> DEFINE v == [uploads[u] EXCEPT !.expired = TRUE]
<1>1. /\ uploads[u].state # "none" /\ uploads' = [uploads EXCEPT ![u] = v]
      /\ UNCHANGED <<reservations, blobs, files, sources, contributions, usage, objects, requests,
                     lock, workers, faults>>
  BY DEF TimePasses
<1>2. RowsOK /\ usage \in Usages /\ faults \in 0 .. MaxFaults
  BY TypeIs DEF StorageInv
<1>3. v \in UploadRows /\ v.state = uploads[u].state
  <2>1. uploads[u] \in UploadRows
    BY <1>2 DEF RowsOK
  <2> QED
    BY <2>1 DEF UploadRows
<1> HIDE DEF v
<1>4. /\ uploads' \in [Uploads -> UploadRows]
      /\ uploads'[u] = v /\ \A x \in Uploads : x # u => uploads'[x] = uploads[x]
  BY <1>1, <1>2, <1>3 DEF RowsOK
<1>5. ASSUME NEW x \in Uploads
      PROVE  /\ UploadMoves(x) /\ uploads'[x].state = uploads[x].state
             /\ reservations'[x] = "active" <=> uploads'[x].state \in Open
  <2>1. UploadOK(x) /\ BytesOK(x)
    BY DEF StorageInv
  <2>2. CASE x = u
    BY <1>1, <1>3, <1>4, <2>1, <2>2 DEF UploadMoves, UploadOK, BytesOK, Begun, Past
  <2>3. CASE x # u
    BY <1>1, <1>4, <2>1, <2>3 DEF UploadMoves, UploadOK, BytesOK, Begun, Past
  <2> QED
    BY <2>2, <2>3
<1>6. \A q \in Requests : requests[q].pc = "commit" => requests[q].upload \in Uploads
  BY DEF StorageInv, RequestOK
<1>7. RowsMove
  BY <1>1, <1>2, <1>4, <1>5, <1>6, UploadsOnly DEF RowsOK
<1> QED
  BY <1>1, <1>2, <1>7, ObjectsShrink, RequestsStand, WorkersStand DEF Moves

\* A request begins to finalize an upload.
LEMMA FinalizeMoves ==
    ASSUME StorageInv, NEW q \in Requests, NEW u \in Uploads, FinalizeUpload(q, u)
    PROVE  Moves
<1> DEFINE v == [uploads[u] EXCEPT !.state = "uploaded_unverified"]
           r == [pc |-> "head", upload |-> u, key |-> Nobody]
<1>1. /\ uploads[u].state \in Open /\ uploads' = [uploads EXCEPT ![u] = v]
      /\ requests[q] = IdleRequest /\ requests' = [requests EXCEPT ![q] = r]
      /\ UNCHANGED <<reservations, blobs, files, sources, contributions, usage, objects,
                     lock, workers, faults>>
  BY DEF FinalizeUpload, Open
<1>2. RowsOK /\ usage \in Usages /\ faults \in 0 .. MaxFaults /\ lock \in Requests \cup {Nobody}
      /\ requests \in [Requests -> RequestRows]
  BY TypeIs DEF StorageInv
<1>3. v \in UploadRows /\ v.state = "uploaded_unverified"
  <2>1. uploads[u] \in UploadRows
    BY <1>2 DEF RowsOK
  <2> QED
    BY <2>1 DEF UploadRows, UploadStates, Open
<1>4. r \in RequestRows /\ r.pc = "head" /\ r.upload = u
  BY DEF RequestRows
<1> HIDE DEF v, r
<1>5. /\ uploads' \in [Uploads -> UploadRows]
      /\ uploads'[u] = v /\ \A x \in Uploads : x # u => uploads'[x] = uploads[x]
  BY <1>1, <1>2, <1>3 DEF RowsOK
<1>6. ASSUME NEW x \in Uploads
      PROVE  /\ UploadMoves(x)
             /\ reservations'[x] = "active" <=> uploads'[x].state \in Open
  <2>1. UploadOK(x) /\ BytesOK(x)
    BY DEF StorageInv
  <2>2. CASE x = u
    BY <1>1, <1>3, <1>5, <2>1, <2>2 DEF UploadMoves, UploadOK, BytesOK, Begun, Past, Open
  <2>3. CASE x # u
    BY <1>1, <1>5, <2>1, <2>3 DEF UploadMoves, UploadOK, BytesOK, Begun, Past
  <2> QED
    BY <2>2, <2>3
<1>7. ASSUME NEW p \in Requests, requests[p].pc = "commit"
      PROVE  uploads'[requests[p].upload].state = uploads[requests[p].upload].state
  <2>1. /\ requests[p].upload \in Uploads
        /\ uploads[requests[p].upload].state = "uploaded_unverified"
    BY <1>7 DEF StorageInv, RequestOK, CommitOK
  <2> QED
    BY <1>3, <1>5, <2>1
<1>8. RowsMove
  BY <1>1, <1>2, <1>5, <1>6, <1>7, UploadsOnly DEF RowsOK
<1>9. RequestsMove
  <2>1. lock # q
    BY <1>1 DEF StorageInv, RequestOK, IdleRequest
  <2>2. requests'[q] = r
    BY <1>1, <1>2
  <2>3. CommitOK(q)' /\ DiscardOK(q)'
    BY <1>4, <2>2 DEF CommitOK, DiscardOK
  <2>4. uploads'[r.upload].state \notin {"none", "initiated"}
    BY <1>3, <1>4, <1>5
  <2> QED
    BY <1>1, <1>2, <1>4, <2>1, <2>3, <2>4, RequestMovesOn
<1> QED
  BY <1>1, <1>2, <1>8, <1>9, ObjectsShrink, WorkersStand DEF Moves

\* Releasing reserved bytes keeps the row of usage well-typed.
LEMMA ReleasedType ==
    ASSUME usage \in Usages, NEW n \in Nat
    PROVE  Released(n) \in Usages
<1> DEFINE m == Minus(usage.reserved, n)
<1>1. m \in Nat
  BY DEF Usages, Minus
<1>2. Released(n) = [usage EXCEPT !.reserved = m]
  BY DEF Released
<1> HIDE DEF m
<1> QED
  BY <1>1, <1>2 DEF Usages

\* An upload whose object is not found is rejected, unless it is ready.
LEMMA RejectMoves ==
    ASSUME StorageInv, NEW q \in Requests, RejectLibraryUpload(q)
    PROVE  Moves
<1> DEFINE u == requests[q].upload
           v == [uploads[u] EXCEPT !.state = "invalid"]
           r == [requests[q] EXCEPT !.pc = "drop"]
<1>1. /\ requests[q].pc = "reject" /\ RowFree(u)
      /\ requests' = [requests EXCEPT ![q].pc = "drop"]
      /\ UNCHANGED <<blobs, files, sources, contributions, objects, lock, workers, faults>>
  BY DEF RejectLibraryUpload, Goto
<1>2. RowsOK /\ usage \in Usages /\ faults \in 0 .. MaxFaults /\ requests[q] \in RequestRows
      /\ requests \in [Requests -> RequestRows]
  BY Fields, TypeIs DEF StorageInv
<1>3. u \in Uploads
  BY <1>1 DEF StorageInv, RequestOK
<1>4. r \in RequestRows /\ r.pc = "drop" /\ r.upload = u /\ requests' = [requests EXCEPT ![q] = r]
  BY <1>1, <1>2 DEF RequestRows
<1>5. RowsMove /\ usage' \in Usages
  <2>1. CASE uploads[u].state = "ready"
    <3>1. UNCHANGED <<database, usage>>
      BY <1>1, <2>1 DEF RejectLibraryUpload, database
    <3> QED
      BY <1>2, <3>1, RowsStand
  <2>2. CASE uploads[u].state # "ready"
    <3>1. /\ uploads' = [uploads EXCEPT ![u] = v]
          /\ reservations' = [reservations EXCEPT ![u] =
                IF reservations[u] = "active" THEN "released" ELSE reservations[u]]
          /\ usage' = IF reservations[u] = "active" THEN Released(1) ELSE usage
      BY <2>2 DEF RejectLibraryUpload, Settle
    <3>2. v \in UploadRows /\ v.state = "invalid"
      <4>1. uploads[u] \in UploadRows
        BY <1>2, <1>3 DEF RowsOK
      <4> QED
        BY <4>1 DEF UploadRows, UploadStates
    <3> HIDE DEF v, u
    <3>3. /\ uploads' \in [Uploads -> UploadRows]
          /\ uploads'[u] = v /\ \A x \in Uploads : x # u => uploads'[x] = uploads[x]
      BY <1>2, <1>3, <3>1, <3>2 DEF RowsOK
    <3>4. /\ reservations' \in [Uploads -> {"none", "active", "consumed", "released"}]
          /\ reservations'[u] # "active"
          /\ \A x \in Uploads : x # u => reservations'[x] = reservations[x]
      BY <1>2, <1>3, <3>1 DEF RowsOK
    <3>5. ASSUME NEW x \in Uploads
          PROVE  /\ UploadMoves(x)
                 /\ reservations'[x] = "active" <=> uploads'[x].state \in Open
      <4>1. UploadOK(x) /\ BytesOK(x)
        BY DEF StorageInv
      <4>2. CASE x = u
        BY <3>2, <3>3, <3>4, <4>1, <4>2 DEF UploadMoves, UploadOK, BytesOK, Begun, Past, Open
      <4>3. CASE x # u
        BY <3>3, <3>4, <4>1, <4>3 DEF UploadMoves, UploadOK, BytesOK, Begun, Past
      <4> QED
        BY <4>2, <4>3
    <3>6. ASSUME NEW p \in Requests, requests[p].pc = "commit"
          PROVE  uploads'[requests[p].upload].state = uploads[requests[p].upload].state
      <4>1. requests[p].upload \in Uploads /\ requests[p].upload # u
        BY <1>1, <3>6 DEF StorageInv, RequestOK, RowFree
      <4> QED
        BY <3>3, <4>1
    <3>7. RowsMove
      BY <1>1, <3>3, <3>4, <3>5, <3>6, UploadsOnly
    <3>8. usage' \in Usages
      BY <1>2, <3>1, ReleasedType
    <3> QED
      BY <3>7, <3>8
  <2> QED
    BY <2>1, <2>2
<1> HIDE DEF r
<1>6. RequestsMove
  <2>1. \A x \in Uploads : Begun(x) => Begun(x)'
    BY <1>5 DEF RowsMove, UploadMoves
  <2> QED
    BY <1>1, <1>4, <2>1, RequestGoes
<1> QED
  BY <1>1, <1>2, <1>5, <1>6, ObjectsShrink, WorkersStand DEF Moves

\* Expired uploads whose rows are free give their reservations back.
LEMMA ExpireMoves ==
    ASSUME StorageInv, NEW w \in Workers, ExpireLibraryUploads(w)
    PROVE  Moves
<1> DEFINE E == Expirable
           v == [workers[w] EXCEPT !.pc = "dropping", !.keys = E]
<1>1. /\ reservations' = [u \in Uploads |-> IF u \in E THEN "released" ELSE reservations[u]]
      /\ usage' = Released(Cardinality(E))
      /\ uploads' = [u \in Uploads |->
                        IF u \in E THEN [uploads[u] EXCEPT !.state = "expired"] ELSE uploads[u]]
      /\ workers' = [workers EXCEPT ![w].pc = "dropping", ![w].keys = E]
      /\ UNCHANGED <<blobs, files, sources, contributions, objects, requests, lock, faults>>
  BY DEF ExpireLibraryUploads
<1>2. RowsOK /\ usage \in Usages /\ faults \in 0 .. MaxFaults
      /\ workers \in [Workers -> WorkerRows] /\ workers[w] \in WorkerRows
  BY Fields, TypeIs DEF StorageInv
<1>3. /\ E \subseteq Uploads
      /\ \A u \in E : RowFree(u) /\ reservations[u] = "active"
  BY DEF Expirable
<1>4. Cardinality(E) \in Nat
  BY <1>3, UploadsAssumption, FS_Subset, FS_CardinalityType
<1> HIDE DEF E
<1>5. v \in WorkerRows /\ v.pc = "dropping" /\ workers' = [workers EXCEPT ![w] = v]
  BY <1>1, <1>2, <1>3 DEF WorkerRows
<1>6. ASSUME NEW x \in Uploads
      PROVE  /\ uploads'[x] \in UploadRows /\ UploadMoves(x)
             /\ reservations'[x] = "active" <=> uploads'[x].state \in Open
             /\ x \notin E => uploads'[x] = uploads[x]
  <2>1. UploadOK(x) /\ BytesOK(x) /\ uploads[x] \in UploadRows
    BY <1>2 DEF StorageInv, RowsOK
  <2>2. CASE x \in E
    <3> DEFINE y == [uploads[x] EXCEPT !.state = "expired"]
    <3>1. y \in UploadRows /\ y.state = "expired"
      BY <2>1 DEF UploadRows, UploadStates
    <3>2. uploads'[x] = y /\ reservations'[x] = "released"
      BY <1>1, <2>2
    <3> HIDE DEF y
    <3>3. uploads[x].state \in Open
      BY <1>3, <2>1, <2>2 DEF BytesOK
    <3> QED
      BY <2>2, <3>1, <3>2, <3>3 DEF UploadMoves, UploadOK, Begun, Past, Open
  <2>3. CASE x \notin E
    <3>1. uploads'[x] = uploads[x] /\ reservations'[x] = reservations[x]
      BY <1>1, <2>3
    <3> QED
      BY <2>1, <3>1 DEF UploadMoves, UploadOK, BytesOK, Begun, Past
  <2> QED
    BY <2>2, <2>3
<1>7. uploads' \in [Uploads -> UploadRows]
      /\ reservations' \in [Uploads -> {"none", "active", "consumed", "released"}]
  <2>1. uploads' = [u \in Uploads |-> uploads'[u]]
    BY <1>1
  <2>2. uploads' \in [Uploads -> UploadRows]
    BY <1>6, <2>1
  <2> QED
    BY <1>1, <1>2, <2>2 DEF RowsOK
<1>8. ASSUME NEW p \in Requests, requests[p].pc = "commit"
      PROVE  uploads'[requests[p].upload].state = uploads[requests[p].upload].state
  <2>1. requests[p].upload \in Uploads /\ requests[p].upload \notin E
    BY <1>3, <1>8 DEF StorageInv, RequestOK, RowFree
  <2> QED
    BY <1>6, <2>1
<1>9. RowsMove
  BY <1>1, <1>6, <1>7, <1>8, UploadsOnly
<1> HIDE DEF v
<1>10. WorkersMove
  BY <1>5, WorkerRests
<1>11. usage' \in Usages
  BY <1>1, <1>2, <1>4, ReleasedType
<1> QED
  BY <1>1, <1>2, <1>9, <1>10, <1>11, ObjectsShrink, RequestsStand DEF Moves

-----------------------------------------------------------------------------
(* Steps that change sources and contributions only.                        *)

\* What remains to be shown of such a step on one upload.
LEMMA SourcesOnly ==
    ASSUME StorageInv, UNCHANGED <<uploads, reservations, blobs, files>>, NEW u \in Uploads,
           sources' \in [Uploads -> {"none", "ready", "trash", "deleting", "deleted"}],
           contributions' \in [Uploads -> Held \cup {"none", "released"}],
           \A x \in Uploads : x # u => sources'[x] = sources[x] /\ contributions'[x] = contributions[x],
           sources[u] \in {"ready", "trash"}, sources'[u] \in {"ready", "trash", "deleting"},
           contributions'[u] \in Held
    PROVE  RowsMove
<1>1. RowsOK /\ RowsOK'
  BY TypeIs DEF StorageInv, RowsOK
<1>2. ASSUME NEW x \in Uploads
      PROVE  /\ UploadMoves(x) /\ BlobMoves(x) /\ AssetMoves(x)
             /\ FileOK(x)' /\ BytesOK(x)' /\ UnusedOK(x)'
  <2>1. UploadOK(x) /\ FileOK(x) /\ BytesOK(x) /\ UnusedOK(x)
    BY DEF StorageInv
  <2>2. UploadMoves(x)
    BY <2>1 DEF UploadMoves, UploadOK, Begun, Past
  <2>3. BlobMoves(x) /\ AssetMoves(x)
    BY DEF BlobMoves, AssetMoves
  <2>4. FileOK(x)' /\ BytesOK(x)' /\ UnusedOK(x)'
    <3>1. CASE x = u
      BY <2>1, <3>1 DEF FileOK, BytesOK, UnusedOK, Past
    <3>2. CASE x # u
      BY <2>1, <3>2 DEF FileOK, BytesOK, UnusedOK, Past
    <3> QED
      BY <3>1, <3>2
  <2> QED
    BY <2>2, <2>3, <2>4
<1>3. ASSUME NEW q \in Requests PROVE CommitMoves(q)
  BY DEF StorageInv, CommitMoves, CommitOK, Live
<1> QED
  BY <1>1, <1>2, <1>3 DEF RowsMove

\* An item is trashed or restored, or an asset loses its reference.
LEMMA SourceMoves ==
    ASSUME StorageInv, NEW u \in Uploads,
           TrashLibraryItem(u) \/ RestoreLibraryItem(u) \/ DeleteAsset(u)
    PROVE  Moves
<1>1. /\ UNCHANGED <<uploads, reservations, blobs, files, usage, objects, requests, lock, workers,
                     faults>>
      /\ sources[u] \in {"ready", "trash"}
  BY DEF TrashLibraryItem, RestoreLibraryItem, DeleteAsset
<1>2. RowsOK /\ usage \in Usages /\ faults \in 0 .. MaxFaults
  BY TypeIs DEF StorageInv
<1>3. contributions[u] \in Held
  BY <1>1 DEF StorageInv, BytesOK
<1>4. /\ sources' \in [Uploads -> {"none", "ready", "trash", "deleting", "deleted"}]
      /\ sources'[u] \in {"ready", "trash", "deleting"}
      /\ \A x \in Uploads : x # u => sources'[x] = sources[x]
  BY <1>2 DEF TrashLibraryItem, RestoreLibraryItem, DeleteAsset, RowsOK
<1>5. /\ contributions' \in [Uploads -> Held \cup {"none", "released"}]
      /\ contributions'[u] \in Held
      /\ \A x \in Uploads : x # u => contributions'[x] = contributions[x]
  BY <1>2, <1>3 DEF TrashLibraryItem, RestoreLibraryItem, DeleteAsset, RowsOK, Held
<1>6. RowsMove
  BY <1>1, <1>4, <1>5, SourcesOnly
<1> QED
  BY <1>1, <1>2, <1>6, ObjectsShrink, RequestsStand, WorkersStand DEF Moves

-----------------------------------------------------------------------------
(* Steps that change blobs or files.                                        *)

\* A ready blob whose object is missing takes the object of an unverified
\* upload.
LEMMA HealMoves ==
    ASSUME StorageInv, NEW q \in Requests, ReplaceMissingLibraryUploadDeduplicationObject(q)
    PROVE  Moves
<1> DEFINE u == requests[q].upload
           missing == {b \in ReadyBlobs : blobs[b].key = requests[q].key}
           r == [requests[q] EXCEPT !.pc = "complete"]
<1>1. /\ requests[q].pc = "heal" /\ lock = Nobody
      /\ UNCHANGED <<uploads, reservations, files, sources, contributions, usage, objects, lock,
                     workers, faults, overtaken>>
  BY DEF ReplaceMissingLibraryUploadDeduplicationObject
<1>2. RowsOK /\ usage \in Usages /\ faults \in 0 .. MaxFaults /\ requests[q] \in RequestRows
      /\ requests \in [Requests -> RequestRows] /\ Nobody \notin Requests
  BY Fields, TypeIs, NobodyAssumption DEF StorageInv
<1>3. u \in Uploads
  BY <1>1 DEF StorageInv, RequestOK
<1>4. CASE UNCHANGED blobs /\ Finish(q)
  <2>1. lock' = IF lock = q THEN Nobody ELSE lock
    BY <1>1
  <2>2. RequestsMove
    BY <1>4, <2>1, RequestEnds
  <2>3. UNCHANGED database
    BY <1>1, <1>4 DEF database
  <2> QED
    BY <1>1, <1>2, <2>2, <2>3, QuietMoves, WorkersStand
<1>5. CASE /\ uploads[u].state = "uploaded_unverified"
           /\ blobs' = [b \in Uploads |->
                           IF b \in missing THEN [blobs[b] EXCEPT !.key = u] ELSE blobs[b]]
           /\ Goto(q, "complete")
  <2>1. r \in RequestRows /\ r.pc = "complete" /\ r.upload = u
        /\ requests' = [requests EXCEPT ![q] = r]
    BY <1>2, <1>5 DEF RequestRows, Goto
  <2> HIDE DEF r
  <2>2. \A x \in Uploads : Begun(x) => Begun(x)'
    BY <1>1 DEF Begun
  <2>3. RequestsMove
    BY <1>1, <2>1, <2>2, RequestGoes
  <2>4. ASSUME NEW b \in Uploads
        PROVE  /\ blobs'[b] \in BlobRows /\ blobs'[b].state = blobs[b].state
               /\ blobs'[b] = blobs[b] \/ (blobs[b].state = "ready" /\ blobs'[b].key = u)
    <3>1. blobs[b] \in BlobRows
      BY <1>2 DEF RowsOK
    <3>2. CASE b \in missing
      <4> DEFINE v == [blobs[b] EXCEPT !.key = u]
      <4>1. blobs'[b] = v /\ blobs[b].state = "ready"
        BY <1>5, <3>2 DEF ReadyBlobs
      <4>2. v \in BlobRows /\ v.state = blobs[b].state /\ v.key = u
        BY <1>3, <3>1 DEF BlobRows
      <4> HIDE DEF v
      <4> QED
        BY <4>1, <4>2
    <3>3. CASE b \notin missing
      BY <1>5, <3>1, <3>3
    <3> QED
      BY <3>2, <3>3
  <2>5. RowsOK'
    <3>1. blobs' = [b \in Uploads |-> blobs'[b]]
      BY <1>5
    <3>2. blobs' \in [Uploads -> BlobRows]
      BY <2>4, <3>1
    <3> QED
      BY <1>1, <1>2, <3>2 DEF RowsOK
  <2>6. ASSUME NEW x \in Uploads
        PROVE  /\ UploadMoves(x) /\ BlobMoves(x) /\ AssetMoves(x)
               /\ FileOK(x)' /\ BytesOK(x)' /\ UnusedOK(x)'
    <3>1. UploadOK(x) /\ FileOK(x) /\ BytesOK(x) /\ UnusedOK(x)
      BY DEF StorageInv
    <3>2. UploadMoves(x) /\ AssetMoves(x)
      BY <1>1, <3>1 DEF UploadMoves, UploadOK, Begun, Past, AssetMoves
    <3>3. BlobMoves(x)
      BY <1>5, <2>4 DEF BlobMoves
    <3>4. FileOK(x)'
      BY <1>1, <2>4, <3>1 DEF FileOK, Past
    <3>5. BytesOK(x)' /\ UnusedOK(x)'
      BY <1>1, <2>4, <3>1 DEF BytesOK, UnusedOK
    <3> QED
      BY <3>2, <3>3, <3>4, <3>5
  <2>7. ASSUME NEW p \in Requests PROVE CommitMoves(p)
    BY <1>1, <1>2 DEF StorageInv, RequestOK, CommitMoves
  <2>8. RowsMove
    BY <2>5, <2>6, <2>7 DEF RowsMove
  <2> QED
    BY <1>1, <1>2, <2>3, <2>8, ObjectsShrink, WorkersStand DEF Moves
<1> QED
  BY <1>4, <1>5 DEF ReplaceMissingLibraryUploadDeduplicationObject

\* Where a completion leaves the request: at the discard of its object, which
\* the shared blob does not use, or at its end.
LEMMA CompleteCommitMoves ==
    ASSUME StorageInv, NEW q \in Requests, CompleteCommit(q)
    PROVE  Moves
<1> DEFINE u == requests[q].upload
           shared == requests[q].key
           blob == IF shared = Nobody THEN u ELSE shared
           v == [uploads[u] EXCEPT !.state = "ready"]
           b0 == [state |-> "ready", key |-> u]
           f0 == [state |-> "ready", blob |-> blob]
<1>1. /\ requests[q].pc = "commit"
      /\ shared = Nobody => MayInsertBlob
      /\ blobs' = IF shared = Nobody THEN [blobs EXCEPT ![u] = b0] ELSE blobs
      /\ files' = [files EXCEPT ![u] = f0]
      /\ sources' = [sources EXCEPT ![u] = "ready"]
      /\ contributions' = [contributions EXCEPT ![u] = "active"]
      /\ reservations' = [reservations EXCEPT ![u] =
            IF reservations[u] = "active" THEN "consumed" ELSE reservations[u]]
      /\ usage' = [used |-> usage.used + 1, reserved |-> Minus(usage.reserved, 1)]
      /\ uploads' = [uploads EXCEPT ![u] = v]
      /\ lock' = Nobody
      /\ IF shared # Nobody /\ blobs[shared].key # u THEN Goto(q, "discard") ELSE Finish(q)
      /\ UNCHANGED <<objects, workers, faults>>
  BY DEF CompleteCommit, Settle
<1>2. RowsOK /\ usage \in Usages /\ faults \in 0 .. MaxFaults /\ requests[q] \in RequestRows
      /\ requests \in [Requests -> RequestRows] /\ Nobody \notin Requests /\ Nobody \notin Uploads
      /\ shared \in Uploads \cup {Nobody}
  BY Fields, TypeIs, NobodyAssumption DEF StorageInv
<1>3. /\ u \in Uploads /\ lock = q /\ uploads[u].state = "uploaded_unverified"
      /\ shared # Nobody => /\ blobs[shared].state \in {"ready", "deleted"}
                            /\ \A b \in Uploads : Live(b) => b = shared
  BY <1>1 DEF StorageInv, RequestOK, CommitOK
<1>4. blobs[u].state = "none" /\ files[u].state = "none" /\ sources[u] = "none"
  BY <1>3 DEF StorageInv, BlobOK, FileOK, Past, Open
<1>5. v \in UploadRows /\ v.state = "ready"
  <2>1. uploads[u] \in UploadRows
    BY <1>2, <1>3 DEF RowsOK
  <2> QED
    BY <2>1 DEF UploadRows, UploadStates
<1>6. /\ b0 \in BlobRows /\ b0.state = "ready" /\ b0.key = u
      /\ f0 \in FileRows /\ f0.state = "ready" /\ f0.blob = blob /\ blob \in Uploads
  BY <1>2, <1>3 DEF BlobRows, FileRows
<1> HIDE DEF v, b0, f0, blob, u, shared
<1>7. /\ uploads' \in [Uploads -> UploadRows]
      /\ uploads'[u] = v /\ \A x \in Uploads : x # u => uploads'[x] = uploads[x]
  BY <1>1, <1>2, <1>3, <1>5 DEF RowsOK
<1>8. /\ files' \in [Uploads -> FileRows]
      /\ files'[u] = f0 /\ \A x \in Uploads : x # u => files'[x] = files[x]
  BY <1>1, <1>2, <1>3, <1>6 DEF RowsOK
<1>9. /\ sources' \in [Uploads -> {"none", "ready", "trash", "deleting", "deleted"}]
      /\ sources'[u] = "ready" /\ \A x \in Uploads : x # u => sources'[x] = sources[x]
  BY <1>1, <1>2, <1>3 DEF RowsOK
<1>10. /\ contributions' \in [Uploads -> Held \cup {"none", "released"}]
       /\ contributions'[u] \in Held
       /\ \A x \in Uploads : x # u => contributions'[x] = contributions[x]
  BY <1>1, <1>2, <1>3 DEF RowsOK, Held
<1>11. /\ reservations' \in [Uploads -> {"none", "active", "consumed", "released"}]
       /\ reservations'[u] # "active"
       /\ \A x \in Uploads : x # u => reservations'[x] = reservations[x]
  BY <1>1, <1>2, <1>3 DEF RowsOK
<1>12. /\ blobs' \in [Uploads -> BlobRows]
       /\ \A x \in Uploads : x # u => blobs'[x] = blobs[x]
       /\ shared = Nobody => blobs'[u] = b0
       /\ shared # Nobody => blobs'[u] = blobs[u]
  BY <1>1, <1>2, <1>3, <1>6 DEF RowsOK
<1>13. blobs'[blob].state \in {"ready", "deleted"}
  <2>1. CASE shared = Nobody
    BY <1>6, <1>12, <2>1 DEF blob
  <2>2. CASE shared # Nobody
    <3>1. blob = shared /\ shared \in Uploads /\ shared # u
      BY <1>2, <1>3, <1>4, <2>2 DEF blob
    <3> QED
      BY <1>3, <1>12, <2>2, <3>1
  <2> QED
    BY <2>1, <2>2
<1>14. RowsOK'
  BY <1>7, <1>8, <1>9, <1>10, <1>11, <1>12 DEF RowsOK
<1>15. ASSUME NEW x \in Uploads
       PROVE  /\ UploadMoves(x) /\ BlobMoves(x) /\ AssetMoves(x)
              /\ FileOK(x)' /\ BytesOK(x)' /\ UnusedOK(x)'
  <2>1. UploadOK(x) /\ FileOK(x) /\ BytesOK(x) /\ UnusedOK(x)
    BY DEF StorageInv
  <2>2. UploadMoves(x)
    <3>1. CASE x = u
      BY <1>3, <1>5, <1>7, <3>1 DEF UploadMoves, UploadOK, Begun, Past, Open
    <3>2. CASE x # u
      BY <1>7, <2>1, <3>2 DEF UploadMoves, UploadOK, Begun, Past
    <3> QED
      BY <3>1, <3>2
  <2>3. BlobMoves(x)
    <3>1. CASE x = u /\ shared = Nobody
      <4>1. \A c \in Uploads : ~Live(c)
        BY <1>1, <3>1 DEF MayInsertBlob, Live
      <4>2. Past(x)'
        BY <1>5, <1>7, <3>1 DEF Past, Open
      <4> QED
        BY <1>3, <1>4, <1>6, <1>12, <3>1, <4>1, <4>2 DEF BlobMoves
    <3>2. CASE ~(x = u /\ shared = Nobody)
      <4>1. blobs'[x] = blobs[x]
        BY <1>12, <3>2
      <4> QED
        BY <4>1 DEF BlobMoves
    <3> QED
      BY <3>1, <3>2
  <2>4. AssetMoves(x)
    BY <1>4, <1>8, <1>9 DEF AssetMoves
  <2>5. FileOK(x)'
    <3>1. CASE x = u
      BY <1>5, <1>6, <1>7, <1>8, <1>9, <1>13, <3>1 DEF FileOK, Past, Open
    <3>2. CASE x # u
      <4>1. files[x].state # "none" => blobs'[files[x].blob].state # "none"
        <5> SUFFICES ASSUME files[x].state # "none" PROVE blobs'[files[x].blob].state # "none"
          OBVIOUS
        <5>1. files[x].blob \in Uploads /\ blobs[files[x].blob].state # "none" /\ files[x].blob # u
          BY <1>4, <2>1 DEF FileOK
        <5> QED
          BY <1>12, <5>1
      <4> QED
        BY <1>7, <1>8, <1>9, <2>1, <3>2, <4>1 DEF FileOK, Past
    <3> QED
      BY <3>1, <3>2
  <2>6. BytesOK(x)'
    <3>1. CASE x = u
      BY <1>5, <1>7, <1>9, <1>10, <1>11, <3>1 DEF BytesOK, Open
    <3>2. CASE x # u
      BY <1>7, <1>8, <1>9, <1>10, <1>11, <2>1, <3>2 DEF BytesOK
    <3> QED
      BY <3>1, <3>2
  <2>7. UnusedOK(x)'
    <3> SUFFICES ASSUME blobs'[x].state = "purging", NEW f \in Uploads,
                        files'[f].state # "none", files'[f].blob = x
                 PROVE  files'[f].state \in {"purging", "deleted"}
      BY DEF UnusedOK
    <3>1. x # u \/ shared # Nobody
      BY <1>6, <1>12
    <3>2. blobs[x].state = "purging"
      BY <1>12, <3>1
    <3>3. f # u
      BY <1>6, <1>8, <1>13
    <3> QED
      BY <1>8, <2>1, <3>2, <3>3 DEF UnusedOK
  <2> QED
    BY <2>2, <2>3, <2>4, <2>5, <2>6, <2>7
<1>16. ASSUME NEW p \in Requests PROVE CommitMoves(p)
  <2> SUFFICES ASSUME requests[p].pc = "commit" PROVE requests'[p] # requests[p]
    BY DEF CommitMoves
  <2>1. p = q
    BY <1>3 DEF StorageInv, RequestOK
  <2>2. requests'[q].pc # "commit"
    BY <1>1, <1>2 DEF Goto, Finish, IdleRequest, RequestRows
  <2> QED
    BY <1>1, <2>1, <2>2
<1>17. RowsMove
  BY <1>14, <1>15, <1>16 DEF RowsMove
<1>18. RequestsMove
  <2>1. CASE Finish(q)
    BY <1>1, <1>3, <2>1, RequestEnds
  <2>2. CASE shared # Nobody /\ blobs[shared].key # u /\ Goto(q, "discard")
    <3> DEFINE r == [requests[q] EXCEPT !.pc = "discard"]
    <3>1. r \in RequestRows /\ r.pc = "discard" /\ r.upload = u
          /\ requests' = [requests EXCEPT ![q] = r]
      BY <1>2, <2>2 DEF RequestRows, Goto, u
    <3> HIDE DEF r
    <3>2. requests'[q] = r
      BY <1>2, <3>1
    <3>3. CommitOK(q)'
      BY <3>1, <3>2 DEF CommitOK
    <3>4. DiscardOK(q)'
      <4>1. \A b \in Uploads : Live(b)' => blobs'[b].key # u
        <5>1. \A b \in Uploads : blobs'[b] = blobs[b]
          BY <1>12, <2>2
        <5> QED
          BY <1>3, <2>2, <5>1 DEF Live
      <4> QED
        BY <1>5, <1>7, <3>1, <3>2, <4>1 DEF DiscardOK, Past, NotKeyed, Open
    <3>5. uploads'[r.upload].state \notin {"none", "initiated"}
      BY <1>5, <1>7, <3>1
    <3>6. \A p \in Requests : p # q => (lock' = p <=> lock = p)
      BY <1>1, <1>2, <1>3
    <3> QED
      BY <1>1, <1>2, <1>3, <3>1, <3>3, <3>4, <3>5, <3>6, RequestMovesOn
  <2> QED
    BY <1>1, <2>1, <2>2
<1>19. usage' \in Usages
  <2>1. usage.used \in Nat /\ usage.reserved \in Nat
    BY <1>2 DEF Usages
  <2>2. usage.used + 1 \in Nat /\ Minus(usage.reserved, 1) \in Nat
    BY <2>1 DEF Minus
  <2> QED
    BY <1>1, <2>2 DEF Usages
<1> QED
  BY <1>1, <1>2, <1>17, <1>18, <1>19, ObjectsShrink, WorkersStand DEF Moves

\* An attachment goes with its message; the blob goes with its last file, which
\* is live and so keeps the blob from being purged.
LEMMA DeleteMessageMoves ==
    ASSUME StorageInv, NEW u \in Uploads, DeleteMessage(u)
    PROVE  Moves
<1> DEFINE b == files[u].blob
           last == \A f \in FilesOf(b) \ {u} : files[f].state = "deleted"
           v == [uploads[u] EXCEPT !.state = "deleted"]
           f0 == [files[u] EXCEPT !.state = "deleted"]
           b0 == [blobs[b] EXCEPT !.state = "deleted"]
<1>1. /\ sources[u] = "ready"
      /\ sources' = [sources EXCEPT ![u] = "deleted"]
      /\ uploads' = [uploads EXCEPT ![u] = v]
      /\ files' = [files EXCEPT ![u] = f0]
      /\ blobs' = IF last THEN [blobs EXCEPT ![b] = b0] ELSE blobs
      /\ contributions' = [contributions EXCEPT ![u] =
            IF contributions[u] \in Held THEN "released" ELSE contributions[u]]
      /\ usage' = IF contributions[u] \in Held THEN [usage EXCEPT !.used = Minus(usage.used, 1)]
                  ELSE usage
      /\ UNCHANGED <<reservations, objects, requests, lock, workers, faults>>
  BY DEF DeleteMessage
<1>2. RowsOK /\ usage \in Usages /\ faults \in 0 .. MaxFaults
  BY TypeIs DEF StorageInv
<1>3. /\ files[u].state = "ready" /\ Past(u) /\ b \in Uploads /\ blobs[b].state # "none"
  BY <1>1 DEF StorageInv, FileOK
<1>4. blobs[b].state \in {"ready", "deleted"}
  <2>1. blobs[b].state # "purging"
    BY <1>3 DEF StorageInv, UnusedOK
  <2> QED
    BY <1>3, <2>1, Fields
<1>5. v \in UploadRows /\ v.state = "deleted"
  <2>1. uploads[u] \in UploadRows
    BY <1>2 DEF RowsOK
  <2> QED
    BY <2>1 DEF UploadRows, UploadStates
<1>6. /\ f0 \in FileRows /\ f0.state = "deleted" /\ f0.blob = b
      /\ b0 \in BlobRows /\ b0.state = "deleted" /\ b0.key = blobs[b].key
  <2>1. files[u] \in FileRows /\ blobs[b] \in BlobRows
    BY <1>2, <1>3 DEF RowsOK
  <2>2. f0 \in FileRows /\ f0.state = "deleted" /\ f0.blob = b
    BY <2>1 DEF FileRows
  <2>3. b0 \in BlobRows /\ b0.state = "deleted" /\ b0.key = blobs[b].key
    BY <2>1 DEF BlobRows
  <2> QED
    BY <2>2, <2>3
<1>7. b0 = blobs[b] \/ blobs[b].state = "ready"
  <2>1. blobs[b] \in BlobRows
    BY <1>2, <1>3 DEF RowsOK
  <2> QED
    BY <1>4, <2>1 DEF BlobRows
<1> HIDE DEF v, f0, b0, b, last
<1>8. /\ uploads' \in [Uploads -> UploadRows]
      /\ uploads'[u] = v /\ \A x \in Uploads : x # u => uploads'[x] = uploads[x]
  BY <1>1, <1>2, <1>5 DEF RowsOK
<1>9. /\ files' \in [Uploads -> FileRows]
      /\ files'[u] = f0 /\ \A x \in Uploads : x # u => files'[x] = files[x]
  BY <1>1, <1>2, <1>6 DEF RowsOK
<1>10. /\ sources' \in [Uploads -> {"none", "ready", "trash", "deleting", "deleted"}]
       /\ sources'[u] = "deleted" /\ \A x \in Uploads : x # u => sources'[x] = sources[x]
  BY <1>1, <1>2 DEF RowsOK
<1>11. /\ contributions' \in [Uploads -> Held \cup {"none", "released"}]
       /\ contributions'[u] \notin Held
       /\ \A x \in Uploads : x # u => contributions'[x] = contributions[x]
  BY <1>1, <1>2 DEF RowsOK, Held
<1>12. /\ blobs' \in [Uploads -> BlobRows]
       /\ \A x \in Uploads : x # b => blobs'[x] = blobs[x]
       /\ blobs'[b] = blobs[b] \/ (blobs[b].state = "ready" /\ blobs'[b] = b0)
  BY <1>1, <1>2, <1>3, <1>6, <1>7 DEF RowsOK
<1>13. RowsOK'
  BY <1>1, <1>2, <1>8, <1>9, <1>10, <1>11, <1>12 DEF RowsOK
<1>14. \A x \in Uploads : blobs'[x] = blobs[x] \/ (x = b /\ blobs[x].state = "ready" /\ blobs'[x] = b0)
  BY <1>12
<1>15. ASSUME NEW x \in Uploads
       PROVE  /\ UploadMoves(x) /\ BlobMoves(x) /\ AssetMoves(x)
              /\ FileOK(x)' /\ BytesOK(x)' /\ UnusedOK(x)'
  <2>1. UploadOK(x) /\ FileOK(x) /\ BytesOK(x) /\ UnusedOK(x)
    BY DEF StorageInv
  <2>2. UploadMoves(x)
    <3>1. CASE x = u
      BY <1>3, <1>5, <1>8, <3>1 DEF UploadMoves, UploadOK, Begun, Past, Open
    <3>2. CASE x # u
      BY <1>8, <2>1, <3>2 DEF UploadMoves, UploadOK, Begun, Past
    <3> QED
      BY <3>1, <3>2
  <2>3. BlobMoves(x)
    BY <1>6, <1>14 DEF BlobMoves
  <2>4. AssetMoves(x)
    BY <1>1, <1>3, <1>9, <1>10 DEF AssetMoves
  <2>5. FileOK(x)'
    <3>1. files[x].state # "none" => blobs'[files[x].blob].state # "none"
      BY <1>6, <1>14, <2>1 DEF FileOK
    <3>2. CASE x = u
      BY <1>3, <1>5, <1>6, <1>8, <1>9, <1>10, <3>1, <3>2 DEF FileOK, Past, Open, b
    <3>3. CASE x # u
      BY <1>8, <1>9, <1>10, <2>1, <3>1, <3>3 DEF FileOK, Past
    <3> QED
      BY <3>2, <3>3
  <2>6. BytesOK(x)'
    <3>1. CASE x = u
      BY <1>1, <1>3, <1>5, <1>8, <1>10, <1>11, <2>1, <3>1 DEF BytesOK, Open, Past
    <3>2. CASE x # u
      BY <1>1, <1>8, <1>9, <1>10, <1>11, <2>1, <3>2 DEF BytesOK
    <3> QED
      BY <3>1, <3>2
  <2>7. UnusedOK(x)'
    <3> SUFFICES ASSUME blobs'[x].state = "purging", NEW f \in Uploads,
                        files'[f].state # "none", files'[f].blob = x
                 PROVE  files'[f].state \in {"purging", "deleted"}
      BY DEF UnusedOK
    <3>1. blobs[x].state = "purging"
      BY <1>6, <1>14
    <3>2. CASE f = u
      BY <1>6, <1>9, <3>2
    <3>3. CASE f # u
      BY <1>9, <2>1, <3>1, <3>3 DEF UnusedOK
    <3> QED
      BY <3>2, <3>3
  <2> QED
    BY <2>2, <2>3, <2>4, <2>5, <2>6, <2>7
<1>16. ASSUME NEW q \in Requests PROVE CommitMoves(q)
  <2> SUFFICES ASSUME requests[q].pc = "commit" PROVE CommitMoves(q)
    BY DEF CommitMoves
  <2>1. /\ requests[q].upload \in Uploads
        /\ uploads[requests[q].upload].state = "uploaded_unverified"
    BY DEF StorageInv, RequestOK, CommitOK
  <2>2. requests[q].upload # u
    BY <1>3, <2>1 DEF Past, Open
  <2>3. uploads'[requests[q].upload].state = "uploaded_unverified"
    BY <1>8, <2>1, <2>2
  <2>4. ASSUME NEW c \in Uploads
        PROVE  /\ blobs'[c].state = "purging" => blobs[c].state = "purging"
               /\ Live(c)' => Live(c)
    BY <1>6, <1>14 DEF Live
  <2> QED
    BY <2>3, <2>4 DEF CommitMoves
<1>17. RowsMove
  BY <1>13, <1>15, <1>16 DEF RowsMove
<1>18. usage' \in Usages
  <2> DEFINE n == Minus(usage.used, 1)
  <2>1. n \in Nat
    BY <1>2 DEF Usages, Minus
  <2>2. usage' = [usage EXCEPT !.used = n] \/ usage' = usage
    BY <1>1
  <2> HIDE DEF n
  <2> QED
    BY <1>2, <2>1, <2>2 DEF Usages
<1> QED
  BY <1>1, <1>2, <1>17, <1>18, ObjectsShrink, RequestsStand, WorkersStand DEF Moves

\* A deleted asset is claimed, and its blob with it if no other live file uses
\* it.  No completion is under way, for the claim takes the content's lock.
LEMMA ClaimMoves ==
    ASSUME StorageInv, NEW w \in Workers, NEW a \in Uploads, ClaimJournalAsset(w, a)
    PROVE  Moves
<1> DEFINE b == files[a].blob
           st == IF files[a].state = "ready" THEN "purging" ELSE files[a].state
           f0 == [files[a] EXCEPT !.state = st]
           b0 == [blobs[b] EXCEPT !.state = "purging"]
<1>1. /\ sources[a] = "deleting" /\ lock = Nobody
      /\ contributions' = [contributions EXCEPT ![a] =
            IF contributions[a] \in Held THEN "released" ELSE contributions[a]]
      /\ files' = [files EXCEPT ![a] = f0]
      /\ UNCHANGED <<uploads, reservations, sources, usage, objects, requests, lock, faults>>
  BY DEF ClaimJournalAsset
<1>2. RowsOK /\ usage \in Usages /\ faults \in 0 .. MaxFaults /\ Nobody \notin Requests
      /\ Nobody \notin Uploads /\ workers \in [Workers -> WorkerRows]
  BY TypeIs, NobodyAssumption DEF StorageInv
<1>3. /\ files[a].state # "none" /\ b \in Uploads /\ blobs[b].state # "none"
  BY <1>1 DEF StorageInv, FileOK
<1>4. st \in {"purging", "deleted"} /\ files[a].state \in {"ready", "purging", "deleted"}
  BY <1>3, Fields
<1>5. f0 \in FileRows /\ f0.state = st /\ f0.blob = b
  <2>1. files[a] \in FileRows
    BY <1>2 DEF RowsOK
  <2> HIDE DEF st
  <2> QED
    BY <1>4, <2>1 DEF FileRows
<1>6. /\ b0 \in BlobRows /\ b0.state = "purging" /\ b0.key = blobs[b].key /\ b0.key \in Uploads
  <2>1. blobs[b] \in BlobRows
    BY <1>2, <1>3 DEF RowsOK
  <2> QED
    BY <2>1 DEF BlobRows
<1>7. \/ /\ Purges(b, a) /\ blobs' = [blobs EXCEPT ![b] = b0]
         /\ workers' = [workers EXCEPT ![w] = [IdleWorker EXCEPT !.pc = "purging",
                           !.keys = {blobs[b].key}, !.asset = a, !.blob = b]]
      \/ /\ blobs' = blobs
         /\ workers' = [workers EXCEPT ![w] = [IdleWorker EXCEPT !.pc = "purged", !.asset = a]]
  BY DEF ClaimJournalAsset
<1>8. Purges(b, a) =>
        /\ blobs[b].state \in {"ready", "purging"}
        /\ \A f \in Uploads \ {a} : files[f].state # "none" /\ files[f].blob = b =>
                                       files[f].state \in {"purging", "deleted"}
  BY <1>3 DEF Purges, LastReference, FilesOf, StorageInv, UnusedOK
<1> HIDE DEF f0, b0, b, st
<1>9. /\ files' \in [Uploads -> FileRows]
      /\ files'[a] = f0 /\ \A x \in Uploads : x # a => files'[x] = files[x]
  BY <1>1, <1>2, <1>5 DEF RowsOK
<1>10. /\ contributions' \in [Uploads -> Held \cup {"none", "released"}]
       /\ contributions'[a] \notin Held
       /\ \A x \in Uploads : x # a => contributions'[x] = contributions[x]
  BY <1>1, <1>2 DEF RowsOK, Held
<1>11. /\ blobs' \in [Uploads -> BlobRows]
       /\ \A x \in Uploads : \/ blobs'[x] = blobs[x]
                             \/ x = b /\ blobs'[x] = b0 /\ Purges(b, a)
  BY <1>2, <1>3, <1>6, <1>7 DEF RowsOK
<1>12. RowsOK'
  BY <1>1, <1>2, <1>9, <1>10, <1>11 DEF RowsOK
<1>13. ASSUME NEW x \in Uploads
       PROVE  /\ UploadMoves(x) /\ BlobMoves(x) /\ AssetMoves(x)
              /\ FileOK(x)' /\ BytesOK(x)' /\ UnusedOK(x)'
  <2>1. UploadOK(x) /\ FileOK(x) /\ BytesOK(x) /\ UnusedOK(x)
    BY DEF StorageInv
  <2>2. UploadMoves(x)
    BY <1>1, <2>1 DEF UploadMoves, UploadOK, Begun, Past
  <2>3. BlobMoves(x)
    <3>1. CASE blobs'[x] = blobs[x]
      BY <3>1 DEF BlobMoves
    <3>2. CASE x = b /\ blobs'[x] = b0 /\ Purges(b, a)
      BY <1>6, <1>8, <3>2 DEF BlobMoves
    <3> QED
      BY <1>11, <3>1, <3>2
  <2>4. AssetMoves(x)
    BY <1>1, <1>4, <1>5, <1>9 DEF AssetMoves
  <2>5. FileOK(x)'
    <3>1. files[x].state # "none" => blobs'[files[x].blob].state # "none"
      BY <1>6, <1>11, <2>1 DEF FileOK
    <3>2. CASE x = a
      BY <1>1, <1>3, <1>4, <1>5, <1>9, <2>1, <3>1, <3>2 DEF FileOK, Past, b
    <3>3. CASE x # a
      BY <1>1, <1>9, <2>1, <3>1, <3>3 DEF FileOK, Past
    <3> QED
      BY <3>2, <3>3
  <2>6. BytesOK(x)'
    <3>1. CASE x = a
      BY <1>1, <1>4, <1>5, <1>9, <1>10, <2>1, <3>1 DEF BytesOK
    <3>2. CASE x # a
      BY <1>1, <1>9, <1>10, <2>1, <3>2 DEF BytesOK
    <3> QED
      BY <3>1, <3>2
  <2>7. UnusedOK(x)'
    <3> SUFFICES ASSUME blobs'[x].state = "purging", NEW f \in Uploads,
                        files'[f].state # "none", files'[f].blob = x
                 PROVE  files'[f].state \in {"purging", "deleted"}
      BY DEF UnusedOK
    <3>1. CASE f = a
      BY <1>4, <1>5, <1>9, <3>1
    <3>2. CASE f # a
      <4>1. files'[f] = files[f]
        BY <1>9, <3>2
      <4>2. CASE blobs'[x] = blobs[x]
        BY <2>1, <4>1, <4>2 DEF UnusedOK
      <4>3. CASE x = b /\ Purges(b, a)
        BY <1>8, <3>2, <4>1, <4>3
      <4> QED
        BY <1>11, <4>2, <4>3
    <3> QED
      BY <3>1, <3>2
  <2> QED
    BY <2>2, <2>3, <2>4, <2>5, <2>6, <2>7
<1>14. ASSUME NEW p \in Requests PROVE CommitMoves(p)
  BY <1>1, <1>2 DEF StorageInv, RequestOK, CommitMoves
<1>15. RowsMove
  BY <1>12, <1>13, <1>14 DEF RowsMove
<1>16. WorkersMove
  <2>1. CASE /\ Purges(b, a) /\ blobs' = [blobs EXCEPT ![b] = b0]
             /\ workers' = [workers EXCEPT ![w] = [IdleWorker EXCEPT !.pc = "purging",
                               !.keys = {blobs[b].key}, !.asset = a, !.blob = b]]
    <3> DEFINE v == [IdleWorker EXCEPT !.pc = "purging", !.keys = {blobs[b].key},
                                       !.asset = a, !.blob = b]
    <3>1. /\ v \in WorkerRows /\ v.pc = "purging" /\ v.keys = {blobs[b].key}
          /\ v.asset = a /\ v.blob = b
      BY <1>3, <1>6 DEF IdleWorker, WorkerRows, Usages
    <3>2. workers' = [workers EXCEPT ![w] = v]
      BY <2>1
    <3> HIDE DEF v
    <3>3. workers'[w] = v
      BY <1>2, <3>2
    <3>4. blobs'[b] = b0
      BY <1>2, <1>3, <2>1 DEF RowsOK
    <3>5. PurgeOK(w)'
      BY <1>1, <1>4, <1>5, <1>6, <1>9, <3>1, <3>3, <3>4, <1>2, <1>3 DEF PurgeOK
    <3>6. OrphansOK(w)'
      BY <3>1, <3>3 DEF OrphansOK
    <3> QED
      BY <3>1, <3>2, <3>5, <3>6, WorkerMovesOn
  <2>2. CASE workers' = [workers EXCEPT ![w] = [IdleWorker EXCEPT !.pc = "purged", !.asset = a]]
    <3> DEFINE v == [IdleWorker EXCEPT !.pc = "purged", !.asset = a]
    <3>1. v \in WorkerRows /\ v.pc = "purged" /\ v.asset = a /\ v.blob = Nobody
      BY DEF IdleWorker, WorkerRows, Usages
    <3> HIDE DEF v
    <3>2. workers' = [workers EXCEPT ![w] = v]
      BY <2>2 DEF v
    <3>3. workers'[w] = v
      BY <1>2, <3>2
    <3>4. PurgeOK(w)'
      BY <1>1, <1>4, <1>5, <1>9, <3>1, <3>3 DEF PurgeOK
    <3>5. OrphansOK(w)'
      BY <3>1, <3>3 DEF OrphansOK
    <3> QED
      BY <3>1, <3>2, <3>4, <3>5, WorkerMovesOn
  <2> QED
    BY <1>7, <2>1, <2>2
<1> QED
  BY <1>1, <1>2, <1>15, <1>16, ObjectsShrink, RequestsStand DEF Moves

\* A purge is completed after its object is gone, or was completed before.
LEMMA CompletePurgeMoves ==
    ASSUME StorageInv, NEW w \in Workers, CompleteJournalAssetPurge(w)
    PROVE  Moves
<1> DEFINE a == workers[w].asset
           b == workers[w].blob
           st == IF files[a].state = "purging" THEN "deleted" ELSE files[a].state
           f0 == [files[a] EXCEPT !.state = st]
           b0 == [blobs[b] EXCEPT !.state = "deleted"]
           v == [workers[w] EXCEPT !.pc = "sums"]
<1>1. /\ workers[w].pc = "purged"
      /\ UNCHANGED <<uploads, reservations, contributions, usage, objects, requests, lock, faults,
                     overtaken>>
  BY DEF CompleteJournalAssetPurge
<1>2. RowsOK /\ usage \in Usages /\ faults \in 0 .. MaxFaults
      /\ workers \in [Workers -> WorkerRows] /\ workers[w] \in WorkerRows
      /\ b \in Uploads \cup {Nobody}
  BY Fields, TypeIs DEF StorageInv
<1>3. /\ a \in Uploads /\ sources[a] \in {"deleting", "deleted"}
      /\ files[a].state \in {"purging", "deleted"}
      /\ b # Nobody => blobs[b].key \notin objects
  BY <1>1 DEF StorageInv, PurgeOK
<1>4. CASE /\ workers' = [workers EXCEPT ![w] = IdleWorker] /\ UNCHANGED <<blobs, files, sources>>
  <2>1. UNCHANGED database
    BY <1>1, <1>4 DEF database
  <2>2. WorkersMove
    BY <1>4, IdleWorkerIs, WorkerRests
  <2> QED
    BY <1>1, <1>2, <2>1, <2>2, QuietMoves, RequestsStand
<1>5. CASE /\ b # Nobody => blobs[b].state = "purging"
           /\ blobs' = IF b = Nobody THEN blobs ELSE [blobs EXCEPT ![b] = b0]
           /\ files' = [files EXCEPT ![a] = f0]
           /\ sources' = [sources EXCEPT ![a] =
                 IF sources[a] = "deleting" THEN "deleted" ELSE sources[a]]
           /\ workers' = [workers EXCEPT ![w] = v]
  <2>1. v \in WorkerRows /\ v.pc = "sums"
    BY <1>2 DEF WorkerRows
  <2>2. WorkersMove
    <3> HIDE DEF v
    <3> QED
      BY <1>5, <2>1, WorkerRests
  <2>3. f0 \in FileRows /\ f0.state = "deleted" /\ f0.blob = files[a].blob
    <3>1. files[a] \in FileRows /\ st = "deleted"
      BY <1>2, <1>3 DEF RowsOK
    <3> HIDE DEF st
    <3> QED
      BY <3>1 DEF FileRows
  <2>4. b # Nobody => b0 \in BlobRows /\ b0.state = "deleted" /\ b0.key = blobs[b].key
    <3> SUFFICES ASSUME b # Nobody
                 PROVE  b0 \in BlobRows /\ b0.state = "deleted" /\ b0.key = blobs[b].key
      OBVIOUS
    <3>1. blobs[b] \in BlobRows
      BY <1>2 DEF RowsOK
    <3> QED
      BY <3>1 DEF BlobRows
  <2> HIDE DEF f0, b0, a, b, st
  <2>5. /\ files' \in [Uploads -> FileRows]
        /\ files'[a] = f0 /\ \A x \in Uploads : x # a => files'[x] = files[x]
    BY <1>2, <1>3, <1>5, <2>3 DEF RowsOK
  <2>6. /\ sources' \in [Uploads -> {"none", "ready", "trash", "deleting", "deleted"}]
        /\ sources'[a] = "deleted" /\ \A x \in Uploads : x # a => sources'[x] = sources[x]
    BY <1>2, <1>3, <1>5 DEF RowsOK
  <2>7. /\ blobs' \in [Uploads -> BlobRows]
        /\ \A x \in Uploads : \/ blobs'[x] = blobs[x]
                              \/ /\ x = b /\ blobs'[x] = b0 /\ b # Nobody
                                 /\ blobs[x].state = "purging" /\ blobs[x].key \notin objects
    BY <1>2, <1>3, <1>5, <2>4 DEF RowsOK
  <2>8. RowsOK'
    BY <1>1, <1>2, <2>5, <2>6, <2>7 DEF RowsOK
  <2>9. ASSUME NEW x \in Uploads
        PROVE  /\ UploadMoves(x) /\ BlobMoves(x) /\ AssetMoves(x)
               /\ FileOK(x)' /\ BytesOK(x)' /\ UnusedOK(x)'
    <3>1. UploadOK(x) /\ FileOK(x) /\ BytesOK(x) /\ UnusedOK(x)
      BY DEF StorageInv
    <3>2. UploadMoves(x)
      BY <1>1, <3>1 DEF UploadMoves, UploadOK, Begun, Past
    <3>3. BlobMoves(x)
      <4>1. CASE blobs'[x] = blobs[x]
        BY <4>1 DEF BlobMoves
      <4>2. CASE /\ x = b /\ blobs'[x] = b0 /\ b # Nobody
                 /\ blobs[x].state = "purging" /\ blobs[x].key \notin objects
        BY <2>4, <4>2 DEF BlobMoves
      <4> QED
        BY <2>7, <4>1, <4>2
    <3>4. AssetMoves(x)
      BY <2>3, <2>5, <2>6 DEF AssetMoves
    <3>5. FileOK(x)'
      <4>1. files[x].state # "none" => blobs'[files[x].blob].state # "none"
        BY <2>4, <2>7, <3>1 DEF FileOK
      <4>2. CASE x = a
        BY <1>1, <1>3, <2>3, <2>5, <2>6, <3>1, <4>1, <4>2 DEF FileOK, Past
      <4>3. CASE x # a
        BY <1>1, <2>5, <2>6, <3>1, <4>1, <4>3 DEF FileOK, Past
      <4> QED
        BY <4>2, <4>3
    <3>6. BytesOK(x)'
      <4>1. CASE x = a
        BY <1>1, <1>3, <2>3, <2>5, <2>6, <3>1, <4>1 DEF BytesOK
      <4>2. CASE x # a
        BY <1>1, <2>5, <2>6, <3>1, <4>2 DEF BytesOK
      <4> QED
        BY <4>1, <4>2
    <3>7. UnusedOK(x)'
      <4> SUFFICES ASSUME blobs'[x].state = "purging", NEW f \in Uploads,
                          files'[f].state # "none", files'[f].blob = x
                   PROVE  files'[f].state \in {"purging", "deleted"}
        BY DEF UnusedOK
      <4>1. blobs[x].state = "purging"
        BY <2>4, <2>7
      <4>2. CASE f = a
        BY <2>3, <2>5, <4>2
      <4>3. CASE f # a
        BY <2>5, <3>1, <4>1, <4>3 DEF UnusedOK
      <4> QED
        BY <4>2, <4>3
    <3> QED
      BY <3>2, <3>3, <3>4, <3>5, <3>6, <3>7
  <2>10. ASSUME NEW q \in Requests PROVE CommitMoves(q)
    <3>1. ASSUME NEW c \in Uploads
          PROVE  /\ blobs'[c].state = "purging" => blobs[c].state = "purging"
                 /\ Live(c)' => Live(c)
      BY <2>4, <2>7 DEF Live
    <3> QED
      BY <1>1, <3>1 DEF StorageInv, CommitOK, CommitMoves
  <2>11. RowsMove
    BY <2>8, <2>9, <2>10 DEF RowsMove
  <2> QED
    BY <1>1, <1>2, <2>2, <2>11, ObjectsShrink, RequestsStand DEF Moves
<1> QED
  BY <1>4, <1>5 DEF CompleteJournalAssetPurge, WorkerAt

-----------------------------------------------------------------------------
(* The moves together.                                                      *)

\* Every step of a request makes only the moves.
LEMMA RequestStepMoves ==
    ASSUME StorageInv, NEW q \in Requests, RequestStep(q)
    PROVE  Moves
BY HeadObjectMoves, RejectMoves, DropObjectMoves, LookupMoves, HealMoves, CompleteBeginMoves,
   CompleteCommitMoves, RequestStopsMoves DEF RequestStep

\* Every step of a worker makes only the moves.
LEMMA WorkerStepMoves ==
    ASSUME StorageInv, NEW w \in Workers, WorkerStep(w)
    PROVE  Moves
BY ExpireMoves, DropExpiredMoves, ReadSumsMoves, WriteUsageMoves, ClaimMoves, DeletePurgedMoves,
   CompletePurgeMoves, ListOrphansMoves, DropOrphanMoves DEF WorkerStep

\* Every step of a user makes only the moves.
LEMMA UserStepMoves ==
    ASSUME StorageInv, NEW u \in Uploads, UserStep(u)
    PROVE  Moves
BY CreateMoves, ClientPutMoves, SourceMoves, DeleteMessageMoves DEF UserStep

\* Every step keeps the invariant.
LEMMA NextKeepsInv == StorageInv /\ [Next]_vars => StorageInv'
<1> SUFFICES ASSUME StorageInv, [Next]_vars PROVE Moves
  BY MovesKeepInv
<1>1. ASSUME NEW u \in Uploads, UserStep(u) \/ TimePasses(u) PROVE Moves
  BY <1>1, UserStepMoves, TimePassesMoves
<1>2. ASSUME NEW q \in Requests, NEW u \in Uploads, FinalizeUpload(q, u) PROVE Moves
  BY <1>2, FinalizeMoves
<1>3. ASSUME NEW q \in Requests, RequestStep(q) \/ HeadFails(q) \/ RejectFails(q) \/ Abandon(q)
      PROVE  Moves
  BY <1>3, RequestStepMoves, HeadObjectMoves, RequestStopsMoves
<1>4. ASSUME NEW w \in Workers, WorkerStep(w) \/ WorkerFails(w) PROVE Moves
  BY <1>4, WorkerStepMoves, WorkerFailsMoves
<1>5. CASE UNCHANGED vars
  <2>1. UNCHANGED <<database, usage, objects, requests, lock, workers, faults>>
    BY <1>5 DEF vars, database
  <2>2. faults \in 0 .. MaxFaults
    BY TypeIs DEF StorageInv
  <2> QED
    BY <2>1, <2>2, QuietMoves, RequestsStand, WorkersStand
<1> QED
  BY <1>1, <1>2, <1>3, <1>4, <1>5 DEF Next

\* The invariant holds in an empty Space.
LEMMA InitHasInv == Init => StorageInv
<1> SUFFICES ASSUME Init PROVE StorageInv
  OBVIOUS
<1>1. /\ NoUpload \in UploadRows /\ NoUpload.state = "none"
      /\ IdleRequest \in RequestRows /\ IdleRequest.pc = "idle"
      /\ IdleWorker \in WorkerRows /\ IdleWorker.pc = "idle"
  BY IdleWorkerIs DEF NoUpload, UploadRows, UploadStates, Purposes, IdleRequest, RequestRows
<1>2. RowsOK
  BY <1>1 DEF Init, RowsOK, BlobRows, FileRows
<1>3. StorageTypeOK
  BY <1>1, <1>2, TypeIs, QuotaAssumption DEF Init, Usages
<1>4. ASSUME NEW u \in Uploads
      PROVE  UploadOK(u) /\ BlobOK(u) /\ FileOK(u) /\ BytesOK(u) /\ UnusedOK(u)
  BY <1>1 DEF Init, UploadOK, BlobOK, FileOK, BytesOK, UnusedOK, Open, Held
<1>5. OneLiveBlob
  BY DEF Init, OneLiveBlob, Live
<1>6. ASSUME NEW q \in Requests PROVE RequestOK(q) /\ CommitOK(q) /\ DiscardOK(q)
  BY <1>1, NobodyAssumption DEF Init, RequestOK, CommitOK, DiscardOK
<1>7. ASSUME NEW w \in Workers PROVE PurgeOK(w) /\ OrphansOK(w)
  BY <1>1 DEF Init, PurgeOK, OrphansOK
<1> QED
  BY <1>3, <1>4, <1>5, <1>6, <1>7 DEF StorageInv

-----------------------------------------------------------------------------
(* Live files and their blobs.                                              *)

\* A step that leaves files and history alone, takes no blob from ready and
\* brings no request to its commit.
LEMMA LiveStands ==
    ASSUME StorageInv, LiveInv, UNCHANGED <<files, overtaken>>,
           \A b \in Uploads : blobs[b].state = "ready" => blobs'[b].state = "ready",
           \A q \in Requests : requests'[q].pc = "commit" => requests'[q] = requests[q]
    PROVE  LiveInv'
<1>1. \A f \in Uploads : files[f].state = "ready" => files[f].blob \in Uploads
  BY DEF StorageInv, FileOK
<1>2. \A q \in Requests : requests[q].key \in Uploads \cup {Nobody}
  BY Fields
<1> QED
  BY <1>1, <1>2 DEF LiveInv

\* Steps of users and workers that change neither files nor blobs.
LEMMA OthersLive ==
    ASSUME StorageInv, LiveInv,
           \/ \E u \in Uploads : \/ \E p \in Purposes : CreateLibraryUpload(u, p)
                                 \/ ClientPut(u) \/ TimePasses(u)
                                 \/ TrashLibraryItem(u) \/ RestoreLibraryItem(u) \/ DeleteAsset(u)
           \/ \E w \in Workers : \/ ExpireLibraryUploads(w) \/ DropExpired(w) \/ ReadSums(w)
                                 \/ WriteUsage(w) \/ DeletePurged(w) \/ ListOrphans(w)
                                 \/ DropOrphan(w) \/ WorkerFails(w)
    PROVE  LiveInv'
<1>1. UNCHANGED <<files, blobs, overtaken, requests>>
  BY DEF database, CreateLibraryUpload, ClientPut, TimePasses, TrashLibraryItem,
         RestoreLibraryItem, DeleteAsset, ExpireLibraryUploads, DropExpired, ReadSums, WriteUsage,
         DeletePurged, ListOrphans, DropOrphan, WorkerFails
<1> QED
  BY <1>1, LiveStands

\* Steps of a request that is not, or no longer, at its commit.
LEMMA RequestsLive ==
    ASSUME StorageInv, LiveInv, NEW q \in Requests,
           \/ \E u \in Uploads : FinalizeUpload(q, u)
           \/ HeadObject(q) \/ HeadFails(q) \/ RejectLibraryUpload(q) \/ RejectFails(q)
           \/ DropObject(q) \/ LibraryUploadDeduplicationObjectKey(q) \/ HeadDuplicate(q)
           \/ ReplaceMissingLibraryUploadDeduplicationObject(q)
           \/ CompleteRefused(q) \/ Abandon(q)
    PROVE  LiveInv'
<1>1. requests \in [Requests -> RequestRows] /\ blobs \in [Uploads -> BlobRows]
  BY TypeIs DEF StorageInv, RowsOK
<1>2. UNCHANGED <<files, overtaken>>
  BY DEF database, FinalizeUpload, HeadObject, HeadFails, RejectLibraryUpload, RejectFails,
         DropObject, LibraryUploadDeduplicationObjectKey, HeadDuplicate,
         ReplaceMissingLibraryUploadDeduplicationObject, CompleteRefused, Abandon
<1>3. \A b \in Uploads : blobs'[b].state = blobs[b].state
  <2>1. CASE ReplaceMissingLibraryUploadDeduplicationObject(q)
    <3>1. PICK M \in SUBSET Uploads, k \in Uploads \cup {Nobody} :
            \/ blobs' = [b \in Uploads |-> IF b \in M THEN [blobs[b] EXCEPT !.key = k] ELSE blobs[b]]
            \/ blobs' = blobs
      <4>1. {b \in ReadyBlobs : blobs[b].key = requests[q].key} \in SUBSET Uploads
        BY DEF ReadyBlobs
      <4>2. requests[q].upload \in Uploads \cup {Nobody}
        BY <1>1 DEF RequestRows
      <4> QED
        BY <2>1, <4>1, <4>2 DEF ReplaceMissingLibraryUploadDeduplicationObject
    <3> QED
      BY <1>1, <3>1 DEF BlobRows
  <2>2. CASE ~ReplaceMissingLibraryUploadDeduplicationObject(q)
    <3>1. UNCHANGED blobs
      BY <2>2
      DEF database, FinalizeUpload, HeadObject, HeadFails, RejectLibraryUpload, RejectFails,
          DropObject, LibraryUploadDeduplicationObjectKey, HeadDuplicate, CompleteRefused, Abandon
    <3> QED
      BY <3>1
  <2> QED
    BY <2>1, <2>2
<1>4. PICK v : requests' = [requests EXCEPT ![q] = v] /\ v.pc # "commit"
  <2>1. requests[q] \in RequestRows
    BY <1>1
  <2>2. ASSUME NEW pc, pc # "commit", Goto(q, pc)
        PROVE  \E v : requests' = [requests EXCEPT ![q] = v] /\ v.pc # "commit"
    <3>1. [requests[q] EXCEPT !.pc = pc].pc # "commit"
      BY <2>1, <2>2 DEF RequestRows
    <3> QED
      BY <2>2, <3>1 DEF Goto
  <2>3. ASSUME NEW pc, NEW k, pc # "commit", GotoWith(q, pc, k)
        PROVE  \E v : requests' = [requests EXCEPT ![q] = v] /\ v.pc # "commit"
    <3>1. [requests[q] EXCEPT !.pc = pc, !.key = k].pc # "commit"
      BY <2>1, <2>3 DEF RequestRows
    <3> QED
      BY <2>3, <3>1 DEF GotoWith
  <2>4. ASSUME Finish(q)
        PROVE  \E v : requests' = [requests EXCEPT ![q] = v] /\ v.pc # "commit"
    <3>1. IdleRequest.pc # "commit"
      BY DEF IdleRequest
    <3> QED
      BY <2>4, <3>1 DEF Finish
  <2>5. ASSUME NEW u \in Uploads, FinalizeUpload(q, u)
        PROVE  \E v : requests' = [requests EXCEPT ![q] = v] /\ v.pc # "commit"
    <3> DEFINE v == [pc |-> "head", upload |-> u, key |-> Nobody]
    <3>1. requests' = [requests EXCEPT ![q] = v]
      BY <2>5 DEF FinalizeUpload
    <3>2. v.pc # "commit"
      OBVIOUS
    <3> HIDE DEF v
    <3> QED
      BY <3>1, <3>2
  <2>6. CASE HeadObject(q) \/ HeadFails(q) \/ RejectLibraryUpload(q) \/ RejectFails(q)
    BY <2>6, <2>2 DEF HeadObject, HeadFails, RejectLibraryUpload, RejectFails
  <2>7. CASE DropObject(q) \/ CompleteRefused(q) \/ Abandon(q)
    BY <2>7, <2>4 DEF DropObject, CompleteRefused, Abandon
  <2>8. CASE LibraryUploadDeduplicationObjectKey(q) \/ HeadDuplicate(q)
             \/ ReplaceMissingLibraryUploadDeduplicationObject(q)
    BY <2>8, <2>2, <2>3, <2>4
    DEF LibraryUploadDeduplicationObjectKey, HeadDuplicate,
        ReplaceMissingLibraryUploadDeduplicationObject
  <2> QED
    BY <2>5, <2>6, <2>7, <2>8
<1>5. \A p \in Requests : requests'[p].pc = "commit" => requests'[p] = requests[p]
  BY <1>1, <1>4
<1> QED
  BY <1>2, <1>3, <1>5, LiveStands

\* A completion that begins has just read a ready blob, or none.
LEMMA CompleteBeginLive ==
    ASSUME StorageInv, LiveInv, NEW q \in Requests, CompleteBegin(q)
    PROVE  LiveInv'
<1>1. /\ requests \in [Requests -> RequestRows]
      /\ UNCHANGED <<files, blobs, overtaken>>
  BY TypeIs DEF StorageInv, CompleteBegin, database
<1>2. \A p \in Requests : p # q => requests'[p] = requests[p]
  BY <1>1 DEF CompleteBegin, GotoWith, Finish
<1>3. requests'[q].pc = "commit" /\ requests'[q].key # Nobody =>
        blobs[requests'[q].key].state = "ready"
  BY <1>1 DEF CompleteBegin, GotoWith, Finish, IdleRequest, RequestRows, ReadyBlobs
<1>4. \A f \in Uploads : files'[f].state = "ready" =>
        blobs'[files'[f].blob].state = "ready" \/ files'[f].blob \in overtaken'
  BY <1>1 DEF LiveInv
<1>5. ASSUME NEW p \in Requests, requests'[p].pc = "commit", requests'[p].key # Nobody
      PROVE  blobs'[requests'[p].key].state = "ready" \/ requests'[p].key \in overtaken'
  <2>1. CASE p = q
    BY <1>1, <1>3, <1>5, <2>1
  <2>2. CASE p # q
    BY <1>1, <1>2, <1>5, <2>2 DEF LiveInv
  <2> QED
    BY <2>1, <2>2
<1>6. overtaken' \subseteq Uploads
  BY <1>1 DEF LiveInv
<1> QED
  BY <1>4, <1>5, <1>6 DEF LiveInv

\* A completion that commits gives its file the blob it read or inserts one.
LEMMA CompleteCommitLive ==
    ASSUME StorageInv, LiveInv, NEW q \in Requests, CompleteCommit(q)
    PROVE  LiveInv'
<1> DEFINE u == requests[q].upload
<1> DEFINE shared == requests[q].key
<1> DEFINE blob == IF shared = Nobody THEN u ELSE shared
<1>1. /\ requests \in [Requests -> RequestRows] /\ blobs \in [Uploads -> BlobRows]
      /\ files \in [Uploads -> FileRows]
      /\ requests[q].pc = "commit" /\ overtaken' = overtaken
      /\ u \in Uploads /\ shared \in Uploads \cup {Nobody}
  BY TypeIs, Fields DEF StorageInv, RowsOK, RequestOK, CompleteCommit
<1>2. /\ files' = [files EXCEPT ![u] = [state |-> "ready", blob |-> blob]]
      /\ blobs' = IF shared = Nobody THEN [blobs EXCEPT ![u] = [state |-> "ready", key |-> u]]
                                     ELSE blobs
  BY DEF CompleteCommit
<1>3. \A b \in Uploads : blobs[b].state = "ready" => blobs'[b].state = "ready"
  BY <1>1, <1>2
<1>4. blob \in Uploads /\ (blobs'[blob].state = "ready" \/ blob \in overtaken)
  BY <1>1, <1>2 DEF LiveInv
<1>5. ASSUME NEW f \in Uploads, files'[f].state = "ready"
      PROVE  blobs'[files'[f].blob].state = "ready" \/ files'[f].blob \in overtaken'
  <2>1. CASE f = u
    BY <1>1, <1>2, <1>4, <2>1
  <2>2. CASE f # u
    <3>1. files'[f] = files[f] /\ files[f].blob \in Uploads
      BY <1>1, <1>2, <1>5, <2>2 DEF StorageInv, FileOK
    <3> QED
      BY <1>1, <1>3, <1>5, <3>1 DEF LiveInv
  <2> QED
    BY <2>1, <2>2
<1>6. \A p \in Requests : requests'[p].pc = "commit" => requests'[p] = requests[p]
  BY <1>1 DEF CompleteCommit, Goto, Finish, IdleRequest, RequestRows
<1>7. ASSUME NEW p \in Requests, requests'[p].pc = "commit", requests'[p].key # Nobody
      PROVE  blobs'[requests'[p].key].state = "ready" \/ requests'[p].key \in overtaken'
  <2>1. requests'[p] = requests[p] /\ requests[p].key \in Uploads
    BY <1>6, <1>7, Fields
  <2> QED
    BY <1>1, <1>3, <1>7, <2>1 DEF LiveInv
<1>8. overtaken' \subseteq Uploads
  BY <1>1 DEF LiveInv
<1> QED
  BY <1>5, <1>7, <1>8 DEF LiveInv

\* The deletion of a message takes a blob that no other file uses, and is
\* remembered when a completion has read it.
LEMMA DeleteMessageLive ==
    ASSUME StorageInv, LiveInv, NEW u \in Uploads, DeleteMessage(u)
    PROVE  LiveInv'
<1> DEFINE b == files[u].blob
<1> DEFINE last == \A f \in FilesOf(b) \ {u} : files[f].state = "deleted"
<1> DEFINE readers == {q \in Requests : requests[q].pc = "commit" /\ requests[q].key = b}
<1>1. /\ blobs \in [Uploads -> BlobRows] /\ files \in [Uploads -> FileRows]
      /\ b \in Uploads /\ UNCHANGED requests
      /\ overtaken \subseteq Uploads
  BY TypeIs DEF StorageInv, RowsOK, FileOK, DeleteMessage, LiveInv
<1>2. /\ files' = [files EXCEPT ![u].state = "deleted"]
      /\ blobs' = IF last THEN [blobs EXCEPT ![b].state = "deleted"] ELSE blobs
      /\ overtaken' = IF last /\ readers # {} THEN overtaken \cup {b} ELSE overtaken
  BY DEF DeleteMessage
<1>3. /\ overtaken \subseteq overtaken' /\ overtaken' \subseteq Uploads
      /\ \A c \in Uploads : c # b => blobs'[c] = blobs[c]
      /\ ~last => blobs' = blobs
      /\ last /\ readers # {} => b \in overtaken'
  BY <1>1, <1>2
<1>4. files'[u].state = "deleted" /\ \A f \in Uploads : f # u => files'[f] = files[f]
  BY <1>1, <1>2 DEF FileRows
<1>5. ASSUME NEW f \in Uploads, files'[f].state = "ready"
      PROVE  blobs'[files'[f].blob].state = "ready" \/ files'[f].blob \in overtaken'
  <2>1. f # u /\ files'[f] = files[f] /\ files[f].blob \in Uploads /\ files[f].state = "ready"
    BY <1>4, <1>5 DEF StorageInv, FileOK
  <2>2. files[f].blob = b => ~last
    BY <2>1 DEF FilesOf
  <2> HIDE DEF last, b, readers
  <2>3. blobs'[files[f].blob] = blobs[files[f].blob]
    BY <1>3, <2>1, <2>2
  <2> QED
    BY <1>3, <2>1, <2>3 DEF LiveInv
<1>6. ASSUME NEW p \in Requests, requests'[p].pc = "commit", requests'[p].key # Nobody
      PROVE  blobs'[requests'[p].key].state = "ready" \/ requests'[p].key \in overtaken'
  <2>1. requests'[p] = requests[p] /\ requests[p].key \in Uploads
    BY <1>1, <1>6, Fields
  <2>2. requests[p].key = b => p \in readers
    BY <1>6, <2>1
  <2> HIDE DEF last, b, readers
  <2>3. CASE requests[p].key = b /\ last
    BY <1>3, <2>1, <2>2, <2>3
  <2>4. CASE ~(requests[p].key = b /\ last)
    <3>1. blobs'[requests[p].key] = blobs[requests[p].key]
      BY <1>3, <2>1, <2>4
    <3> QED
      BY <1>3, <1>6, <2>1, <3>1 DEF LiveInv
  <2> QED
    BY <2>3, <2>4
<1> QED
  BY <1>3, <1>5, <1>6 DEF LiveInv

\* A purge claims a blob that no live file uses, while nobody commits.
LEMMA ClaimLive ==
    ASSUME StorageInv, LiveInv, NEW w \in Workers, NEW a \in Uploads, ClaimJournalAsset(w, a)
    PROVE  LiveInv'
<1> DEFINE b == files[a].blob
<1>1. /\ blobs \in [Uploads -> BlobRows] /\ files \in [Uploads -> FileRows]
      /\ b \in Uploads /\ UNCHANGED <<requests, overtaken>> /\ lock = Nobody
  BY TypeIs DEF StorageInv, RowsOK, FileOK, ClaimJournalAsset
<1>2. /\ files' = [files EXCEPT ![a].state = IF @ = "ready" THEN "purging" ELSE @]
      /\ \/ Purges(b, a) /\ blobs' = [blobs EXCEPT ![b].state = "purging"]
         \/ ~Purges(b, a) /\ blobs' = blobs
  BY DEF ClaimJournalAsset
<1>3. files'[a].state # "ready" /\ \A f \in Uploads : f # a => files'[f] = files[f]
  BY <1>1, <1>2 DEF FileRows
<1>4. \A c \in Uploads : c # b => blobs'[c] = blobs[c]
  BY <1>1, <1>2
<1>5. ASSUME NEW f \in Uploads, files'[f].state = "ready"
      PROVE  blobs'[files'[f].blob].state = "ready" \/ files'[f].blob \in overtaken'
  <2>1. f # a /\ files'[f] = files[f] /\ files[f].blob \in Uploads /\ files[f].state = "ready"
    BY <1>3, <1>5 DEF StorageInv, FileOK
  <2>2. files[f].blob = b => ~Purges(b, a)
    BY <1>1, <2>1 DEF Purges, LastReference, FilesOf, StorageInv, UnusedOK
  <2>3. blobs'[files[f].blob] = blobs[files[f].blob]
    BY <1>2, <1>4, <2>1, <2>2
  <2> QED
    BY <1>1, <2>1, <2>3 DEF LiveInv
<1>6. \A q \in Requests : requests'[q].pc # "commit"
  BY <1>1, NobodyAssumption DEF StorageInv, RequestOK
<1> QED
  BY <1>1, <1>5, <1>6 DEF LiveInv

\* A purge is completed on a blob that no live file uses.
LEMMA CompletePurgeLive ==
    ASSUME StorageInv, LiveInv, NEW w \in Workers, CompleteJournalAssetPurge(w)
    PROVE  LiveInv'
<1> DEFINE a == workers[w].asset
<1> DEFINE b == workers[w].blob
<1>1. /\ blobs \in [Uploads -> BlobRows] /\ files \in [Uploads -> FileRows]
      /\ a \in Uploads /\ b \in Uploads \cup {Nobody} /\ UNCHANGED <<requests, overtaken>>
  BY TypeIs, Fields DEF StorageInv, RowsOK, PurgeOK, CompleteJournalAssetPurge
<1>2. CASE UNCHANGED <<blobs, files>>
  BY <1>1, <1>2, LiveStands
<1>3. CASE /\ blobs' = IF b = Nobody THEN blobs ELSE [blobs EXCEPT ![b].state = "deleted"]
           /\ files' = [files EXCEPT ![a].state = IF @ = "purging" THEN "deleted" ELSE @]
           /\ b # Nobody => blobs[b].state = "purging"
  <2>1. \A f \in Uploads : files'[f].state = "ready" => files'[f] = files[f]
    BY <1>1, <1>3 DEF FileRows
  <2>2. \A c \in Uploads : blobs'[c] = blobs[c] \/ blobs[c].state = "purging"
    BY <1>1, <1>3
  <2>3. ASSUME NEW f \in Uploads, files'[f].state = "ready"
        PROVE  blobs'[files'[f].blob].state = "ready" \/ files'[f].blob \in overtaken'
    <3>1. files'[f] = files[f] /\ files[f].blob \in Uploads /\ files[f].state = "ready"
      BY <2>1, <2>3 DEF StorageInv, FileOK
    <3>2. blobs[files[f].blob].state # "purging"
      BY <3>1 DEF StorageInv, UnusedOK
    <3> QED
      BY <1>1, <2>2, <3>1, <3>2 DEF LiveInv
  <2>4. ASSUME NEW p \in Requests, requests'[p].pc = "commit", requests'[p].key # Nobody
        PROVE  blobs'[requests'[p].key].state = "ready" \/ requests'[p].key \in overtaken'
    <3>1. requests'[p] = requests[p] /\ requests[p].key \in Uploads
      BY <1>1, <2>4, Fields
    <3> QED
      BY <1>1, <2>2, <2>4, <3>1 DEF LiveInv
  <2> QED
    BY <1>1, <2>3, <2>4 DEF LiveInv
<1> QED
  BY <1>2, <1>3 DEF CompleteJournalAssetPurge

\* Every step keeps the account of live files.
LEMMA NextKeepsLive == StorageInv /\ LiveInv /\ [Next]_vars => LiveInv'
<1> SUFFICES ASSUME StorageInv, LiveInv, [Next]_vars PROVE LiveInv'
  OBVIOUS
<1>1. ASSUME NEW u \in Uploads, UserStep(u) \/ TimePasses(u) PROVE LiveInv'
  BY <1>1, OthersLive, DeleteMessageLive DEF UserStep
<1>2. ASSUME NEW q \in Requests,
             \/ \E u \in Uploads : FinalizeUpload(q, u)
             \/ RequestStep(q) \/ HeadFails(q) \/ RejectFails(q) \/ Abandon(q)
      PROVE  LiveInv'
  BY <1>2, RequestsLive, CompleteBeginLive, CompleteCommitLive DEF RequestStep
<1>3. ASSUME NEW w \in Workers, WorkerStep(w) \/ WorkerFails(w) PROVE LiveInv'
  BY <1>3, OthersLive, ClaimLive, CompletePurgeLive DEF WorkerStep
<1>4. CASE UNCHANGED vars
  BY <1>4, LiveStands DEF vars
<1> QED
  BY <1>1, <1>2, <1>3, <1>4 DEF Next

-----------------------------------------------------------------------------
(* The counter of reserved bytes.                                           *)

Reserving == {u \in Uploads : reservations[u] = "active"}

\* A step changes the counter as it changes the rows.
CounterInStep == usage'.reserved = Minus(usage.reserved + Actual'.reserved, Actual.reserved)

\* The active reservations are finitely many, and what the sums count.
LEMMA ReservingCounted ==
    /\ IsFiniteSet(Reserving) /\ Cardinality(Reserving) \in Nat
    /\ Actual.reserved = Cardinality(Reserving) /\ Actual'.reserved = Cardinality(Reserving')
    /\ \A S \in SUBSET Reserving : IsFiniteSet(S) /\ Cardinality(S) \in Nat
<1>1. \A S \in SUBSET Uploads : IsFiniteSet(S) /\ Cardinality(S) \in Nat
  BY UploadsAssumption, FS_Subset, FS_CardinalityType
<1>2. Reserving \in SUBSET Uploads
  BY DEF Reserving
<1>3. Actual.reserved = Cardinality(Reserving) /\ Actual'.reserved = Cardinality(Reserving')
  BY DEF Actual, Reserving
<1> QED
  BY <1>1, <1>2, <1>3

\* Reservations end, and the counter goes down by their number.
LEMMA CounterFalls ==
    ASSUME StorageInv, NEW E \in SUBSET Reserving, Reserving' = Reserving \ E,
           usage'.reserved = Minus(usage.reserved, Cardinality(E))
    PROVE  CounterInStep
<1> DEFINE n == Cardinality(Reserving)
           e == Cardinality(E)
<1>1. n \in Nat /\ e \in Nat /\ Actual.reserved = n /\ Actual'.reserved = Cardinality(Reserving')
  BY ReservingCounted
<1>2. usage.reserved \in Nat
  BY TypeIs DEF StorageInv, Usages
<1>3. Reserving \cap E = E
  OBVIOUS
<1>4. Cardinality(Reserving') = n - e
  <2>1. Cardinality(Reserving \ E) = Cardinality(Reserving) - Cardinality(Reserving \cap E)
    BY ReservingCounted, FS_Difference, Zenon
  <2> QED
    BY <1>3, <2>1, Zenon
<1> HIDE DEF n, e
<1>5. Minus(usage.reserved + (n - e), n) = Minus(usage.reserved, e)
  BY <1>1, <1>2 DEF Minus
<1> QED
  BY <1>1, <1>4, <1>5 DEF CounterInStep, e

\* Neither rows nor counter change.
LEMMA CounterStands ==
    ASSUME StorageInv, UNCHANGED <<reservations, usage.reserved>>
    PROVE  CounterInStep
<1>1. Reserving' = Reserving \ {}
  BY DEF Reserving
<1>2. Cardinality({}) = 0 /\ usage.reserved \in Nat
  BY FS_EmptySet, TypeIs DEF StorageInv, Usages
<1>3. usage'.reserved = Minus(usage.reserved, Cardinality({}))
  BY <1>2 DEF Minus
<1> QED
  BY <1>1, <1>3, CounterFalls

\* One reservation ends.
LEMMA CounterFallsByOne ==
    ASSUME StorageInv, NEW u \in Uploads, NEW outcome \in {"consumed", "released"},
           reservations[u] = "active", reservations' = Settle(u, outcome),
           usage'.reserved = Minus(usage.reserved, 1)
    PROVE  CounterInStep
<1>1. reservations \in [Uploads -> {"none", "active", "consumed", "released"}]
  BY TypeIs DEF StorageInv, RowsOK
<1>2. reservations' = [reservations EXCEPT ![u] = outcome]
  BY DEF Settle
<1>3. {u} \in SUBSET Reserving /\ Reserving' = Reserving \ {u}
  BY <1>1, <1>2 DEF Reserving
<1>4. Cardinality({u}) = 1
  BY FS_Singleton
<1> QED
  BY <1>3, <1>4, CounterFalls

\* CreateLibraryUpload
LEMMA CreateInStep ==
    ASSUME StorageInv, NEW u \in Uploads, NEW p \in Purposes, CreateLibraryUpload(u, p)
    PROVE  CounterInStep
<1>1. /\ uploads[u].state = "none"
      /\ reservations' = [reservations EXCEPT ![u] = "active"]
      /\ usage' = [usage EXCEPT !.reserved = @ + 1]
  BY DEF CreateLibraryUpload
<1>2. usage \in Usages /\ reservations \in [Uploads -> {"none", "active", "consumed", "released"}]
  BY TypeIs DEF StorageInv, RowsOK
<1>3. reservations[u] # "active"
  BY <1>1 DEF StorageInv, BytesOK, Open
<1>4. u \notin Reserving /\ Reserving' = Reserving \cup {u}
  BY <1>1, <1>2, <1>3 DEF Reserving
<1>5. Cardinality(Reserving') = Cardinality(Reserving) + 1
  BY <1>4, ReservingCounted, FS_AddElement
<1>6. usage'.reserved = usage.reserved + 1 /\ usage.reserved \in Nat
  BY <1>1, <1>2 DEF Usages
<1> QED
  BY <1>5, <1>6, ReservingCounted DEF CounterInStep, Minus

\* ExpireLibraryUploads
LEMMA ExpireInStep ==
    ASSUME StorageInv, NEW w \in Workers, ExpireLibraryUploads(w)
    PROVE  CounterInStep
<1>1. /\ reservations' = [u \in Uploads |-> IF u \in Expirable THEN "released" ELSE reservations[u]]
      /\ usage' = Released(Cardinality(Expirable))
  BY DEF ExpireLibraryUploads
<1>2. Expirable \in SUBSET Reserving
  BY DEF Expirable, Reserving
<1>3. Reserving' = Reserving \ Expirable
  BY <1>1, <1>2 DEF Reserving
<1>4. usage \in Usages
  BY TypeIs DEF StorageInv
<1>5. usage'.reserved = Minus(usage.reserved, Cardinality(Expirable))
  BY <1>1, <1>4 DEF Released, Usages
<1> QED
  BY <1>2, <1>3, <1>5, CounterFalls

\* RejectLibraryUpload
LEMMA RejectInStep ==
    ASSUME StorageInv, NEW q \in Requests, RejectLibraryUpload(q)
    PROVE  CounterInStep
<1> DEFINE u == requests[q].upload
<1>1. u \in Uploads
  BY DEF StorageInv, RequestOK, RejectLibraryUpload
<1>2. usage \in Usages /\ reservations \in [Uploads -> {"none", "active", "consumed", "released"}]
  BY TypeIs DEF StorageInv, RowsOK
<1>3. CASE uploads[u].state # "ready" /\ reservations[u] = "active"
  <2>1. reservations' = Settle(u, "released") /\ usage' = Released(1)
    BY <1>3 DEF RejectLibraryUpload
  <2>2. usage'.reserved = Minus(usage.reserved, 1)
    BY <1>2, <2>1 DEF Released, Usages
  <2> QED
    BY <1>1, <1>3, <2>1, <2>2, CounterFallsByOne
<1>4. CASE uploads[u].state = "ready" \/ reservations[u] # "active"
  <2>1. UNCHANGED <<reservations, usage>>
    BY <1>2, <1>4 DEF RejectLibraryUpload, Settle
  <2> QED
    BY <2>1, CounterStands
<1> QED
  BY <1>3, <1>4

\* CompleteLibraryUpload takes a byte off the counter unasked: its upload is
\* open and locked, so its reservation is active.
LEMMA CompleteInStep ==
    ASSUME StorageInv, NEW q \in Requests, CompleteCommit(q)
    PROVE  CounterInStep
<1> DEFINE u == requests[q].upload
<1>1. /\ requests[q].pc = "commit" /\ reservations' = Settle(u, "consumed")
      /\ usage' = [used |-> usage.used + 1, reserved |-> Minus(usage.reserved, 1)]
  BY DEF CompleteCommit
<1>2. u \in Uploads /\ uploads[u].state = "uploaded_unverified"
  BY <1>1 DEF StorageInv, RequestOK, CommitOK
<1>3. reservations[u] = "active"
  BY <1>2 DEF StorageInv, BytesOK, Open
<1> QED
  BY <1>1, <1>2, <1>3, CounterFallsByOne

\* The deletion of a message corrects only the used bytes.
LEMMA DeleteMessageInStep ==
    ASSUME StorageInv, NEW u \in Uploads, DeleteMessage(u)
    PROVE  CounterInStep
<1>1. /\ UNCHANGED reservations
      /\ usage' \in {usage, [usage EXCEPT !.used = Minus(@, 1)]}
  BY DEF DeleteMessage
<1>2. usage \in Usages
  BY TypeIs DEF StorageInv
<1>3. usage'.reserved = usage.reserved
  BY <1>1, <1>2 DEF Usages
<1> QED
  BY <1>1, <1>3, CounterStands

\* Every step but the reconciliation's own changes the counter in step.
LEMMA NextInStep ==
    StorageInv /\ [Next]_vars => CounterInStep \/ \E w \in Workers : WriteUsage(w)
<1> SUFFICES ASSUME StorageInv, [Next]_vars, \A w \in Workers : ~WriteUsage(w)
             PROVE  CounterInStep
  OBVIOUS
<1>1. ASSUME UNCHANGED <<reservations, usage>> PROVE CounterInStep
  BY <1>1, CounterStands
<1>2. ASSUME NEW u \in Uploads, UserStep(u) \/ TimePasses(u) PROVE CounterInStep
  BY <1>1, <1>2, CreateInStep, DeleteMessageInStep
     DEF UserStep, database, ClientPut, TimePasses, TrashLibraryItem, RestoreLibraryItem, DeleteAsset
<1>3. ASSUME NEW q \in Requests,
             \/ \E u \in Uploads : FinalizeUpload(q, u)
             \/ RequestStep(q) \/ HeadFails(q) \/ RejectFails(q) \/ Abandon(q)
      PROVE  CounterInStep
  BY <1>1, <1>3, RejectInStep, CompleteInStep
     DEF RequestStep, database, FinalizeUpload, HeadObject, HeadFails, RejectFails, Abandon,
         DropObject, LibraryUploadDeduplicationObjectKey, HeadDuplicate,
         ReplaceMissingLibraryUploadDeduplicationObject, CompleteBegin, CompleteRefused
<1>4. ASSUME NEW w \in Workers, WorkerStep(w) \/ WorkerFails(w) PROVE CounterInStep
  BY <1>1, <1>4, ExpireInStep
     DEF WorkerStep, database, DropExpired, ReadSums, ClaimJournalAsset, DeletePurged,
         CompleteJournalAssetPurge, ListOrphans, DropOrphan, WorkerFails
<1>5. CASE UNCHANGED vars
  BY <1>1, <1>5 DEF vars
<1> QED
  BY <1>2, <1>3, <1>4, <1>5 DEF Next

-----------------------------------------------------------------------------
(* The theorems.                                                            *)

\* The invariants of the storage and of its live files hold in every reachable
\* state, whatever the number of uploads, requests, workers and faults.
THEOREM StorageInvariant == Spec => [](StorageInv /\ LiveInv)
<1>1. Init => LiveInv
  BY DEF Init, LiveInv, IdleRequest
<1>2. StorageInv /\ LiveInv /\ [Next]_vars => (StorageInv /\ LiveInv)'
  BY NextKeepsInv, NextKeepsLive
<1> QED
  BY <1>1, <1>2, InitHasInv, PTL DEF Spec

\* The rows, the counters and what is in flight have their types; the usage row
\* never goes below zero.
THEOREM LibraryTypeCorrect == Spec => []LibraryTypeOK
<1>1. StorageInv /\ LiveInv => LibraryTypeOK
  BY DEF StorageInv, LiveInv, LibraryTypeOK, StorageTypeOK, RowsOK, UploadRows, BlobRows, FileRows,
         Usages, RequestRows, WorkerRows
<1> QED
  BY <1>1, StorageInvariant, PTL

\* Every byte is reserved while its upload is open and contributed while what
\* became of it is kept, however requests, workers and users interleave.
THEOREM BytesAccountedHolds == Spec => []BytesAccounted
<1>1. StorageInv => BytesAccounted
  BY DEF StorageInv, BytesOK, BytesAccounted
<1> QED
  BY <1>1, StorageInvariant, PTL

\* No purge, discard or sweep is about to delete the object of a ready blob or
\* of a live file, unless the deletion of a message took the file's blob from
\* under the completion that made the file.
THEOREM DeletionIsConfirmedHolds == Spec => []DeletionIsConfirmed
<1>1. ASSUME StorageInv, LiveInv PROVE DeletionIsConfirmed
  <2>1. ASSUME NEW b \in ReadyBlobs, blobs[b].key \in Condemned PROVE FALSE
    <3>1. b \in Uploads /\ blobs[b].state = "ready" /\ Live(b) /\ blobs[b].key \in objects
      BY <2>1 DEF ReadyBlobs, Live, Condemned
    <3>2. ASSUME NEW w \in Workers, workers[w].pc = "purging", blobs[b].key \in workers[w].keys
          PROVE  FALSE
      <4> DEFINE c == workers[w].blob
      <4>1. /\ c \in Uploads /\ workers[w].keys = {blobs[c].key}
            /\ blobs[c].state \in {"purging", "deleted"}
            /\ blobs[c].state = "deleted" => blobs[c].key \notin objects
        BY <1>1, <3>2, Fields DEF StorageInv, PurgeOK
      <4>2. blobs[c].state = "purging"
        BY <3>1, <3>2, <4>1
      <4>3. b = c
        BY <1>1, <3>1, <4>1, <4>2 DEF StorageInv, OneLiveBlob, Live
      <4> QED
        BY <3>1, <4>2, <4>3
    <3>3. ASSUME NEW w \in Workers, workers[w].pc = "orphans", blobs[b].key \in workers[w].keys
          PROVE  FALSE
      BY <1>1, <3>1, <3>3 DEF StorageInv, OrphansOK, NotKeyed
    <3>4. ASSUME NEW q \in Requests, requests[q].pc = "discard", blobs[b].key = requests[q].upload
          PROVE  FALSE
      BY <1>1, <3>1, <3>4 DEF StorageInv, DiscardOK, NotKeyed
    <3> QED
      BY <2>1, <3>2, <3>3, <3>4 DEF Condemned
  <2>2. ASSUME NEW f \in Uploads, files[f].state = "ready", files[f].blob \notin overtaken
        PROVE  /\ blobs[files[f].blob].state = "ready"
               /\ blobs[files[f].blob].key \notin Condemned
    <3>1. files[f].blob \in ReadyBlobs
      BY <1>1, <2>2 DEF LiveInv, StorageInv, FileOK, ReadyBlobs
    <3> QED
      BY <2>1, <3>1 DEF ReadyBlobs
  <2> QED
    BY <2>1, <2>2 DEF DeletionIsConfirmed
<1> QED
  BY <1>1, StorageInvariant, PTL

\* A reservation is taken off the usage row once, whichever of rejection, expiry
\* and completion ends it, and however they overlap.
THEOREM ReservationsReleasedOnceHolds == Spec => ReservationsReleasedOnce
<1>1. StorageInv /\ [Next]_vars =>
        [\/ \E w \in Workers : WriteUsage(w)
         \/ usage'.reserved = Minus(usage.reserved + Actual'.reserved, Actual.reserved)]_vars
  BY NextInStep DEF CounterInStep
<1> QED
  BY <1>1, StorageInvariant, PTL DEF Spec, ReservationsReleasedOnce
=============================================================================
