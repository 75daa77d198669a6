--------------------------- MODULE LibraryStorage ---------------------------
(***************************************************************************)
(* The storage of one Space's Library: uploads and their quota             *)
(* reservations, the deduplicated blobs and files they become, the objects *)
(* in the object store (R2), and the workers that remove what is no longer *)
(* used.  The database commits transactions; the object store is changed   *)
(* between them, by requests and workers that may stop at any point.       *)
(*                                                                         *)
(* The uploads here all carry the same content, the case in which one blob *)
(* is shared, and one byte each.  An identifier of Uploads also stands for *)
(* the object key, the blob, the file and the library item, asset or       *)
(* attachment that the upload may give rise to.                            *)
(***************************************************************************)
EXTENDS Naturals, FiniteSets

CONSTANTS
    Uploads,     \* uploads of one content, and what they become
    Requests,    \* finalization requests that may overlap
    Workers,     \* replicas that run the retention loop
    Nobody,      \* holder of a free lock, blob of no upload
    Quota,       \* bytes the Space may use or reserve
    MaxFaults    \* crashes, database aborts and object store errors

ASSUME QuotaAssumption == Quota \in Nat /\ MaxFaults \in Nat
ASSUME NobodyAssumption == Nobody \notin Uploads \cup Requests
ASSUME UploadsAssumption == IsFiniteSet(Uploads)

VARIABLES
    uploads,        \* space_library_uploads: state, purpose, past expires_at
    reservations,   \* space_upload_reservations
    blobs,          \* library_blobs, each with its object key
    files,          \* library_files, each with its blob
    sources,        \* library item, journal asset or attachment of a file
    contributions,  \* space_storage_contributions
    usage,          \* space_storage_usage
    objects,        \* keys present in the object store
    requests,       \* finalization requests in flight
    lock,           \* holder of the advisory lock on the content
    workers,        \* passes of the retention loop in flight
    faults,         \* faults so far
    overtaken       \* history: blobs deleted under a completion that had read them

database == <<uploads, reservations, blobs, files, sources, contributions, overtaken>>
vars == <<uploads, reservations, blobs, files, sources, contributions, usage,
          objects, requests, lock, workers, faults, overtaken>>

Purposes == {"library", "journal", "attachment"}
Open == {"initiated", "uploaded_unverified"}
UploadStates == Open \cup {"none", "ready", "invalid", "expired", "deleted"}
Held == {"active", "recovery"}

NoUpload == [state |-> "none", purpose |-> "library", expired |-> FALSE]
IdleRequest == [pc |-> "idle", upload |-> Nobody, key |-> Nobody]
IdleWorker == [pc |-> "idle", keys |-> {}, asset |-> Nobody, blob |-> Nobody,
               sums |-> [used |-> 0, reserved |-> 0]]

(***************************************************************************)
(* Quota.                                                                  *)
(***************************************************************************)

\* What the rows of contributions and reservations add up to.
Actual ==
    [used     |-> Cardinality({u \in Uploads : contributions[u] \in Held}),
     reserved |-> Cardinality({u \in Uploads : reservations[u] = "active"})]

\* What becomes of a reservation that is still active.
SettleNever(u, outcome) == reservations
Settle(u, outcome) == [reservations EXCEPT ![u] = IF @ = "active" THEN outcome ELSE @]

\* GREATEST(0, n - m).
Minus(n, m) == IF m > n THEN 0 ELSE n - m

Released(n) == [usage EXCEPT !.reserved = Minus(@, n)]

WithinQuota == usage.used + usage.reserved + 1 <= Quota

(***************************************************************************)
(* Rows and locks.                                                         *)
(***************************************************************************)

ReadyBlobs == {b \in Uploads : blobs[b].state = "ready"}

FilesOf(b) == {f \in Uploads : files[f].state # "none" /\ files[f].blob = b}

\* Mutant: the row is read without a lock.
RowFreeAlways(u) == TRUE

\* A completion holds its upload's row and the content's lock until it ends.
RowFree(u) == \A q \in Requests : requests[q].pc = "commit" => requests[q].upload # u

Goto(q, pc) == requests' = [requests EXCEPT ![q].pc = pc]
GotoWith(q, pc, k) == requests' = [requests EXCEPT ![q].pc = pc, ![q].key = k]
Finish(q) == requests' = [requests EXCEPT ![q] = IdleRequest]

Init ==
    /\ uploads = [u \in Uploads |-> NoUpload]
    /\ reservations = [u \in Uploads |-> "none"]
    /\ blobs = [b \in Uploads |-> [state |-> "none", key |-> b]]
    /\ files = [f \in Uploads |-> [state |-> "none", blob |-> Nobody]]
    /\ sources = [u \in Uploads |-> "none"]
    /\ contributions = [u \in Uploads |-> "none"]
    /\ usage = [used |-> 0, reserved |-> 0]
    /\ objects = {}
    /\ requests = [q \in Requests |-> IdleRequest]
    /\ lock = Nobody
    /\ workers = [w \in Workers |-> IdleWorker]
    /\ faults = 0
    /\ overtaken = {}

(***************************************************************************)
(* An upload is initiated, transferred and finalized.                      *)
(***************************************************************************)

CreateLibraryUpload(u, p) ==
    /\ uploads[u].state = "none"
    /\ WithinQuota
    /\ uploads' = [uploads EXCEPT ![u] = [state |-> "initiated", purpose |-> p, expired |-> FALSE]]
    /\ reservations' = [reservations EXCEPT ![u] = "active"]
    /\ usage' = [usage EXCEPT !.reserved = @ + 1]
    /\ UNCHANGED <<blobs, files, sources, contributions, objects, requests, lock, workers, faults, overtaken>>

\* The client PUTs to the presigned URL, then it finalizes.
ClientPut(u) ==
    /\ uploads[u].state = "initiated" /\ ~uploads[u].expired
    /\ u \notin objects
    /\ objects' = objects \cup {u}
    /\ UNCHANGED <<database, usage, requests, lock, workers, faults>>

\* The upload, with its 15-minute URL, passes expires_at.
TimePasses(u) ==
    /\ uploads[u].state # "none" /\ ~uploads[u].expired
    /\ uploads' = [uploads EXCEPT ![u].expired = TRUE]
    /\ UNCHANGED <<reservations, blobs, files, sources, contributions, usage, objects, requests,
                   lock, workers, faults, overtaken>>

\* FinalizeUpload moves an initiated upload on while it is not expired, and
\* looks again at one left unverified by an earlier request.
FinalizeUpload(q, u) ==
    /\ requests[q] = IdleRequest
    /\ \/ uploads[u].state = "initiated" /\ ~uploads[u].expired
       \/ uploads[u].state = "uploaded_unverified"
    /\ uploads' = [uploads EXCEPT ![u].state = "uploaded_unverified"]
    /\ requests' = [requests EXCEPT ![q] = [pc |-> "head", upload |-> u, key |-> Nobody]]
    /\ UNCHANGED <<reservations, blobs, files, sources, contributions, usage, objects, lock,
                   workers, faults, overtaken>>

HeadObject(q) ==
    /\ requests[q].pc = "head"
    /\ Goto(q, IF requests[q].upload \in objects THEN "lookup" ELSE "reject")
    /\ UNCHANGED <<database, usage, objects, lock, workers, faults>>

\* An error of the object store is taken for a missing object.
HeadFails(q) ==
    /\ requests[q].pc = "head"
    /\ faults < MaxFaults
    /\ Goto(q, "reject")
    /\ faults' = faults + 1
    /\ UNCHANGED <<database, usage, objects, lock, workers>>

\* A ready upload is not rejected; the caller goes on all the same.
RejectLibraryUpload(q) ==
    LET u == requests[q].upload IN
    /\ requests[q].pc = "reject"
    /\ RowFree(u)
    /\ IF uploads[u].state = "ready"
       THEN UNCHANGED <<uploads, reservations, usage>>
       ELSE /\ uploads' = [uploads EXCEPT ![u].state = "invalid"]
            /\ reservations' = Settle(u, "released")
            /\ usage' = IF reservations[u] = "active" THEN Released(1) ELSE usage
    /\ Goto(q, "drop")
    /\ UNCHANGED <<blobs, files, sources, contributions, objects, lock, workers, faults, overtaken>>

\* rejectAndDelete deletes the object although the rejection failed.
RejectFails(q) ==
    /\ requests[q].pc = "reject"
    /\ faults < MaxFaults
    /\ Goto(q, "drop")
    /\ faults' = faults + 1
    /\ UNCHANGED <<database, usage, objects, lock, workers>>

\* rejectAndDelete, and the object of a duplicate after its completion.
DropObject(q) ==
    /\ requests[q].pc \in {"drop", "discard"}
    /\ objects' = objects \ {requests[q].upload}
    /\ Finish(q)
    /\ UNCHANGED <<database, usage, lock, workers, faults>>

LibraryUploadDeduplicationObjectKey(q) ==
    LET u == requests[q].upload
        others == {blobs[b].key : b \in ReadyBlobs} \ {u}
    IN
    /\ requests[q].pc = "lookup"
    /\ IF uploads[u].state = "uploaded_unverified" /\ others # {}
       THEN \E k \in others : GotoWith(q, "headdup", k)
       ELSE Goto(q, "complete")
    /\ UNCHANGED <<database, usage, objects, lock, workers, faults>>

HeadDuplicate(q) ==
    /\ requests[q].pc = "headdup"
    /\ Goto(q, IF requests[q].key \in objects THEN "complete" ELSE "heal")
    /\ UNCHANGED <<database, usage, objects, lock, workers, faults>>

\* The ready blob whose object is missing takes the upload's object instead.
ReplaceMissingLibraryUploadDeduplicationObject(q) ==
    LET u == requests[q].upload
        missing == {b \in ReadyBlobs : blobs[b].key = requests[q].key}
        healed == {b \in ReadyBlobs : blobs[b].key = u}
    IN
    /\ requests[q].pc = "heal"
    /\ RowFree(u) /\ lock = Nobody
    /\ IF uploads[u].state = "uploaded_unverified" /\ missing \cup healed # {}
       THEN /\ blobs' = [b \in Uploads |->
                            IF b \in missing THEN [blobs[b] EXCEPT !.key = u] ELSE blobs[b]]
            /\ Goto(q, "complete")
       ELSE UNCHANGED blobs /\ Finish(q)
    /\ UNCHANGED <<uploads, reservations, files, sources, contributions, usage, objects, lock,
                   workers, faults, overtaken>>

(***************************************************************************)
(* CompleteLibraryUpload reads under the content's lock which blob to      *)
(* share, and commits what it then wrote.  The two are steps of their own: *)
(* transactions that do not take the lock commit in between.               *)
(***************************************************************************)

CompleteBegin(q) ==
    LET u == requests[q].upload IN
    /\ requests[q].pc = "complete"
    /\ RowFree(u) /\ lock = Nobody
    /\ IF uploads[u].state = "uploaded_unverified" /\ ~uploads[u].expired
       THEN /\ lock' = q
            /\ IF ReadyBlobs = {} THEN GotoWith(q, "commit", Nobody)
               ELSE \E b \in ReadyBlobs : GotoWith(q, "commit", b)
       ELSE Finish(q) /\ UNCHANGED lock
    /\ UNCHANGED <<database, usage, objects, workers, faults>>

\* One row per content that is not deleted: the unique index on library_blobs.
MayInsertBlob == \A b \in Uploads : blobs[b].state \in {"none", "deleted"}

CompleteCommit(q) ==
    LET u == requests[q].upload
        shared == requests[q].key
        blob == IF shared = Nobody THEN u ELSE shared
    IN
    /\ requests[q].pc = "commit"
    /\ shared = Nobody => MayInsertBlob
    /\ blobs' = IF shared = Nobody THEN [blobs EXCEPT ![u] = [state |-> "ready", key |-> u]] ELSE blobs
    /\ files' = [files EXCEPT ![u] = [state |-> "ready", blob |-> blob]]
    /\ sources' = [sources EXCEPT ![u] = "ready"]
    /\ contributions' = [contributions EXCEPT ![u] = "active"]
    /\ reservations' = Settle(u, "consumed")
    /\ usage' = [used |-> usage.used + 1, reserved |-> Minus(usage.reserved, 1)]
    /\ uploads' = [uploads EXCEPT ![u].state = "ready"]
    /\ lock' = Nobody
    /\ IF shared # Nobody /\ blobs[shared].key # u THEN Goto(q, "discard") ELSE Finish(q)
    /\ UNCHANGED <<objects, workers, faults, overtaken>>

\* The content's row is there, but purging: the insertion is refused.
CompleteRefused(q) ==
    /\ requests[q].pc = "commit" /\ requests[q].key = Nobody
    /\ ~MayInsertBlob
    /\ lock' = Nobody
    /\ Finish(q)
    /\ UNCHANGED <<database, usage, objects, workers, faults>>

\* The client is gone, the process dies or the database aborts (a completion
\* and ClaimExpiredJournalAssets can deadlock on the lock and the blob's row).
Abandon(q) ==
    /\ requests[q].pc # "idle"
    /\ faults < MaxFaults
    /\ faults' = faults + 1
    /\ lock' = IF lock = q THEN Nobody ELSE lock
    /\ Finish(q)
    /\ UNCHANGED <<database, usage, objects, workers>>

(***************************************************************************)
(* What users do with what they uploaded.                                  *)
(***************************************************************************)

TrashLibraryItem(u) ==
    /\ uploads[u].purpose = "library" /\ sources[u] = "ready"
    /\ sources' = [sources EXCEPT ![u] = "trash"]
    /\ contributions' = [contributions EXCEPT ![u] = IF @ = "active" THEN "recovery" ELSE @]
    /\ UNCHANGED <<uploads, reservations, blobs, files, usage, objects, requests, lock, workers, faults, overtaken>>

RestoreLibraryItem(u) ==
    /\ sources[u] = "trash"
    /\ sources' = [sources EXCEPT ![u] = "ready"]
    /\ contributions' = [contributions EXCEPT ![u] = IF @ = "recovery" THEN "active" ELSE @]
    /\ UNCHANGED <<uploads, reservations, blobs, files, usage, objects, requests, lock, workers, faults, overtaken>>

\* The reference to a journal asset is removed; unreferenced and deleting are
\* one state here, both are claimed after the undo window.
DeleteAsset(u) ==
    /\ uploads[u].purpose = "journal" /\ sources[u] = "ready"
    /\ sources' = [sources EXCEPT ![u] = "deleting"]
    /\ UNCHANGED <<uploads, reservations, blobs, files, contributions, usage, objects, requests,
                   lock, workers, faults, overtaken>>

\* cleanupSpaceMessagesTx takes no lock: a file that a completion has not yet
\* committed is not seen, and a blob that the completion has read is deleted.
DeleteMessage(u) ==
    LET b == files[u].blob
        last == \A f \in FilesOf(b) \ {u} : files[f].state = "deleted"
        readers == {q \in Requests : requests[q].pc = "commit" /\ requests[q].key = b}
    IN
    /\ uploads[u].purpose = "attachment" /\ sources[u] = "ready"
    /\ sources' = [sources EXCEPT ![u] = "deleted"]
    /\ uploads' = [uploads EXCEPT ![u].state = "deleted"]
    /\ files' = [files EXCEPT ![u].state = "deleted"]
    /\ blobs' = IF last THEN [blobs EXCEPT ![b].state = "deleted"] ELSE blobs
    /\ overtaken' = IF last /\ readers # {} THEN overtaken \cup {b} ELSE overtaken
    /\ contributions' = [contributions EXCEPT ![u] = IF @ \in Held THEN "released" ELSE @]
    /\ usage' = IF contributions[u] \in Held THEN [usage EXCEPT !.used = Minus(@, 1)] ELSE usage
    /\ UNCHANGED <<reservations, objects, requests, lock, workers, faults>>

(***************************************************************************)
(* The retention loop: CleanupExpired, CleanupExpiredJournalAssets and     *)
(* ReconcileLibraryObjects.  A pass that finds nothing to do is left out.  *)
(***************************************************************************)

WorkerAt(w, pc) == workers' = [workers EXCEPT ![w].pc = pc]

ExpirableInitiated == {u \in Uploads : /\ uploads[u].expired /\ RowFree(u)
                                       /\ reservations[u] = "active" /\ uploads[u].state = "initiated"}

\* Expired rows that are not locked: FOR UPDATE ... SKIP LOCKED.
Expirable == {u \in Uploads : /\ uploads[u].expired /\ RowFree(u)
                              /\ reservations[u] = "active"
                              /\ uploads[u].state \notin {"ready", "deleted", "expired"}}

ExpireLibraryUploads(w) ==
    /\ workers[w].pc = "idle"
    /\ Expirable # {} \/ usage # Actual
    /\ reservations' = [u \in Uploads |-> IF u \in Expirable THEN "released" ELSE reservations[u]]
    /\ usage' = Released(Cardinality(Expirable))
    /\ uploads' = [u \in Uploads |->
                      IF u \in Expirable THEN [uploads[u] EXCEPT !.state = "expired"] ELSE uploads[u]]
    /\ workers' = [workers EXCEPT ![w].pc = "dropping", ![w].keys = Expirable]
    /\ UNCHANGED <<blobs, files, sources, contributions, objects, requests, lock, faults, overtaken>>

\* CleanupExpired deletes the objects one by one.
DropExpired(w) ==
    /\ workers[w].pc = "dropping"
    /\ \E k \in workers[w].keys :
         /\ objects' = objects \ {k}
         /\ workers' = [workers EXCEPT ![w].keys = @ \ {k}]
    /\ UNCHANGED <<database, usage, requests, lock, faults>>

\* ReconcileLibraryStorageUsage ends both cleanup passes.  Its statement adds
\* up a snapshot older than the lock it takes on the row that it writes.
ReadSums(w) ==
    /\ \/ workers[w].pc = "dropping" /\ workers[w].keys = {}
       \/ workers[w].pc = "sums"
    /\ workers' = [workers EXCEPT ![w] = [IdleWorker EXCEPT !.pc = "write", !.sums = Actual]]
    /\ UNCHANGED <<database, usage, objects, requests, lock, faults>>

WriteUsage(w) ==
    /\ workers[w].pc = "write"
    /\ usage' = workers[w].sums
    /\ workers' = [workers EXCEPT ![w] = IdleWorker]
    /\ UNCHANGED <<database, objects, requests, lock, faults>>

LastReferenceUnchecked(b, a) == blobs[b].state = "ready"

\* The blob of a claimed asset goes with it if no other live file uses it; one
\* that is purging is claimed again, for the worker before may have died.
LastReference(b, a) ==
    /\ blobs[b].state = "ready"
    /\ \A f \in FilesOf(b) \ {a} : files[f].state \in {"purging", "deleted"}

Purges(b, a) == blobs[b].state = "purging" \/ LastReference(b, a)

\* claimJournalAssetTx, one asset per pass, at any time after its deletion; it
\* waits for the content's lock.
ClaimJournalAsset(w, a) ==
    LET b == files[a].blob IN
    /\ workers[w].pc = "idle"
    /\ sources[a] = "deleting"
    /\ lock = Nobody
    /\ contributions' = [contributions EXCEPT ![a] = IF @ \in Held THEN "released" ELSE @]
    /\ files' = [files EXCEPT ![a].state = IF @ = "ready" THEN "purging" ELSE @]
    /\ IF Purges(b, a)
       THEN /\ blobs' = [blobs EXCEPT ![b].state = "purging"]
            /\ workers' = [workers EXCEPT ![w] = [IdleWorker EXCEPT !.pc = "purging",
                              !.keys = {blobs[b].key}, !.asset = a, !.blob = b]]
       ELSE /\ workers' = [workers EXCEPT ![w] = [IdleWorker EXCEPT !.pc = "purged", !.asset = a]]
            /\ UNCHANGED blobs
    /\ UNCHANGED <<uploads, reservations, sources, usage, objects, requests, lock, faults, overtaken>>

DeletePurged(w) ==
    /\ workers[w].pc = "purging"
    /\ objects' = objects \ workers[w].keys
    /\ WorkerAt(w, "purged")
    /\ UNCHANGED <<database, usage, requests, lock, faults>>

\* A claim that another worker has completed conflicts and ends the pass.
CompleteJournalAssetPurge(w) ==
    LET a == workers[w].asset
        b == workers[w].blob
    IN
    /\ workers[w].pc = "purged"
    /\ IF b # Nobody /\ ~(blobs[b].state = "purging" /\ workers[w].keys = {blobs[b].key})
       THEN /\ workers' = [workers EXCEPT ![w] = IdleWorker]
            /\ UNCHANGED <<blobs, files, sources>>
       ELSE /\ blobs' = IF b = Nobody THEN blobs ELSE [blobs EXCEPT ![b].state = "deleted"]
            /\ files' = [files EXCEPT ![a].state = IF @ = "purging" THEN "deleted" ELSE @]
            /\ sources' = [sources EXCEPT ![a] = IF @ = "deleting" THEN "deleted" ELSE @]
            /\ WorkerAt(w, "sums")
    /\ UNCHANGED <<uploads, reservations, contributions, usage, objects, requests, lock, faults, overtaken>>

\* Objects the database knows: a blob's that is not deleted, an upload's that
\* is under way or ready.
Expected(k) ==
    \/ \E b \in Uploads : blobs[b].state \in {"ready", "purging"} /\ blobs[b].key = k
    \/ uploads[k].state \in Open \cup {"ready"}

\* reconcileInventoryPage: an object older than the grace of a day, and so of
\* an upload that is past its half hour, is an orphan if nothing expects it.
ListOrphans(w) ==
    LET orphans == {k \in objects : uploads[k].expired /\ ~Expected(k)} IN
    /\ workers[w].pc = "idle"
    /\ orphans # {}
    /\ workers' = [workers EXCEPT ![w].pc = "orphans", ![w].keys = orphans]
    /\ UNCHANGED <<database, usage, objects, requests, lock, faults>>

DropOrphan(w) ==
    /\ workers[w].pc = "orphans"
    /\ \E k \in workers[w].keys :
         /\ objects' = objects \ {k}
         /\ workers' = [workers EXCEPT ![w] =
               IF workers[w].keys = {k} THEN IdleWorker
               ELSE [workers[w] EXCEPT !.keys = workers[w].keys \ {k}]]
    /\ UNCHANGED <<database, usage, requests, lock, faults>>

\* The replica dies, or the object store or the database refuses.
WorkerFails(w) ==
    /\ workers[w].pc # "idle"
    /\ faults < MaxFaults
    /\ faults' = faults + 1
    /\ workers' = [workers EXCEPT ![w] = IdleWorker]
    /\ UNCHANGED <<database, usage, objects, requests, lock>>

-----------------------------------------------------------------------------

RequestStep(q) ==
    \/ HeadObject(q) \/ RejectLibraryUpload(q) \/ DropObject(q)
    \/ LibraryUploadDeduplicationObjectKey(q) \/ HeadDuplicate(q)
    \/ ReplaceMissingLibraryUploadDeduplicationObject(q)
    \/ CompleteBegin(q) \/ CompleteCommit(q) \/ CompleteRefused(q)

WorkerStep(w) ==
    \/ ExpireLibraryUploads(w) \/ DropExpired(w) \/ ReadSums(w) \/ WriteUsage(w)
    \/ \E a \in Uploads : ClaimJournalAsset(w, a)
    \/ DeletePurged(w) \/ CompleteJournalAssetPurge(w)
    \/ ListOrphans(w) \/ DropOrphan(w)

UserStep(u) ==
    \/ \E p \in Purposes : CreateLibraryUpload(u, p)
    \/ ClientPut(u)
    \/ TrashLibraryItem(u) \/ RestoreLibraryItem(u) \/ DeleteAsset(u) \/ DeleteMessage(u)

Next ==
    \/ \E u \in Uploads : UserStep(u) \/ TimePasses(u)
    \/ \E q \in Requests : \/ \E u \in Uploads : FinalizeUpload(q, u)
                           \/ RequestStep(q) \/ HeadFails(q) \/ RejectFails(q) \/ Abandon(q)
    \/ \E w \in Workers : WorkerStep(w) \/ WorkerFails(w)

\* A request runs to its end, the retention loop ticks every minute on every
\* replica and time passes; users do what they like.
Fairness ==
    /\ \A u \in Uploads : WF_vars(TimePasses(u))
    /\ \A q \in Requests : WF_vars(RequestStep(q))
    /\ \A w \in Workers : WF_vars(WorkerStep(w))

Spec == Init /\ [][Next]_vars
FairSpec == Spec /\ Fairness

-----------------------------------------------------------------------------

\* The values of the variables; usage never goes below zero.
LibraryTypeOK ==
    /\ uploads \in [Uploads -> [state : UploadStates, purpose : Purposes, expired : BOOLEAN]]
    /\ reservations \in [Uploads -> {"none", "active", "consumed", "released"}]
    /\ blobs \in [Uploads -> [state : {"none", "ready", "purging", "deleted"}, key : Uploads]]
    /\ files \in [Uploads -> [state : {"none", "ready", "purging", "deleted"},
                              blob : Uploads \cup {Nobody}]]
    /\ sources \in [Uploads -> {"none", "ready", "trash", "deleting", "deleted"}]
    /\ contributions \in [Uploads -> Held \cup {"none", "released"}]
    /\ usage \in [used : Nat, reserved : Nat]
    /\ objects \subseteq Uploads
    /\ requests \in [Requests ->
          [pc : {"idle", "head", "lookup", "headdup", "heal", "complete", "commit", "discard",
                 "reject", "drop"},
           upload : Uploads \cup {Nobody}, key : Uploads \cup {Nobody}]]
    /\ lock \in Requests \cup {Nobody}
    /\ workers \in [Workers ->
          [pc : {"idle", "dropping", "sums", "write", "purging", "purged", "orphans"},
           keys : SUBSET Uploads, asset : Uploads \cup {Nobody}, blob : Uploads \cup {Nobody},
           sums : [used : Nat, reserved : Nat]]]
    /\ faults \in 0 .. MaxFaults
    /\ overtaken \subseteq Uploads

\* Stored objects about to be deleted by a purge, by the removal of a duplicate and by
\* the removal of orphans.
Condemned ==
    {k \in objects : \/ \E w \in Workers : workers[w].pc \in {"purging", "orphans"} /\ k \in workers[w].keys
                     \/ \E q \in Requests : requests[q].pc = "discard" /\ k = requests[q].upload}

\* "Deduplicated blobs are deleted from R2 only when the database atomically
\* confirms that no other live reference remains": an object that a purge, the
\* discard of a duplicate or the orphan sweep is about to delete is neither that
\* of a ready blob nor that of a live file, whatever the uploads of the same
\* content do between the claim and the deletion.  The blob of a live file is
\* ready, unless the deletion of a message took it from under the completion.
DeletionIsConfirmed ==
    /\ \A b \in ReadyBlobs : blobs[b].key \notin Condemned
    /\ \A f \in Uploads :
          files[f].state = "ready" /\ files[f].blob \notin overtaken =>
              /\ blobs[files[f].blob].state = "ready"
              /\ blobs[files[f].blob].key \notin Condemned

\* The same of every live file.
LiveFilesSpared ==
    \A f \in Uploads : files[f].state = "ready" => blobs[files[f].blob].key \notin Condemned

\* Every byte is accounted for once, however finalizations, rejections, expiry
\* and purges of one upload interleave: it is reserved as long as the upload is
\* open and contributed as long as the item, asset or attachment is kept.
BytesAccounted ==
    \A u \in Uploads :
        /\ reservations[u] = "active" <=> uploads[u].state \in Open
        /\ contributions[u] \in Held <=> \/ sources[u] \in {"ready", "trash"}
                                         \/ sources[u] = "deleting" /\ files[u].state = "ready"

\* The reserved bytes of the usage row go down once for every reservation that
\* ends, and no transaction ends one that a completion is about to consume:
\* RejectLibraryUpload, ExpireLibraryUploads and CompleteLibraryUpload change row
\* and counter in step.  Only a reconciliation sets the counter to other sums.
ReservationsReleasedOnce ==
    [][\/ \E w \in Workers : WriteUsage(w)
       \/ usage'.reserved = Minus(usage.reserved + Actual'.reserved, Actual.reserved)]_vars

\* When users come to rest so does the storage, whatever failed on the way: no
\* upload stays open, no deleted asset stays unpurged, and the usage row, which
\* quota decisions read, equals the contributions and reservations, although
\* purges do not correct it and a reconciliation may write outdated sums.
StorageSettles ==
    <>[](/\ usage = Actual
         /\ \A u \in Uploads : uploads[u].state \notin Open /\ sources[u] # "deleting")

\* What LibraryReadyBlobExpectations takes for granted: the object of a ready
\* blob exists.
LiveContentStored ==
    \A b \in ReadyBlobs : (\E f \in FilesOf(b) : files[f].state = "ready") => blobs[b].key \in objects
=============================================================================
