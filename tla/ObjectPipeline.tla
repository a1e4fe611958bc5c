--------------------------- MODULE ObjectPipeline ---------------------------
(***************************************************************************)
(* The life of an object version in TeleCrate, from the PUT that spools    *)
(* its chunks to the delete that forgets them: S3 request handlers         *)
(* (app.rs), the metadata transactions (db/mod.rs), the upload workers     *)
(* (worker.rs), the garbage collector (gc.rs) and the startup that follows *)
(* a crash (main.rs, spool.rs), over one bucket.                           *)
(*                                                                         *)
(* The database, the spool directory and Telegram are three stores that    *)
(* no transaction spans.  Every database transaction is one step; every    *)
(* file removal and every Telegram call is a step of its own.              *)
(***************************************************************************)
EXTENDS Naturals

CONSTANTS
  Keys,               \* object keys of the bucket
  Requests,           \* S3 write requests; one names the uuid it draws and its upload job
  Workers,            \* upload threads (worker_concurrency)
  NumChunks,          \* chunks of every object
  Null,               \* the version id "null" of a Suspended bucket
  None,               \* SQL NULL
  Modes,              \* the versioning states clients and the dashboard set
  Kinds,              \* the kinds of write requests clients send
  SweepWhileWriting,  \* may the orphan sweep of GC overlap a PUT
  StatusMayMislead,   \* may a DELETE act on a status that is not the bucket's (any more)
  StartupQueryMayFail,\* may the query for active spool paths fail at startup
  MaxUploads,         \* bound: messages Telegram stores for one spool file
  MaxDisruptions      \* bound: crashes, errors, dropped requests, lost replies

RequestKinds == {"put", "copy", "delete", "purge", "deleteVersion"}

ASSUME PipelineAssumption ==
  /\ NumChunks \in Nat \ {0}
  /\ MaxUploads \in Nat
  /\ MaxDisruptions \in Nat
  /\ Null \notin Requests
  /\ None \notin Requests
  /\ None \notin Keys
  /\ None \notin Requests \X (1..NumChunks)
  /\ None \notin (Requests \X (1..NumChunks)) \X (1..MaxUploads)
  /\ Modes \subseteq {"Disabled", "Enabled", "Suspended"}
  /\ Kinds \subseteq RequestKinds
  /\ SweepWhileWriting \in BOOLEAN
  /\ StatusMayMislead \in BOOLEAN
  /\ StartupQueryMayFail \in BOOLEAN

Idx == 1..NumChunks
Ids == Requests \cup {Null}

\* A spool file is named after the uuid of the request that wrote it and the
\* chunk index, and stands for the bytes in it.  A locator is one message of
\* Telegram: the file it was read from and a number that tells repeats apart.
Paths == Requests \X Idx
Locators == Paths \X (1..MaxUploads)

VARIABLES
  mode,        \* buckets.versioning_status
  objects,     \* table objects, by version id
  clock,       \* rows ever inserted into objects: order of (created_at, rowid)
  chunks,      \* table chunks, by version id and idx
  jobs,        \* table upload_jobs, by the request that created the job
  spool,       \* .chunk files in spool_dir
  blobs,       \* messages in the Telegram chat
  sent,        \* messages ever sent, by file
  req,         \* request handlers
  wk,          \* upload threads
  gc,          \* the run of run_gc, if any
  disruptions  \* how much of MaxDisruptions is used up

tables == <<mode, objects, clock, chunks, jobs>>
stores == <<spool, blobs, sent>>
vars == <<tables, stores, req, wk, gc, disruptions>>

ObjectRow == [kind : {"none", "data", "marker"}, key : Keys \cup {None},
              remote : BOOLEAN, seq : Nat, data : Requests \cup {None}]
ChunkRow == [state : {"none", "pending", "remote"},
             path : Paths \cup {None}, loc : Locators \cup {None}]
JobRow == [state : {"none", "pending", "uploading", "done", "failed"},
           version : Ids \cup {None}, leased : BOOLEAN, due : BOOLEAN]
Request == [pc : {"idle", "writing", "ready", "closed"},
            kind : RequestKinds \cup {None}, key : Keys \cup {None},
            mode : {"Disabled", "Enabled", "Suspended"},
            source : Ids \cup {None}, data : Requests \cup {None},
            written : 0..NumChunks, rm : SUBSET Paths, rmBlobs : SUBSET Locators]
Worker == [pc : {"boot", "idle", "selected", "claimed", "uploading", "sent",
                 "found", "marked", "cleaning", "removed"},
           job : Requests \cup {None}, version : Ids \cup {None},
           snap : [Idx -> Paths \cup {None}], todo : SUBSET Idx,
           clean : SUBSET Idx, loc : Locators \cup {None}]
Collector == [pc : {"idle", "rows", "freed", "listing", "sweeping", "remote"},
              rows : SUBSET (Ids \X Idx \X Paths), row : (Ids \X Idx) \cup {None},
              paths : SUBSET Paths]

TypeOK ==
  /\ mode \in {"Disabled", "Enabled", "Suspended"}
  /\ objects \in [Ids -> ObjectRow]
  /\ clock \in Nat
  /\ chunks \in [Ids -> [Idx -> ChunkRow]]
  /\ jobs \in [Requests -> JobRow]
  /\ spool \in SUBSET Paths
  /\ blobs \in SUBSET Locators
  /\ sent \in [Paths -> 0..MaxUploads]
  /\ req \in [Requests -> Request]
  /\ wk \in [Workers -> Worker]
  /\ gc \in Collector
  /\ disruptions \in 0..MaxDisruptions

NoObject == [kind |-> "none", key |-> None, remote |-> FALSE, seq |-> 0, data |-> None]
NoChunk == [state |-> "none", path |-> None, loc |-> None]
NoJob == [state |-> "none", version |-> None, leased |-> FALSE, due |-> FALSE]
NewRequest == [pc |-> "idle", kind |-> None, key |-> None, mode |-> "Disabled",
               source |-> None, data |-> None, written |-> 0, rm |-> {}, rmBlobs |-> {}]
Closed == [NewRequest EXCEPT !.pc = "closed"]
WorkerAt(pc) == [pc |-> pc, job |-> None, version |-> None,
                 snap |-> [c \in Idx |-> None], todo |-> {}, clean |-> {}, loc |-> None]
GcAt(pc) == [pc |-> pc, rows |-> {}, row |-> None, paths |-> {}]

Init ==
  /\ mode = "Disabled"
  /\ objects = [i \in Ids |-> NoObject]
  /\ clock = 0
  /\ chunks = [i \in Ids |-> [c \in Idx |-> NoChunk]]
  /\ jobs = [r \in Requests |-> NoJob]
  /\ spool = {}
  /\ blobs = {}
  /\ sent = [p \in Paths |-> 0]
  /\ req = [r \in Requests |-> NewRequest]
  /\ wk = [w \in Workers |-> WorkerAt("boot")]
  /\ gc = GcAt("idle")
  /\ disruptions = 0

Disrupt == /\ disruptions < MaxDisruptions
           /\ disruptions' = disruptions + 1

-----------------------------------------------------------------------------
(* Transactions over the metadata tables *)

VersionsOf(k) == {i \in Ids : objects[i].kind # "none" /\ objects[i].key = k}

\* latest_version: newest created_at, then newest rowid.
IsLatest(i, k) == /\ i \in VersionsOf(k)
                  /\ \A j \in VersionsOf(k) : objects[j].seq <= objects[i].seq

SpoolPaths(S) == {chunks[i][c].path : i \in S, c \in Idx} \ {None}
\* Mutant of ActivePaths: the query keeps only rows that are already remote.
ActivePathsOfRemote ==
  {chunks[x[1]][x[2]].path : x \in {y \in Ids \X Idx : chunks[y[1]][y[2]].state = "remote"}}
    \ {None}
ActivePaths == SpoolPaths(Ids)
RemoteLocators(S) ==
  {chunks[x[1]][x[2]].loc : x \in {y \in S \X Idx : chunks[y[1]][y[2]].state = "remote"}}
    \ {None}

ObjectsWithout(S) == [i \in Ids |-> IF i \in S THEN NoObject ELSE objects[i]]
ChunksWithout(S) == [i \in Ids |-> IF i \in S THEN [c \in Idx |-> NoChunk] ELSE chunks[i]]
\* Mutant of JobsWithout: the DELETE on upload_jobs is lost.
JobsKept(S) == jobs
JobsWithout(S) == [r \in Requests |-> IF jobs[r].version \in S THEN NoJob ELSE jobs[r]]

\* prepare_versioning_write_tx: the id the new version gets, and the versions
\* it replaces.  A delete marker asks for "null", a put or a copy for its uuid.
FinalId(r, asked) == CASE mode = "Disabled"  -> asked
                       [] mode = "Suspended" -> Null
                       [] mode = "Enabled"   -> r
\* Mutant of Replaced: an Enabled bucket is treated like an unversioned one.
ReplacedAlways(k) == IF mode = "Suspended" THEN VersionsOf(k) \cap {Null} ELSE VersionsOf(k)
Replaced(k) == CASE mode = "Disabled"  -> VersionsOf(k)
                 [] mode = "Suspended" -> VersionsOf(k) \cap {Null}
                 [] mode = "Enabled"   -> {}

\* objects.version_id is the primary key of the whole table.
IdTaken(i, k) == objects[i].kind # "none" /\ i \notin Replaced(k)

\* The transaction shared by put_object, copy_object_txn and
\* create_delete_marker: drop the replaced versions with their chunks and
\* jobs, insert the new object i and its chunk rows, queue a job if one is
\* asked for.
WriteVersion(r, i, k, kind, data, rows, queued) ==
  /\ ~IdTaken(i, k)
  /\ clock' = clock + 1
  /\ objects' = [ObjectsWithout(Replaced(k)) EXCEPT
                   ![i] = [kind |-> kind, key |-> k, remote |-> FALSE,
                           seq |-> clock + 1, data |-> data]]
  /\ chunks' = [ChunksWithout(Replaced(k)) EXCEPT ![i] = rows]
  /\ jobs' = IF queued
             THEN [JobsWithout(Replaced(k)) EXCEPT
                     ![r] = [state |-> "pending", version |-> i,
                             leased |-> FALSE, due |-> TRUE]]
             ELSE JobsWithout(Replaced(k))
  /\ UNCHANGED mode

\* delete_object and delete_object_version drop the versions S.
DropVersions(S) ==
  /\ objects' = ObjectsWithout(S)
  /\ chunks' = ChunksWithout(S)
  /\ jobs' = JobsWithout(S)
  /\ UNCHANGED <<mode, clock>>

HasRow(i, c) == i \in Ids /\ chunks[i][c].state # "none"

\* Mutant of SetLocator: the filter on version_id is lost.
SetLocatorOfIdx(i, c, l) ==
  chunks' = [j \in Ids |-> IF HasRow(j, c)
                           THEN [chunks[j] EXCEPT ![c].state = "remote", ![c].loc = l]
                           ELSE chunks[j]]
\* Mutant of ClearSpoolPath: an upsert, whose state falls back to the default.
UpsertSpoolPath(i, c) ==
  chunks' = IF HasRow(i, c)
            THEN [chunks EXCEPT ![i][c] = [@ EXCEPT !.path = None, !.state = "pending"]]
            ELSE chunks

\* commit_chunk_locator and clear_chunk_spool_path: UPDATE ... WHERE
\* version_id = i AND idx = c, whoever wrote that row.
SetLocator(i, c, l) ==
  chunks' = IF HasRow(i, c)
            THEN [chunks EXCEPT ![i][c] = [@ EXCEPT !.state = "remote", !.loc = l]]
            ELSE chunks
ClearSpoolPath(i, c) ==
  chunks' = IF HasRow(i, c)
            THEN [chunks EXCEPT ![i][c] = [@ EXCEPT !.path = None]]
            ELSE chunks

\* The member of S a loop over idx comes to next.
First(S, c) == c \in S /\ \A d \in S : c <= d

RequestBecomes(r, x) == req' = [req EXCEPT ![r] = x]
WorkerBecomes(w, x) == wk' = [wk EXCEPT ![w] = x]

\* A handler whose transaction committed goes on to remove files and messages,
\* unless the client hung up during the commit, or reading the copy back
\* failed: then nobody does.
Leave(r, files, locators) ==
  \/ /\ RequestBecomes(r, [Closed EXCEPT !.rm = files, !.rmBlobs = locators])
     /\ UNCHANGED disruptions
  \/ /\ RequestBecomes(r, Closed)
     /\ Disrupt

-----------------------------------------------------------------------------
(* S3 request handlers *)

\* A DELETE that has read the versioning status and not acted on it yet.
Deleting(r) == req[r].pc = "ready" /\ req[r].kind = "delete"

\* put_bucket_versioning_handler, or the dashboard (api_set_bucket_versioning).
SetVersioning(m) ==
  /\ mode # m
  /\ StatusMayMislead \/ ~\E r \in Requests : Deleting(r)
  /\ mode' = m
  /\ UNCHANGED <<objects, clock, chunks, jobs, stores, req, wk, gc, disruptions>>

\* put_object, up to the uuid it draws; its chunks are then spooled one by one.
BeginPut(r, k) ==
  /\ "put" \in Kinds
  /\ req[r].pc = "idle"
  /\ SweepWhileWriting \/ gc.pc \notin {"listing", "sweeping"}
  /\ RequestBecomes(r, [req[r] EXCEPT !.pc = "writing", !.kind = "put", !.key = k])
  /\ UNCHANGED <<tables, stores, wk, gc, disruptions>>

\* Mutant of SpoolChunk: one chunk too many.
SpoolChunkPastEnd(r) ==
  /\ req[r].pc = "writing"
  /\ req[r].written <= NumChunks
  /\ spool' = spool \cup {<<r, req[r].written + 1>>}
  /\ RequestBecomes(r, [req[r] EXCEPT !.written = @ + 1])
  /\ UNCHANGED <<tables, blobs, sent, wk, gc, disruptions>>

\* write_durable: the rename makes the file appear whole.
SpoolChunk(r) ==
  /\ req[r].pc = "writing"
  /\ req[r].written < NumChunks
  /\ spool' = spool \cup {<<r, req[r].written + 1>>}
  /\ RequestBecomes(r, [req[r] EXCEPT !.written = @ + 1])
  /\ UNCHANGED <<tables, blobs, sent, wk, gc, disruptions>>

\* The transaction of db::put_object; the spool paths of the versions it
\* replaced stay with the handler, to be removed.
CommitPut(r) ==
  /\ req[r].pc = "writing"
  /\ req[r].written = NumChunks
  /\ WriteVersion(r, FinalId(r, r), req[r].key, "data", r,
                  [c \in Idx |-> [state |-> "pending", path |-> <<r, c>>, loc |-> None]],
                  TRUE)
  /\ Leave(r, SpoolPaths(Replaced(req[r].key)), {})
  /\ UNCHANGED <<stores, wk, gc>>

\* A spool write or the transaction failed (always, when the id is taken):
\* the handler removes what it wrote.
AbandonPut(r) ==
  /\ req[r].pc = "writing"
  /\ \/ /\ req[r].written = NumChunks
        /\ IdTaken(FinalId(r, r), req[r].key)
        /\ UNCHANGED disruptions
     \/ Disrupt
  /\ spool' = spool \ {<<r, c>> : c \in 1..req[r].written}
  /\ RequestBecomes(r, Closed)
  /\ UNCHANGED <<tables, blobs, sent, wk, gc>>

\* copy_object_txn reads the latest version of the source before it begins
\* its transaction.
BeginCopy(r, k) ==
  /\ "copy" \in Kinds
  /\ req[r].pc = "idle"
  /\ \E i \in Ids, s \in Keys :
       /\ IsLatest(i, s)
       /\ RequestBecomes(r, [req[r] EXCEPT !.pc = "ready", !.kind = "copy", !.key = k,
                                            !.source = i, !.data = objects[i].data])
  /\ UNCHANGED <<tables, stores, wk, gc, disruptions>>

\* The rest of copy_object_txn: the versions of the destination are dropped
\* first, and the chunk rows of the source are copied as they are then, spool
\* path and locator included.
CommitCopy(r) ==
  LET rows == ChunksWithout(Replaced(req[r].key))[req[r].source] IN
  /\ req[r].pc = "ready"
  /\ req[r].kind = "copy"
  /\ WriteVersion(r, FinalId(r, r), req[r].key, "data", req[r].data, rows,
                  \E c \in Idx : rows[c].state = "pending")
  /\ Leave(r, SpoolPaths(Replaced(req[r].key)), {})
  /\ UNCHANGED <<stores, wk, gc>>

\* delete_object without versionId: the versioning status is read first, on
\* its own, and taken for Disabled if that fails.
BeginDelete(r, k) ==
  /\ "delete" \in Kinds
  /\ req[r].pc = "idle"
  /\ \E m \in {mode, "Disabled"} :
       /\ IF m = mode THEN UNCHANGED disruptions ELSE StatusMayMislead /\ Disrupt
       /\ RequestBecomes(r, [req[r] EXCEPT !.pc = "ready", !.kind = "delete", !.key = k,
                                            !.mode = m])
  /\ UNCHANGED <<tables, stores, wk, gc>>

\* create_delete_marker; the spool paths it replaces are dropped.
CommitMarker(r) ==
  /\ req[r].pc = "ready"
  /\ req[r].kind = "delete"
  /\ req[r].mode # "Disabled"
  /\ WriteVersion(r, FinalId(r, Null), req[r].key, "marker", None, [c \in Idx |-> NoChunk], FALSE)
  /\ RequestBecomes(r, Closed)
  /\ UNCHANGED <<stores, wk, gc, disruptions>>

\* The primary key refuses the row: nothing changes and the client gets an error.
RefuseWrite(r) ==
  /\ req[r].pc = "ready"
  /\ \/ req[r].kind = "copy" /\ IdTaken(FinalId(r, r), req[r].key)
     \/ /\ req[r].kind = "delete"
        /\ req[r].mode # "Disabled"
        /\ IdTaken(FinalId(r, Null), req[r].key)
  /\ RequestBecomes(r, Closed)
  /\ UNCHANGED <<tables, stores, wk, gc, disruptions>>

\* db::delete_object: every version of the key goes; the handler is left with
\* the spool paths and the locators to remove.
DropKey(r, k, locators) ==
  /\ DropVersions(VersionsOf(k))
  /\ Leave(r, SpoolPaths(VersionsOf(k)), locators)
  /\ UNCHANGED <<stores, wk, gc>>

CommitDelete(r) ==
  /\ req[r].pc = "ready"
  /\ req[r].kind = "delete"
  /\ req[r].mode = "Disabled"
  /\ DropKey(r, req[r].key, RemoteLocators(VersionsOf(req[r].key)))

\* One key of DeleteObjects, or of the dashboard (which removes no messages):
\* db::delete_object whatever the versioning status.
Purge(r, k) ==
  /\ "purge" \in Kinds
  /\ req[r].pc = "idle"
  /\ \/ DropKey(r, k, RemoteLocators(VersionsOf(k)))
     \/ DropKey(r, k, {})

\* DELETE with versionId: delete_object_version returns no locators.
DeleteVersion(r, i) ==
  /\ "deleteVersion" \in Kinds
  /\ req[r].pc = "idle"
  /\ objects[i].kind # "none"
  /\ DropVersions({i})
  /\ Leave(r, SpoolPaths({i}), {})
  /\ UNCHANGED <<stores, wk, gc>>

\* std::fs::remove_file, wherever its result is ignored.
RemoveFile(p) == \/ spool' = spool \ {p} /\ UNCHANGED disruptions
                 \/ UNCHANGED spool /\ Disrupt

\* After its transaction a handler removes files one by one ...
RemoveOldSpool(r) ==
  \E p \in req[r].rm :
    /\ RemoveFile(p)
    /\ RequestBecomes(r, [req[r] EXCEPT !.rm = @ \ {p}])
    /\ UNCHANGED <<tables, blobs, sent, wk, gc>>

\* ... and then messages (best_effort_remote_deletes), whose failure it ignores.
RemoveOldBlob(r) ==
  \E l \in req[r].rmBlobs :
    /\ req[r].rm = {}
    /\ \/ blobs' = blobs \ {l} /\ UNCHANGED disruptions
       \/ UNCHANGED blobs /\ Disrupt
    /\ RequestBecomes(r, [req[r] EXCEPT !.rmBlobs = @ \ {l}])
    /\ UNCHANGED <<tables, spool, sent, wk, gc>>

\* The client hangs up and the handler is dropped at an await: on its
\* transaction.  The loops over files have none, and the remote deletes run on
\* in spawn_blocking.
DropRequest(r) ==
  /\ \/ req[r].pc = "writing" /\ req[r].written = NumChunks
     \/ req[r].pc = "ready"
  /\ Disrupt
  /\ RequestBecomes(r, Closed)
  /\ UNCHANGED <<tables, stores, wk, gc>>

Handler(r) ==
  \/ \E k \in Keys : BeginPut(r, k) \/ BeginCopy(r, k) \/ BeginDelete(r, k) \/ Purge(r, k)
  \/ SpoolChunk(r) \/ CommitPut(r) \/ AbandonPut(r)
  \/ CommitCopy(r) \/ CommitMarker(r) \/ RefuseWrite(r) \/ CommitDelete(r)
  \/ \E i \in Ids : DeleteVersion(r, i)
  \/ RemoveOldSpool(r) \/ RemoveOldBlob(r) \/ DropRequest(r)

-----------------------------------------------------------------------------
(* Upload workers *)

\* Mutant of Claimable: a lease that ran out is not reclaimed.
ClaimableOnce(r) == jobs[r].state = "pending"

Claimable(r) == \/ jobs[r].state = "pending"
                \/ jobs[r].state = "uploading" /\ ~jobs[r].leased

\* Every UPDATE of a job is by job_id alone: nobody checks who holds the lease.
SetJob(r, state, due) ==
  IF jobs[r].state = "none"
  THEN jobs
  ELSE [jobs EXCEPT ![r] = [@ EXCEPT !.state = state, !.leased = FALSE, !.due = due]]

GoIdle(w) == WorkerBecomes(w, WorkerAt("idle"))

\* run_loop_dynamic has built a transport for the current credentials:
\* reset_failed_jobs.
Boot(w) ==
  /\ wk[w].pc = "boot"
  /\ jobs' = [r \in Requests |->
                IF jobs[r].state = "failed" THEN [jobs[r] EXCEPT !.state = "pending"]
                                            ELSE jobs[r]]
  /\ GoIdle(w)
  /\ UNCHANGED <<mode, objects, clock, chunks, stores, req, gc, disruptions>>

\* claim_job, the SELECT: a job that is due and pending, or whose lease ran out.
Poll(w) ==
  /\ wk[w].pc = "idle"
  /\ \E r \in Requests :
       /\ Claimable(r)
       /\ jobs[r].due
       /\ WorkerBecomes(w, [wk[w] EXCEPT !.pc = "selected", !.job = r,
                                          !.version = jobs[r].version])
  /\ UNCHANGED <<tables, stores, req, gc, disruptions>>

\* claim_job, the UPDATE: it looks at the state and the lease again.
Claim(w) ==
  /\ wk[w].pc = "selected"
  /\ Claimable(wk[w].job)
  /\ jobs' = [jobs EXCEPT ![wk[w].job] = [@ EXCEPT !.state = "uploading", !.leased = TRUE]]
  /\ WorkerBecomes(w, [wk[w] EXCEPT !.pc = "claimed"])
  /\ UNCHANGED <<mode, objects, clock, chunks, stores, req, gc, disruptions>>

LoseClaim(w) ==
  /\ wk[w].pc = "selected"
  /\ ~Claimable(wk[w].job)
  /\ GoIdle(w)
  /\ UNCHANGED <<tables, stores, req, gc, disruptions>>

\* Mutant of LoadChunks: the last chunk is left out.
LoadChunksButLast(w) ==
  LET v == wk[w].version IN
  /\ wk[w].pc = "claimed"
  /\ WorkerBecomes(w, [wk[w] EXCEPT
                        !.pc = "uploading",
                        !.todo = {c \in Idx : chunks[v][c].state = "pending" /\ c < NumChunks},
                        !.snap = [c \in Idx |-> chunks[v][c].path]])
  /\ UNCHANGED <<tables, stores, req, gc, disruptions>>

\* object_version_exists said yes (the version may be gone again by now), then
\* chunks_of: the worker keeps this snapshot to the end.
LoadChunks(w) ==
  LET v == wk[w].version IN
  /\ wk[w].pc = "claimed"
  /\ WorkerBecomes(w, [wk[w] EXCEPT
                        !.pc = "uploading",
                        !.todo = {c \in Idx : chunks[v][c].state = "pending"},
                        !.snap = [c \in Idx |-> chunks[v][c].path]])
  /\ UNCHANGED <<tables, stores, req, gc, disruptions>>

\* The version was deleted meanwhile: finish_upload_job.
SkipGone(w) ==
  /\ wk[w].pc = "claimed"
  /\ objects[wk[w].version].kind = "none"
  /\ jobs' = SetJob(wk[w].job, "done", jobs[wk[w].job].due)
  /\ GoIdle(w)
  /\ UNCHANGED <<mode, objects, clock, chunks, stores, req, gc, disruptions>>

\* The next chunk that was pending when the worker looked.
NextChunk(w, c) == wk[w].pc = "uploading" /\ First(wk[w].todo, c)

\* A message with the bytes of file p reaches the chat.
StoreMessage(p) ==
  /\ sent[p] < MaxUploads
  /\ sent' = [sent EXCEPT ![p] = @ + 1]
  /\ blobs' = blobs \cup {<<p, sent[p] + 1>>}

\* Transport::upload answers with a locator.
Upload(w) ==
  \E c \in wk[w].todo :
    LET p == wk[w].snap[c] IN
    /\ NextChunk(w, c)
    /\ p \in spool
    /\ StoreMessage(p)
    /\ WorkerBecomes(w, [wk[w] EXCEPT !.pc = "sent", !.loc = <<p, sent[p] + 1>>])
    /\ UNCHANGED <<tables, spool, req, gc, disruptions>>

\* No spool path, or no file: the error leaves the job `uploading` until its
\* lease runs out.
LackFile(w) ==
  /\ \E c \in wk[w].todo : NextChunk(w, c) /\ wk[w].snap[c] \notin spool
  /\ GoIdle(w)
  /\ UNCHANGED <<tables, stores, req, gc, disruptions>>

\* Telegram refuses the upload (or stores it and the answer is lost):
\* fail_job puts the job back with a backoff, or gives it up.
FailUpload(w) ==
  \E c \in wk[w].todo :
    LET p == wk[w].snap[c] IN
    /\ NextChunk(w, c)
    /\ p \in spool
    /\ \/ UNCHANGED <<blobs, sent, disruptions>>
       \/ StoreMessage(p) /\ Disrupt
    /\ \/ jobs' = SetJob(wk[w].job, "pending", FALSE)
       \/ jobs' = SetJob(wk[w].job, "failed", jobs[wk[w].job].due)
    /\ GoIdle(w)
    /\ UNCHANGED <<mode, objects, clock, chunks, spool, req, gc>>

CommitLocator(w) ==
  /\ wk[w].pc = "sent"
  /\ \E c \in wk[w].todo :
       /\ First(wk[w].todo, c)
       /\ SetLocator(wk[w].version, c, wk[w].loc)
       /\ WorkerBecomes(w, [wk[w] EXCEPT !.pc = "uploading", !.todo = @ \ {c}, !.loc = None])
  /\ UNCHANGED <<mode, objects, clock, jobs, stores, req, gc, disruptions>>

\* Mutant of FindJob: the job ends before its chunks are uploaded.
FindJobEarly(w) ==
  /\ wk[w].pc = "uploading"
  /\ WorkerBecomes(w, [wk[w] EXCEPT
                        !.pc = IF jobs[wk[w].job].state = "none" THEN "marked" ELSE "found"])
  /\ UNCHANGED <<tables, stores, req, gc, disruptions>>

\* finish_upload_job, three statements and no transaction: it looks the job
\* up, marks the version that row names `remote` (an error is ignored) ...
FindJob(w) ==
  /\ wk[w].pc = "uploading"
  /\ wk[w].todo = {}
  /\ WorkerBecomes(w, [wk[w] EXCEPT
                        !.pc = IF jobs[wk[w].job].state = "none" THEN "marked" ELSE "found"])
  /\ UNCHANGED <<tables, stores, req, gc, disruptions>>

MarkRemote(w) ==
  LET v == wk[w].version IN
  /\ wk[w].pc = "found"
  /\ \/ /\ objects' = IF objects[v].kind = "none" THEN objects
                       ELSE [objects EXCEPT ![v].remote = TRUE]
        /\ UNCHANGED disruptions
     \/ UNCHANGED objects /\ Disrupt
  /\ WorkerBecomes(w, [wk[w] EXCEPT !.pc = "marked"])
  /\ UNCHANGED <<mode, clock, chunks, jobs, stores, req, gc>>

\* ... and sets the job `done`.  Then the spool files of the snapshot are to go.
EndJob(w) ==
  LET files == {c \in Idx : wk[w].snap[c] # None} IN
  /\ wk[w].pc = "marked"
  /\ jobs' = SetJob(wk[w].job, "done", jobs[wk[w].job].due)
  /\ WorkerBecomes(w, IF files = {} THEN WorkerAt("idle")
                                    ELSE [wk[w] EXCEPT !.pc = "cleaning", !.clean = files])
  /\ UNCHANGED <<mode, objects, clock, chunks, stores, req, gc, disruptions>>

\* clear_chunk_spool_path, wherever its result is ignored.
TryClearPath(i, c) == \/ ClearSpoolPath(i, c) /\ UNCHANGED disruptions
                      \/ UNCHANGED chunks /\ Disrupt

\* remove_file of a chunk of the snapshot, then clear_chunk_spool_path of the
\* row that now has its number.
RemoveSpool(w) ==
  /\ wk[w].pc = "cleaning"
  /\ \E c \in wk[w].clean :
       /\ First(wk[w].clean, c)
       /\ RemoveFile(wk[w].snap[c])
  /\ WorkerBecomes(w, [wk[w] EXCEPT !.pc = "removed"])
  /\ UNCHANGED <<tables, blobs, sent, req, gc>>

ClearPath(w) ==
  /\ wk[w].pc = "removed"
  /\ \E c \in wk[w].clean :
       /\ First(wk[w].clean, c)
       /\ TryClearPath(wk[w].version, c)
       /\ WorkerBecomes(w, IF wk[w].clean = {c} THEN WorkerAt("idle")
                            ELSE [wk[w] EXCEPT !.pc = "cleaning", !.clean = @ \ {c}])
  /\ UNCHANGED <<mode, objects, clock, jobs, stores, req, gc>>

\* A database error ends process_one_job_sync, where it is not ignored.
WorkerError(w) ==
  /\ wk[w].pc \in {"selected", "claimed", "uploading", "sent", "marked"}
  /\ Disrupt
  /\ GoIdle(w)
  /\ UNCHANGED <<tables, stores, req, gc>>

\* New credentials at the head of the loop.
ChangeCredentials(w) ==
  /\ wk[w].pc = "idle"
  /\ Disrupt
  /\ WorkerBecomes(w, WorkerAt("boot"))
  /\ UNCHANGED <<tables, stores, req, gc>>

\* The 300 s of a lease, and a backoff, run out.
ExpireLease(r) ==
  /\ jobs[r].state = "uploading"
  /\ jobs[r].leased
  /\ jobs' = [jobs EXCEPT ![r] = [@ EXCEPT !.leased = FALSE]]
  /\ UNCHANGED <<mode, objects, clock, chunks, stores, req, wk, gc, disruptions>>

EndBackoff(r) ==
  /\ jobs[r].state # "none"
  /\ ~jobs[r].due
  /\ jobs' = [jobs EXCEPT ![r] = [@ EXCEPT !.due = TRUE]]
  /\ UNCHANGED <<mode, objects, clock, chunks, stores, req, wk, gc, disruptions>>

WorkerStep(w) ==
  \/ Boot(w) \/ Poll(w) \/ Claim(w) \/ LoseClaim(w) \/ LoadChunks(w) \/ SkipGone(w)
  \/ Upload(w) \/ LackFile(w) \/ FailUpload(w) \/ CommitLocator(w)
  \/ FindJob(w) \/ MarkRemote(w) \/ EndJob(w) \/ RemoveSpool(w) \/ ClearPath(w)

UploadWorker(w) == WorkerStep(w) \/ WorkerError(w) \/ ChangeCredentials(w)

-----------------------------------------------------------------------------
(* run_gc *)

\* remote_spool_chunks: chunks that are remote and still name a spool file.
StartGc ==
  /\ gc.pc = "idle"
  /\ gc' = [GcAt("rows") EXCEPT
              !.rows = {x \in Ids \X Idx \X Paths :
                          /\ chunks[x[1]][x[2]].state = "remote"
                          /\ chunks[x[1]][x[2]].path = x[3]}]
  /\ UNCHANGED <<tables, stores, req, wk, disruptions>>

\* The file first, if it exists (if it cannot be removed, the row waits for the
\* next run) ...
FreeFile ==
  /\ gc.pc = "rows"
  /\ \E x \in gc.rows :
       \/ /\ spool' = spool \ {x[3]}
          /\ gc' = [gc EXCEPT !.pc = "freed", !.rows = @ \ {x}, !.row = <<x[1], x[2]>>]
          /\ UNCHANGED disruptions
       \/ /\ x[3] \in spool
          /\ gc' = [gc EXCEPT !.rows = @ \ {x}]
          /\ UNCHANGED spool /\ Disrupt
  /\ UNCHANGED <<tables, blobs, sent, req, wk>>

\* ... then the row that now has its number.
FreeRow ==
  /\ gc.pc = "freed"
  /\ TryClearPath(gc.row[1], gc.row[2])
  /\ gc' = [gc EXCEPT !.pc = "rows", !.row = None]
  /\ UNCHANGED <<mode, objects, clock, jobs, stores, req, wk>>

\* active_spool_paths.
ReadActive ==
  /\ gc.pc = "rows"
  /\ gc.rows = {}
  /\ SweepWhileWriting \/ \A r \in Requests : req[r].pc # "writing"
  /\ gc' = [gc EXCEPT !.pc = "listing", !.paths = ActivePaths]
  /\ UNCHANGED <<tables, stores, req, wk, disruptions>>

\* Mutant of ListSpool: the test on the active set is inverted.
ListSpoolInverted ==
  /\ gc.pc = "listing"
  /\ gc' = [gc EXCEPT !.pc = "sweeping", !.paths = spool \cap @]
  /\ UNCHANGED <<tables, stores, req, wk, disruptions>>

\* read_dir: what is not in the active set read before is an orphan.
ListSpool ==
  /\ gc.pc = "listing"
  /\ gc' = [gc EXCEPT !.pc = "sweeping", !.paths = spool \ @]
  /\ UNCHANGED <<tables, stores, req, wk, disruptions>>

SweepFile ==
  /\ gc.pc = "sweeping"
  /\ \E p \in gc.paths :
       /\ RemoveFile(p)
       /\ gc' = [gc EXCEPT !.paths = @ \ {p}]
  /\ UNCHANGED <<tables, blobs, sent, req, wk>>

EndSweep ==
  /\ gc.pc = "sweeping"
  /\ gc.paths = {}
  /\ gc' = GcAt("remote")
  /\ UNCHANGED <<tables, stores, req, wk, disruptions>>

\* Mutant of Deletable: the test on is_delete_marker is inverted.
DeletableOfData(i, c) == /\ objects[i].kind # "marker"
                         /\ chunks[i][c].loc # None

\* deletable_telegram_locators joins chunks with delete markers.
Deletable(i, c) == /\ objects[i].kind = "marker"
                   /\ chunks[i][c].loc # None

CollectRemote ==
  /\ gc.pc = "remote"
  /\ blobs' = blobs \ {chunks[x[1]][x[2]].loc : x \in {y \in Ids \X Idx : Deletable(y[1], y[2])}}
  /\ chunks' = [i \in Ids |-> [c \in Idx |->
                  IF Deletable(i, c) THEN [chunks[i][c] EXCEPT !.loc = None] ELSE chunks[i][c]]]
  /\ gc' = GcAt("idle")
  /\ UNCHANGED <<mode, objects, clock, jobs, spool, sent, req, wk, disruptions>>

Gc == \/ StartGc \/ FreeFile \/ FreeRow
      \/ ReadActive \/ ListSpool \/ SweepFile \/ EndSweep
      \/ CollectRemote

-----------------------------------------------------------------------------
\* The process dies and starts again: every handler, worker and GC run is
\* gone, and reconcile_spool removes the files the database does not name (all
\* of them, if the query failed: unwrap_or_default).
Restart ==
  /\ Disrupt
  /\ \/ spool' = spool \cap ActivePaths
     \/ StartupQueryMayFail /\ spool' = {}
  /\ req' = [r \in Requests |-> IF req[r].pc = "idle" THEN req[r] ELSE Closed]
  /\ wk' = [w \in Workers |-> WorkerAt("boot")]
  /\ gc' = GcAt("idle")
  /\ UNCHANGED <<tables, blobs, sent>>

Next ==
  \/ \E m \in Modes : SetVersioning(m)
  \/ \E r \in Requests : Handler(r) \/ ExpireLease(r) \/ EndBackoff(r)
  \/ \E w \in Workers : UploadWorker(w)
  \/ Gc
  \/ Restart

Spec == Init /\ [][Next]_vars

\* What the threads and the clock keep doing by themselves.  A worker thread
\* takes its next step, a handler that is not dropped reaches its end, leases
\* and backoffs run out, the operator runs GC again and again, and Telegram
\* does not refuse for ever.
HandlerStep(r) ==
  \/ SpoolChunk(r) \/ CommitPut(r) \/ AbandonPut(r) \/ CommitCopy(r) \/ CommitMarker(r)
  \/ RefuseWrite(r) \/ CommitDelete(r) \/ RemoveOldSpool(r) \/ RemoveOldBlob(r)

Fairness ==
  /\ \A r \in Requests : /\ WF_vars(HandlerStep(r))
                         /\ WF_vars(ExpireLease(r))
                         /\ WF_vars(EndBackoff(r))
  /\ \A w \in Workers : WF_vars(WorkerStep(w)) /\ SF_vars(Upload(w))
  /\ WF_vars(Gc)

FairSpec == Spec /\ Fairness

-----------------------------------------------------------------------------
(* What must hold, whatever the workload *)

\* finish_upload_job, fail_job, the lease and the delete transactions: as long
\* as a row of a version is `pending`, some job of that version is still to be
\* run (or was given up visibly), whoever reclaimed, finished late or failed late.
NoForgottenChunk ==
  \A i \in Ids, c \in Idx :
    chunks[i][c].state = "pending" =>
      \E r \in Requests : /\ jobs[r].version = i
                         /\ jobs[r].state \in {"pending", "uploading", "failed"}

\* Every delete and overwrite takes the jobs of the version with it: none is
\* left to upload into a version that is gone or into a delete marker.
JobsOwnLiveVersions ==
  \A r \in Requests : jobs[r].state # "none" => objects[jobs[r].version].kind = "data"

\* commit_chunk_locator against clear_chunk_spool_path, GC and reclaimed jobs:
\* a row that became `remote` stays so until its version is dropped.
RemoteIsFinal ==
  [][\A i \in Ids, c \in Idx :
       chunks[i][c].state = "remote" =>
         chunks'[i][c].state = "remote" \/ objects'[i].seq # objects[i].seq]_vars

(* What holds as long as no bucket is Suspended *)

\* The storage state `remote` of a version (telegram-committed) is a promise
\* about every one of its chunk rows, even when two workers hold one job.
HonestState ==
  \A i \in Ids : objects[i].remote => \A c \in Idx : chunks[i][c].state # "pending"

\* The file and the message a chunk row names hold the bytes its version was
\* written with: no late worker writes into a version that is not its own.
OwnBytes ==
  \A i \in Ids, c \in Idx :
    /\ chunks[i][c].path # None => chunks[i][c].path = <<objects[i].data, c>>
    /\ chunks[i][c].loc # None => chunks[i][c].loc[1] = <<objects[i].data, c>>

(* What holds if, moreover, nobody copies and GC does not overlap a PUT *)

\* collect_version_parts: the spool file if it is there, or else the message.
Fetch(i, c) ==
  CASE chunks[i][c].path \in spool -> chunks[i][c].path
    [] /\ chunks[i][c].path \notin spool
       /\ chunks[i][c].state = "remote"
       /\ chunks[i][c].loc \in blobs -> chunks[i][c].loc[1]
    [] OTHER -> None

\* accepted-local: from the commit of its transaction to its deletion, every
\* chunk of a version can be read, through worker, GC, crash and restart.
Readable ==
  \A i \in Ids : objects[i].kind = "data" => \A c \in Idx : Fetch(i, c) # None

\* A remote row can do without the spool: its message is still in the chat.
RemoteIsStored ==
  \A i \in Ids, c \in Idx : chunks[i][c].state = "remote" => chunks[i][c].loc \in blobs

\* To its clients the pipeline is a store that keeps what was put and forgets
\* what was deleted, each request taking effect at most once.
Contents ==
  [i \in Ids |-> [kind |-> objects[i].kind, key |-> objects[i].key, seq |-> objects[i].seq,
                  body |-> IF objects[i].kind = "data" THEN [c \in Idx |-> Fetch(i, c)]
                                                       ELSE None]]
Abstract == INSTANCE VersionStore WITH
           versions <- Contents,
           done <- {r \in Requests : req[r].pc = "closed"}

ImplementsVersionStore == Abstract!Spec

\* A queued job is finished, given up or dropped: leases of dead workers run
\* out and are reclaimed.
Offloaded ==
  \A r \in Requests : jobs[r].state \in {"pending", "uploading"}
                        ~> jobs[r].state \in {"done", "failed", "none"}

\* Once its handler is done with it a spool file does not stay for ever,
\* whether uploaded, replaced, deleted or orphaned, unless its job was given up.
SpoolDrains ==
  \A r \in Requests, c \in Idx :
    <<r, c>> \in spool /\ req[r].pc = "closed"
      ~> <<r, c>> \notin spool \/ jobs[r].state = "failed"

(* What the docs say of versioned buckets, and DeleteObjects refutes *)

\* DeleteObjects knows version ids and delete markers: in an Enabled bucket a
\* version goes only by a DELETE that names it.
EnabledKeepsVersions ==
  [][mode = "Enabled" =>
       \A i \in Ids : objects[i].kind # "none" =>
         objects'[i].kind # "none" \/ \E r \in Requests : DeleteVersion(r, i)]_vars

(* What the docs say of the spool, and copies refute *)

\* GC and the workers free a spool file only when nothing needs it any more: no
\* row that is still to be uploaded names it.
PendingHasFile ==
  \A i \in Ids, c \in Idx : chunks[i][c].state = "pending" => chunks[i][c].path \in spool
=============================================================================
