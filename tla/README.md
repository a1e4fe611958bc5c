# TeleCrate in TLA+

TeleCrate is an S3-compatible object store whose durable medium is a Telegram
chat. An object is cut into chunks, the chunks are written to a local spool
directory, their rows are committed to a SQL database, and only later does a
worker thread upload them as messages and free the spool. A garbage collector
and the startup code remove what nobody refers to. No transaction spans the
database, the directory and the chat: this development is about what can
happen between them.

Paths below are relative to the repository (`src/db/mod.rs`, `docs/...`).

## 1. Inventory

| Component | State it keeps | Operations | Correct when |
|---|---|---|---|
| Metadata database (`src/db/mod.rs`, `src/db/entities`) | tables `buckets`, `objects`, `chunks`, `upload_jobs`, `multipart_*`, `object_locks`, `access_keys`, policies | one transaction per S3 write; single UPDATEs by workers and GC | rows agree with each other: a pending chunk has a job, a job has a data version, a remote row stays remote |
| Upload worker (`src/worker.rs`) | per thread: the claimed job and the chunk rows it read once | claim (SELECT, then UPDATE), upload, commit locator, finish (three statements), fail, clean the spool, boot | every job ends; storage state `remote` is a fact about the chunks; no worker writes into a version that is not its own |
| Spool (`src/spool.rs`) | `.chunk` files | `write_durable`, `remove_file`, `reconcile_spool` | a file is there as long as something needs it, and not for ever |
| Garbage collector (`src/gc.rs`) | one run: rows read, active set, directory listing | free spools of remote chunks, sweep orphans, delete blobs, clean aborted parts | frees only what nobody needs |
| S3 write handlers (`src/app.rs`) | per request: chunks spooled so far, paths and locators still to remove | PUT, CopyObject, DELETE, DELETE?versionId, DeleteObjects | an acknowledged object is readable until replaced or deleted |
| Versioning (`src/db/mod.rs`, `src/app.rs`) | `versioning_status` | switch; choice of version id; delete markers | Enabled keeps every version until one is deleted by its id, Suspended one null version per key, Disabled one version per key |
| S3 read handlers (`src/app.rs`) | one GET: version and chunk snapshot; one listing: continuation token | GET, HEAD, Range, ListObjects | returns the bytes of one version; lists every key that is there, once |
| Multipart (`src/db/mod.rs`, `src/app.rs`, `src/spool.rs`) | uploads, parts, part files and their tmp files | create, upload part, complete, abort | a completed upload consists of the parts it listed, with their bytes |
| Object lock (`src/app.rs`, `src/db/mod.rs`) | `object_locks`, bucket default | retention, legal hold, checks before delete | a locked version is not deleted |
| Preconditions (`src/app.rs`) | none | If-Match and If-None-Match before a write | a conditional write took place only if its condition held |
| Buckets (`src/db/mod.rs`) | `buckets` and the rows that hang on it | create, delete, policy, block, versioning | nothing outlives its bucket |
| Startup and crash (`src/main.rs`) | none | migrations, reconcile, workers | accepted objects survive |
| Recovery (`src/recovery.rs`) | exported bundle | export, import | an import gives the objects back |
| Telegram transport (`src/telegram.rs`) | the chat | upload, download, delete | external service; answers may be lost |
| Policy (`src/policy.rs`) and authentication (`src/sigv4.rs`) | policy documents, Block Public Access, access keys | evaluate, verify a signature, a presigned URL, a form | a request passes if, and only if, what it shows and the policy allow it |
| Admin API (`src/admin.rs`) | sessions, login window, audit ring | login, logout, access keys, buckets, run GC, settings | no request passes on a session that has ended or a key that is revoked |
| CORS, crypto, S3 XML | none | pure functions | |
| Config, TLS, logging, CLI, doctor, dashboard, packaging | none shared | plumbing | |

Interactions: handlers write files, then one transaction, then remove files and
messages. Workers read the tables, the files and the chat, and write the tables
and the chat; they share no memory with the handlers. GC reads the tables and
the directory and removes files. Startup runs before either.

What is hard: every actor acts on what it read some steps ago (the worker's
chunk snapshot, GC's active set and listing, the paths a handler removes after
its commit, the versioning status a DELETE read, the parts a completion has
validated, the locks a DELETE has looked at, the policy a request is judged by,
the page a listing ended with); leases may run out under a
working thread; a crash, an error, a client hanging up or a lost answer of
Telegram may come between any two steps. `PROJECT.json` lists these hazards
one by one, at the line where they bite, with the property that covers them.

## 2. Modules

| Module | What it is |
|---|---|
| `ObjectPipeline` | handlers, transactions, workers, leases, GC, Telegram, crash and restart, over one bucket |
| `VersionStore` | the abstract store the pipeline promises its clients: versions and their bytes, nothing else |
| `Multipart` | multipart uploads of one key, down to the tmp file two writers of a part share, with workers, the sweep and restart |
| `ReadPath` | extends `ObjectPipeline` with GETs, query by query and file by file |
| `Recovery` | extends `ReadPath` with the export of the metadata and its import |
| `Policy` | wildcards, principals and the evaluation of a bucket policy, as operators, and what they mean |
| `Gateway` | extends `Policy`: who a request is from, whether it may, and what it does to the bucket, to version rows and locks, or lists |
| `MCObjectPipeline`, `MCMultipart`, `MCReadPath` | the symmetry sets, for TLC |
| `MCGateway` | the scenes of the `gateway` run: which requests meet in which bucket; and small inputs for the operators of `Policy` |
| `ObjectPipelineProofs` | type correctness of `ObjectPipeline`, and what may happen to a chunk row, proved |
| `JobProofs` | the safety of the job queue, proved |
| `VersionProofs` | what holds of the pipeline as long as no bucket is Suspended, proved |
| `StoreProofs` | that nothing acknowledged is lost and the pipeline implements `VersionStore`, in safe use, proved |
| `ReadProofs` | what GETs and the export of `ReadPath` and `Recovery` give back, proved |
| `MultipartProofs` | type correctness of `Multipart`, its foreign key, that an object is what was listed, and that an upload becomes one object, proved |
| `PartFileProofs` | that parts and objects of `Multipart` have their bytes, proved |
| `GatewayProofs` | every property of `Gateway`, proved: types, the bucket, preconditions, locks, decisions, listings |

`ObjectPipeline` is about what happens to the bytes of an object, `Gateway` about
who may do what to which row; the rows of the second have no bytes. `Multipart`
repeats the little of the pipeline that a part file depends on (a worker that
stores a chunk and frees its file, the sweep, the restart) in place of composing
the two, because a part file, unlike any other, is named after what clients
choose and is shared between requests.

### How `ObjectPipeline` corresponds to the code

State. `objects`, `chunks` and `jobs` are the tables, indexed by version id (and
`idx`, and job); "none" is the absence of a row. `mode` is
`buckets.versioning_status`. `clock`/`seq` stand for the order
`(created_at, rowid)` by which `latest_version` picks. `spool` is the set of
`.chunk` files; a path is the uuid of the request that wrote the file and a
chunk index, as in `chunk_path`, and stands for the bytes. `blobs` is the chat:
a locator is a path and the number of the message that carries it, so that the
same chunk uploaded twice gives two messages. `req[r]`, `wk[w]` and `gc` are
the program counters and local variables of a handler, of a worker thread and
of the run of GC.

Steps. A transaction is one step; a single statement outside a transaction is
one step; each `remove_file` and each Telegram call is one step.

* `BeginPut`, `SpoolChunk`, `CommitPut`, `AbandonPut`: `put_object` in `app.rs`
  draws a uuid, spools, commits; `RemoveOldSpool` is its loop over the paths of
  the versions it replaced. `WriteVersion`, `Replaced`, `FinalId`, `IdTaken`
  are `prepare_versioning_write_tx` and the inserts that follow it, the primary
  key included (`RefuseWrite`).
* `BeginCopy`, `CommitCopy`: `copy_object_txn`, whose first query runs before
  its transaction. The chunk rows are shared with the source, path and locator.
* `BeginDelete`, `CommitMarker`, `CommitDelete`: `delete_object` reads the
  status, then adds a marker or drops every version; the status may be another
  by then, or have been taken for Disabled because the query failed
  (`StatusMayMislead`). `Purge` is one key of DeleteObjects or the dashboard's
  delete, which drop every version in any bucket. `DeleteVersion` is `?versionId`.
  `RemoveOldBlob` is `best_effort_remote_deletes`.
* `DropRequest`, and the second branch of `Leave`: the client hangs up and axum
  drops the handler at an await. The loops over files contain no await and the
  blob deletes run in `spawn_blocking`, so they are not cut.
* `Poll`, `Claim`/`LoseClaim`: the SELECT and the UPDATE of `claim_job`.
  `LoadChunks`/`SkipGone`, `Upload`/`LackFile`/`FailUpload`, `CommitLocator`,
  `FindJob`/`MarkRemote`/`EndJob` (the three statements of
  `finish_upload_job`), `RemoveSpool`/`ClearPath`: `process_one_job_sync`,
  line by line. `WorkerError` is an `Err` that leaves the function (the job
  then waits for its lease); `Boot` is `run_loop_dynamic` building a transport
  and `reset_failed_jobs`; `ChangeCredentials` sends it back there.
* `ExpireLease`, `EndBackoff`: the wall clock. Every UPDATE of a job is by
  `job_id` alone, so a worker whose lease was taken over still ends the job.
* `StartGc`, `FreeFile`, `FreeRow`, `ReadActive`, `ListSpool`, `SweepFile`,
  `EndSweep`, `CollectRemote`: `run_gc`.
* `Restart`: the process dies and starts again, `reconcile_spool` included.

Left out on purpose: bytes, sizes, etags, metadata and encryption (a path
stands for its bytes); the tmp file of `write_durable` (nobody reads it);
backoff durations (the bit `due`); conditional headers and object locks, whose
checks precede a write (`Gateway`); multipart parts (`Multipart`); several buckets (no transaction of
those modelled spans two, except a copy, for which source and destination keys
may differ here); two GC runs at once; and interleavings inside a transaction,
which SQLite serialises. On PostgreSQL the same transactions run at READ
COMMITTED: what two of them could do to each other is not modelled.

`VersionStore` has one action per request that takes effect, and no failures
but requests that do nothing. Only in a Disabled bucket may it drop all versions of
a key (`DropAll`); elsewhere a version goes one at a time. The code keeps to that
in `pipeline_safe`, and breaks it in two ways: DeleteObjects (run
`purge_versioned`), and a DELETE that acts on a status which is not, or no
longer, the bucket's. Under `Abstract` a version's body is what a reader
would get for each chunk now (`Fetch`: the spool file if it is there, or else
the message), so the refinement says that worker, GC and crash steps are
invisible: they never change what a reader sees.

### `Multipart`

`uploads` and `parts` are the two tables. A part's file name is its upload and
its number, nothing else, so `write_durable` is split into its system calls:
`OpenTmp` (create or truncate), `WriteTmp` (to the inode that was opened),
`RenameTmp` (of whatever has the tmp name by then). `file` and `tmp` map names
to inodes and `data` inodes to contents. `BeginComplete` is
`complete_multipart_upload_txn` up to its transaction (two queries and the
validation of the client's list), `CommitComplete` the transaction;
`BeginAbort`/`CommitAbort` likewise. `ReadChunkPaths` and `ReadPartPaths` are the
two queries of `active_spool_paths`.

The code makes no promise to a client that works against itself: two bodies
under one part number at once, a completion beside a part still on its way. The
history variables `clashed` and `rewritten` say which uploads did (or were swept
by GC while a part was being written, or completed beside a sweep); an upload that
did not is `Orderly`, and `Intact`, `PartHasFile` and `OneObject` are about those,
whatever the others, the workers, the sweep and crashes do. What the others may
lose is real: two writers of one part, two completions at once, or a completion
between the two queries of the sweep end in an object with the wrong bytes, in two
objects, or in files that are gone.

`AsListed` and `EndedHasNoRows` are about all uploads. `AsListed` is about rows:
the chunk rows of an object describe every part its list named, with the ETag it
named, and as many. That the bytes are those of the rows is `Intact`. A list that
names a part twice, or not in ascending order, passes the code's validation; only
of an ascending one does `AsListed` say that nothing else got in.

`Restart` is the startup of `main.rs`: `reconcile_spool` keeps what
`active_spool_paths` returned, and if that query fails `unwrap_or_default` makes it
the empty set and every part and chunk file goes. History `wiped` remembers which;
`Intact` and `PartHasFile` make an exception of these files and of no others.

### `ReadPath` and `Recovery`

`BeginGet` is the query for the version, `LoadRows` that for its chunks,
`ReadFile` and `FindLocator` one turn each of the loop of
`collect_version_parts`, `Download` one message, `Answer` the last query and the
response. A query or a file read may end in an error (`QueryErrs`), and Telegram may
refuse a download, be out of reach or not configured (`Errs`): a 500 or 502 with
nothing dropped or moved, remembered in `refused`. An answer is final, so while one is being looked at (`Answered`)
nothing else needs to move; `NextGet` then frees the reader.

`ReadObjects` and `ReadChunks` are two of the export's queries, `Import` the whole
import, one transaction. The export and the GETs only read what the others
write, so it is enough to let one of them run at a time beside the pipeline;
and the import reads nothing but the bundle, so it is enough to let it come at
once. A bundle has no jobs: a restored version whose chunks were still local is
never uploaded, which nobody promises. Null versions are left out of
`BundleSound`, because the row read first may be replaced by another write of
the same id before the second query.

### `Policy` and `Gateway`

In `Policy` an ARN is a sequence of tokens and a pattern may hold `Star`.
`WildcardMatch` splits at the stars and takes parts as the code does; `Glob` and
`Meant` say, without an algorithm, what a pattern and a policy mean. `MCGateway`
compares the two on small inputs. The properties of `Gateway` are stated with
`Meant`, the actions with `EvalPolicy`.

The rows of `Gateway` are a set of records, numbered as `rowid` numbers them (one
more than the highest there is), since all queries order them: the latest version
of a key is the one with the highest number (`IsLatest`), and a window of
`list_keys` is the rows beyond the cursor that have at most so many rows before
them (`UpTo`, `Window`). What a request may ask for (`IsAsk`) and what it may find
(`SceneAssumption`) are assumptions on the constant `Scenes`: a stored policy can
be parsed, a bucket that is not there has no rows, one that never was versioned
has one version per key.

A request of `Gateway` is a record in `ask` that never changes; `req[r].pc` is how
far its handler has come. `Authenticate`, `LoadPolicy` and `LoadBlock` are
`check_auth_with_policy` query by query. Then come, each query a step:
`CheckBucket`, `CheckCondition` and `CommitPut`; `FindVersion`, `ReadHold`,
`ReadRetention` (the object lock check), `ReadMode`, and the three ways a delete
ends (`DropVersion`, `Mark`, `DropAll`); `FindTarget`, `SetRetention`, `SetHold`;
the creation and deletion of the bucket; `ListWindow`, one window of `list_keys`.
The administrator creates, revokes and changes access keys, logs in and out.
The HMAC is a comparison of secrets; the time windows are those of the code.
CSRF tokens and sessions are compared as the code does (`Admits`).

Many of these queries fail open: `.ok().flatten()`, `if let Ok` or `unwrap_or_else`
take an error for an empty answer. `Queries` names them, and each step that makes
one has a branch in which it fails (`Query`): a key is not found, a policy or a
block setting is not there, a version has no locks, a lock is none, the bucket is
Disabled, an object does not exist. `lost` holds which query of which request
failed, and the properties say what may then go wrong, query by query: a failed
policy query excuses a grant that policy would have denied, and not one under a
revoked key; a failed query for a hold excuses the loss of a version on hold, and
not of one under retention. Errors the code does not swallow end the request with
a 500 and no effect; that is a request that takes no more steps.

`Meant` reads a principal that is a bare string as the user it names, `*` being
everybody. The code takes any bare string for everybody (`src/policy.rs:107`),
so a Deny to `"u1"` denies all; `BareStringsDiverge` in `MCGateway` shows it.
`GrantHadGrounds` and `RefusalHadGrounds` are about documents without such a string
(`PoliciesMean`, evaluated by TLC for the documents of the run).

`seen`, `met`, `guarded` and `shown` are history: what a request could have read
while it was judged, whether its condition held at any time, which locks were
in force since before a DELETE looked, which keys a listing ought to show. They
are set in `Observe`, a conjunct of every step, and restrain nothing. A request is
judged by a key, a policy and a block setting read one after the other, so
`GrantHadGrounds` speaks of a combination of such moments (`Mixes`), not of one.

## 3. What TLC checks

| Run | Instance | Shows |
|---|---|---|
| `pipeline_all` | 2 keys, 2 requests of every kind, all three versioning states, 1 worker, GC and startup unrestricted, 1 disruption | `TypeOK`, `NoForgottenChunk`, `JobsOwnLiveVersions`, `RemoteIsFinal` hold whatever happens |
| `pipeline_leases` | 1 key, 2 requests, 2 workers, Disabled and Enabled | `HonestState`, `OwnBytes`, `NoForgottenChunk` hold although two workers share a job |
| `pipeline_safe` | 2-chunk objects, no copies, no DeleteObjects, GC not during a PUT, a DELETE acts on the status the bucket has, 1 disruption | `Readable`, `RemoteIsStored` and the refinement of `VersionStore` |
| `pipeline_fair` | puts and purges, 1 disruption, `FairSpec` | `Offloaded`, `SpoolDrains` |
| `multipart_races` | 2 uploads of 2 parts, 3 requests, 2 bodies, Disabled and Enabled, 1 disruption | `Intact`, `PartHasFile`, `AsListed`, `OneObject`, `EndedHasNoRows` |
| `read_path` | 1 key, 2-chunk objects, puts and purges, 1 worker, 1 reader, the export, 1 disruption | `WholeOrGone`, `FailsOnlyIfOvertaken`, `BundleSound` |
| `gateway` | 1 bucket, up to 3 requests, 1 access key, 1 session, 5 keys, 1 failed query, the scenes of `MCGateway` | `NothingOutlivesBucket`, `ListingExact`, `GrantHadGrounds`, `RefusalHadGrounds`, `LockedVersionStays`, `ConditionHeld`, `PageAdvances` |
| `shared_spool` | put, copy; nothing fails | violates `PendingHasFile` |
| `self_copy` | put, copy onto itself | violates `Readable` |
| `stale_worker` | Suspended bucket, two puts | violates `OwnBytes` |
| `purge_versioned` | Enabled bucket, a put and a DeleteObjects | violates `EnabledKeepsVersions` |
| `sweep_during_put` | one put, one GC run | violates `Readable` |

The five violations are disagreements between code and documentation, explained
under `findings` in `PROJECT.json`. They are why the properties come in three
tiers: some hold for every workload, some hold while no bucket is Suspended
(the id `null` is reused), and some hold if, moreover, nobody copies (copies
share files without counting), GC does not overlap a PUT and startup can ask which
files are needed. The refinement needs, besides, that nobody sends DeleteObjects and
that a DELETE acts on the status the bucket has. The restrictions are constants
(`Modes`, `Kinds`, `SweepWhileWriting`, `StartupQueryMayFail`, `StatusMayMislead`),
not changes to the actions.

Bounds. Two requests are enough for every pair of writers (overwrite, delete
during upload, copy of what is being deleted); two workers for one reclaimed
lease; two chunks for a version that is half uploaded and for the loops over
`idx`; two keys for everything that depends on keys being different.
`MaxDisruptions` bounds crashes, errors, hang-ups and lost answers, one per
behaviour in the runs: each is combined with every interleaving of the rest.
`MaxUploads` bounds the messages per file (`StoreMessage`): a worker whose upload
would be one too many waits or fails. In `pipeline_all` it is 1, as nothing
there depends on how often a chunk was sent; where it matters it is 2, one
upload and one repeat. In `pipeline_fair` one worker and one disruption cannot
need a third, so the bound never stops a worker that should go on.
In `multipart_races` three requests are enough for two that race over a part and
one that ends the upload, or for two uploads of one key; the initial states
include a key that already has an object of a finished upload, so that
completions replace something. One disruption may be spent on a `BeginPart` whose
query for the upload fails. In `read_path` the bucket is Disabled, where
overwrites and purges drop rows under a reader; its two requests write, replace
and delete the version that is read. `MaxUploads` is 1 there: a repeat of a
message is a fresh locator of the same bytes to a reader.

`gateway` does not try every request against every bucket: a scene is a bucket,
version rows, and up to three requests that have something to do with one
another (authorization against changes of policy, keys and time; sessions;
deletes against locks, writes and versioning; conditional writes; bucket creation
and deletion; listings against writes). Within a scene every interleaving is
explored. `MaxTime` is 2, enough for each time window to open and close;
`MaxActs` two acts of the administrator, so that a key can be revoked and made
again; `MaxFailures` one failed query per behaviour, of any request and at any of its
queries, the theorems being about any number. Listings have pages of 2 keys, windows of at most 3 rows and 2 rounds,
which five keys with several versions overrun.

Before the run TLC evaluates the assumptions of `MCGateway`: `ScenesMean` (policies
evaluate to what they mean for all that is asked in the scenes), `PatternsMean`
(`WildcardMatch` and `Glob` agree on every pattern and text of up to four tokens,
enough for two stars and two parts that overlap or repeat) and `DocsMean`
(`EvalPolicy` and `Meant` agree on every document of up to two statements, enough for
any pair that could contradict each other). A slip in `policy.rs` would fail there.

Deadlock checking is on in every run but `gateway`, whose requests end.

Fairness (`Fairness`). Weak fairness of each worker's own steps: the threads of
`run_loop_dynamic` never return. Weak fairness of a handler's steps: axum polls
a handler until it ends or is dropped. Weak fairness of `ExpireLease` and
`EndBackoff`: time passes. Weak fairness of `Gc`: GC is started by an operator
(`api_run_gc`, `telecrate gc`), and `SpoolDrains` assumes somebody does so again
and again; nothing in the code does. Strong fairness of `Upload`: Telegram does
not refuse the same worker for ever; without it a job may alternate between
refusal and backoff. There is no fairness on requests, crashes or errors.

Every property of a passing run has a mutant: an operator that precedes the
original in its module and differs from it as a plausible slip would.

What the code does and the properties therefore leave room for: a GET whose
version is dropped between its two queries answers 200 with an empty body
(`WholeOrGone`), one whose chunk is moved to Telegram between them answers 500
(`FailsOnlyIfOvertaken`): nothing in the worker or GC knows of a read under way,
although `docs/architecture.md:80` says that GC respects inflight reads. Two conditional PUTs that both find no object may both
succeed, and a conditional DELETE ignores its condition in a versioned bucket
(`src/app.rs:3004`). A DELETE with `versionId=null` looks at the locks of the
latest version, whichever it is (`src/app.rs:3879`); PUT, DeleteObjects and the
dashboard's delete look at no locks. A page of a delimiter listing that holds
directories only hands out the last directory as its token, whose keys come
after it: the client gets the same page again (`PageAdvances` makes the
exception), and one whose rounds have run out in `list_keys` ends without a token
although there is more (`ListingExact` makes that one). In a Suspended bucket the
id `null` is the primary key of the whole table, so that after one key has a null
version every write of another is refused (`IdTaken`, `RefuseWrite`), against
`src/db/mod.rs:674` and `docs/compatibility-matrix.md:26`: one test with two PUTs
would show it, and no run is spent on it.

## 4. What is proved

All theorems are for every value of the constants, under `PipelineAssumption`
(the bounds are naturals with at least one chunk per object, `Null` and `None`
are not requests, `None` is not a key, a path or a locator, and the workload
constants are subsets of what the code knows), `MultipartAssumption` (there is a part number, the
bound is a natural, `None` is not a request, an upload or a body), or those of
`Gateway` (`GatewayAssumption`: limits are naturals, names of different kinds
differ; `DirAssumption`: the keys of a directory sort after it, next to one
another; `SceneAssumption`: a request is one the parsers let through, a bucket one
that requests can leave behind). TLC evaluates them in each run.

`ObjectPipelineProofs`: `TypeInvariant` and `TypeCorrect`. `TypeOK` is not
inductive as it stands: it allows an uploading worker without a job, a job
without a version, GC freeing a row it does not have. `TypeInv` adds the shapes
that tie a program counter to the local variables it uses (`JobShape`,
`WorkerShape`, `RequestShape`, `GcShape`), and every action is shown to keep all
five.

Also there: `RowInvariant`, and from it the action property
`RemoteRowsAreFinal`. A remote row could be lost to its version in two ways: an
update that resets its state, which no statement does (`SameRows`), or a drop.
A drop is told from an update by the number of the version (`seq`), so the
argument needs that a version id which is used again gets a number it never had
(`SeqInv`), and that rows do not outlive their version (`RowsOfVersions`).

`JobProofs`: `JobInvariant`, and from it `ChunksNotForgotten` and
`JobsOwnTheirVersions`. The argument: a job ends only in `EndJob` or `SkipGone`,
so a pending chunk can lose its last job only there. `SkipGone` happens when
the version does not exist, hence has no pending chunk that still has this job.
`EndJob` happens when the worker's `todo` is empty, and `CoversChunks` says that
as long as the job exists every pending row of its version is in the `todo` of
*each* worker that holds it. That is stable because rows become pending only
in the transaction that creates a fresh job (`JobsOfClosed`: a request makes at
most one job, in its last transaction), because a version that is dropped takes
its jobs with it, and because a version id that is reused (`null`) gets a new
job: a worker with the old one finds it gone, and its `UPDATE` matches no row.
So the code needs no lease check when it ends a job, and the theorem says why.

`VersionProofs`, as long as no bucket is Suspended (`NeverSuspended`, a
hypothesis on `Modes`; with it, for every workload): `RemoteMeansUploaded` and
`RowsNameTheirBytes`. Then an id is the uuid of one request and is written once,
in its last transaction, so that a job, a worker and a copy that hold an id can
only mean that version (`IdInv`). Steps are classified once more, by what they
do to a version (`VersionMoves`): it is kept, its rows changing as a worker, GC
or nobody changes them; it is dropped, rows and all; or it is written. What a
worker or a copy read some steps ago is still true of the rows that are left
(`SnapInv`, `SentInv`, `SourceInv`), so what they commit has the right bytes. That
is why two workers that share a job, after a lease ran out, do no harm.
The hypothesis is needed: the run `stale_worker` shows what happens to the id
`null`, which names one version after the other.

`StoreProofs`, in safe use (`SafeUse`: no Suspended bucket, no copies, GC not
during a PUT, the startup query succeeds): `AcceptedIsReadable`,
`RemoteRowsAreStored` and `PipelineIsVersionStore`. Each hypothesis is one
somebody may break, and the runs `self_copy`, `shared_spool` and `sweep_during_put`
show that the theorem then fails; `pipeline_safe` is an instance that satisfies
them. The invariant (`StoreInv`) has a clause for everybody who removes a file or
a message, saying that what he holds the name of is needed by nobody: a worker
cleans up after a version all of which is uploaded (`CleansDone`), a handler after
a version that is gone for good (`RmDead`), GC after rows that are remote
(`GcRowsOwn`) or, in the sweep, where no pending row points (`SweepSafe`: the
active set is older than the listing, and this is where a PUT in between would
hurt). The proof shows of each step what it may take from the spool and from
the chat (`StoreMoves`) and draws on nothing else. The refinement maps the
versions to what they can be read as: `AcceptedIsReadable` makes that the bytes
that were put, so a step changes the abstract store only if it writes or drops
a version, once per request. `PipelineIsVersionStore` asks for more than safe use
(`StrictUse`: no DeleteObjects, no misleading status): a DELETE that drops all
versions then finds the bucket Disabled when it does (`StatusInv`), which is what
`DropAll` of `VersionStore` demands. The run `purge_versioned` shows the first
hypothesis to be needed.

`ReadProofs`: `ReadersTypeCorrect`, for every workload; in safe use
`AnswersAreWhole`, `FailuresAreOvertakings` and `BundlesAreSound`. Readers and the
export only read, so `ReadSpec` and `RecoverySpec` imply `Spec` and every theorem
above holds beside any number of GETs. A GET acts on what it read up to several
queries ago. Its invariant (`ReaderInv`) says what of that is still true: the
rows it took name the bytes of the version it found, unless that version is
gone (`HoldsRows`); no chunk is lost between the ones read and the ones to read
(`HoldsParts`); and a message it is going to download is there as long as the
version is (`HoldsLocators`). Whether a version is the one that was found is
told by its number. `FailuresAreOvertakings` leaves three grounds for a failure: an
error of the GET's own query or download, a version that is gone, a row that has
moved on. The same holds of the two queries of the export, a version
dropped between them being exported empty (`ExportInv`). The run `read_path` is in
safe use.

`MultipartProofs`: `TypeInvariant` and `TypeCorrect` as above. From the type
invariant alone follows `EndedUploadsHaveNoRows`: the last statement of a late
UploadPart finds no upload and the foreign key refuses its row.

`ObjectsAreAsListed` rests on `ListingInv`: what is ready to be committed, and
every object, was validated against the rows it is made of, and those rows were
read together with the list. The code compares only lengths and looks each
listed part up, which is the first half of the property; `AscendingListsAll` proves that this is enough for lists in
ascending order, by counting (an injection between sets of one finite size).

`OneObjectPerUpload` rests on `OrderInv`: requests of an upload that never
clashed run alone, but for parts of different numbers (`Alone`), and not beside
a sweep (`Quiet`); so nobody changes the rows between what a completion reads
and what it commits (`ReadyInv`), its upload is open when it commits, and objects
belong to uploads that have ended (`LiveEnded`). The proof classifies steps once
(`EveryStep`): a request begins (`Begins`), or it goes on, ends or is left alone
(`Goes`), and each conjunct is kept by either kind.

`PartFileProofs`: `PartsHaveFiles` and `ObjectsAreIntact`, the two properties
about bytes. The invariant `PartInv` has three layers. Inodes: a name is moved,
never shared (`NameInv`), and who writes an inode writes the tmp file of its own
part (`HomeInv`); hence a part that is alone renames what it was sent
(`WriterInv`), and nobody writes into a file in place (`DataKept`). Removal: what
a handler is left to remove belongs to an upload that is over and whose object,
if any, is gone (`RemovalInv`); what a sweep removes has neither a row nor a
pending chunk (`SweepInv`: chunks are asked before parts, and a completion that
moves one to the other beside a sweep makes its upload clash); so a file that is
needed stays (`NeededStays`), unless a startup whose query failed removed it: it is
then in `wiped`, and stays there. Bodies: of an upload that sent one body per part,
every row, file, handler and chunk has that body (`FirstInv`). This is what makes a
part saved after the end of its upload, or a crash between rename and row,
harmless; only one who sends two bodies *and* meets a failure is let down, and
`Orderly` says so. The proof shows of each step what it may do to a file
(`FileStep`), to a row (`RowFrom`) and to an object (`LiveFrom`), and draws on
nothing else.

`GatewayProofs`: all eight properties of the `gateway` run, for any number of
requests, keys, users, sessions, scenes, windows and rounds.
`TypeInv` adds to the types what a handler's place says about its request
(`Fits`, `Placed`), which needs that requests do not change (`AskInv`).
`NothingOutlives` rests on `BucketInv`: the foreign key keeps the last row's
bucket, a bucket comes and goes whole, and one that never was versioned has one
version per key. `ConditionsHeld` rests on `MetInv`: between the check and the write
nothing takes back that the condition did hold once. A check that passed because its
query failed is in `lost`, which only grows while the request lives (`LostStays`), and
only an If-None-Match passes so.

`LockedVersionsStay` rests on `LockInv`, which says after each of the three queries
of `check_object_lock_for_delete` what is known of the locks in force all along
(`guarded`): none on the version looked at, once both have been read; and, if the
DELETE is going to remove every version of its key, none on the others, because
the bucket is one that never was versioned when the mode is read (`BucketInv`), so there are no others.
A lock set or moved later is not in `guarded`, and a row written later has a lock of
its own or none. That is why checks without a transaction are enough here. Each clause
holds unless the query it stands on failed (`Excused`): the query for the version
opens both locks, that for the status lets all versions of the key go, and those for
a hold or a retention open that lock only.

`GrantsHadGrounds` and `RefusalsHadGrounds` rest on `SeenInv`: what a handler has in
hand was each true at a moment in `seen`, or is empty because its query is in `lost`
(`Mix`). They have one hypothesis, `PoliciesMean`:
that `EvalPolicy` gives what `Meant` says for the documents and requests at hand. It
is a statement about folds over documents and patterns, whose proof is an
induction over data; TLC evaluates it for the scenes, and its two halves for all
small documents and patterns (`ScenesMean`, `DocsMean`, `PatternsMean`). It is false of
a document with a bare string that names a user (`BareStringsDiverge`).

`ListingsExact` and `PagesAdvance` rest on `PageInv`. Between two windows: the keys
found are beyond the token, up to the cursor, and complete there for what was
visible all along (`WindowFinds`: the newest row of a key comes first, so that a key split
over two windows is judged by its first row, and one that ends a window is not
looked at again). Between two pages: every such key up to the token has been
listed, or its directory has. The second half is the delicate one, since a page of directories only hands out
a directory's name as its token, which sorts *before* keys that were found: the
proof uses that those keys are the directory's own (`DirAssumption`), so that they
are told of by their directory, and that a key once listed is not beyond a token
again.

Only model-checked, because the prover cannot reach them: `Offloaded` and
`SpoolDrains` (liveness under fairness, `ENABLED`); and `PoliciesMean` (induction over
patterns and documents). Every other property of a passing run is stated by a
theorem.

Worth proving next: the guarantees of `VersionProofs` for the versions of a Suspended
bucket that are not null; and the parts of `PoliciesMean` that need no induction (a
document of one statement, a pattern without a star).

## 5. Not modelled

* Bytes: chunk encryption and its associated data, checksums and their formats,
  Range and conditional GETs, HEAD. They are functions of one request's data; no
  state of the store depends on them.
* ListObjects v1 and `list_object_versions`: the same query as `list_keys` without
  its windows and tokens. The `prefix` filter, a condition of that query.
* The default object lock of a bucket, which is stored and shown but applied to
  no object.
* Copies and multipart completions in `Gateway`: they pass the same authorization as
  PUT there, and their effect on rows is in `ObjectPipeline` and `Multipart`.
  DeleteObjects of more than one key: `Gateway` and `ObjectPipeline` have one key of
  it, which is no DELETE: it asks no bucket policy, looks at no lock, writes no
  delete marker, takes no version id and drops every version. The count of open
  uploads in `delete_bucket`, a second guard like the count of objects.
* Errors that a handler does not swallow, in `Gateway`: they end the request with a
  500 before it has changed anything.
* `allowed_buckets` of an access key: the dashboard stores it
  (`src/admin.rs:753`, `src/admin.rs:1714`), a migration describes it as the buckets a
  key may access (`migrations/0004_dashboard_enhancements.sql:7`), and neither
  `find_secret_key` nor `check_auth_with_policy` reads it. With one bucket and no
  reader there is no behaviour to model; the restriction is not enforced.
* Buckets, keys, policies and locks in the recovery bundle: the same pattern as
  its objects and chunks.
* Two runs of GC at once, and the durations of backoffs.
* CORS, S3 XML, configuration, TLS, logging, CLI, `doctor`, the dashboard,
  packaging and migrations: pure functions, pure I/O or plumbing, with no shared
  state that the modules above do not have.
* PostgreSQL's weaker isolation: transactions are atomic in every module.

## 6. Running

    tlc -config PipelineAll.cfg MCObjectPipeline.tla
    tlc -config MultipartRaces.cfg MCMultipart.tla
    tlc -config ReadPath.cfg MCReadPath.tla
    tlc -config Gateway.cfg MCGateway.tla
    tlapm ObjectPipelineProofs.tla
    tlapm JobProofs.tla
    tlapm VersionProofs.tla
    tlapm StoreProofs.tla
    tlapm ReadProofs.tla
    tlapm MultipartProofs.tla
    tlapm PartFileProofs.tla
    tlapm GatewayProofs.tla

`PROJECT.json` names, for every definition, the source lines it stands for, and
lists the runs, the mutants, the findings, the hazards and the theorems.
