------------------------ MODULE ObjectPipelineProofs ------------------------
(***************************************************************************)
(* Theorems about ObjectPipeline, for every set of keys, requests and      *)
(* workers, every number of chunks and every bound.                        *)
(***************************************************************************)
EXTENDS ObjectPipeline, TLAPS

-----------------------------------------------------------------------------
(* Types *)

\* What TypeOK needs to be inductive: the fields that may be None are set in
\* the control states that use them.
JobShape == \A r \in Requests : jobs[r].state # "none" => jobs[r].version \in Ids
WorkerShape ==
  \A w \in Workers : wk[w].pc \notin {"boot", "idle"} =>
                       wk[w].job \in Requests /\ wk[w].version \in Ids
RequestShape ==
  \A r \in Requests :
    /\ req[r].pc \in {"writing", "ready"} => req[r].key \in Keys
    /\ req[r].pc = "ready" /\ req[r].kind = "copy" => req[r].source \in Ids
GcShape == gc.pc = "freed" => gc.row \in Ids \X Idx

TypeInv == TypeOK /\ JobShape /\ WorkerShape /\ RequestShape /\ GcShape

\* The records a step starts afresh with.
LEMMA FreshRecords ==
  /\ NoObject \in ObjectRow
  /\ NoChunk \in ChunkRow
  /\ NoJob \in JobRow
  /\ NewRequest \in Request
  /\ Closed \in Request
  /\ \A pc \in {"boot", "idle"} : WorkerAt(pc) \in Worker
  /\ \A pc \in {"idle", "rows", "remote"} : GcAt(pc) \in Collector
  BY PipelineAssumption DEF NoObject, NoChunk, NoJob, NewRequest, Closed, WorkerAt, GcAt,
     ObjectRow, ChunkRow, JobRow, Request, Worker, Collector

LEMMA DisruptType ==
  ASSUME disruptions \in 0..MaxDisruptions, Disrupt
  PROVE  disruptions' \in 0..MaxDisruptions
  BY PipelineAssumption DEF Disrupt

LEMMA RemoveFileType ==
  ASSUME TypeOK, NEW p, RemoveFile(p)
  PROVE  spool' \in SUBSET Paths /\ disruptions' \in 0..MaxDisruptions
  BY DisruptType DEF RemoveFile, TypeOK

LEMMA WorkerTurn ==
  ASSUME wk \in [Workers -> Worker], WorkerShape, NEW w \in Workers, NEW x \in Worker,
         WorkerBecomes(w, x),
         x.pc \notin {"boot", "idle"} => x.job \in Requests /\ x.version \in Ids
  PROVE  wk' \in [Workers -> Worker] /\ WorkerShape'
  BY DEF WorkerBecomes, WorkerShape

LEMMA WorkerRests ==
  ASSUME wk \in [Workers -> Worker], WorkerShape, NEW w \in Workers,
         WorkerBecomes(w, WorkerAt("idle")) \/ WorkerBecomes(w, WorkerAt("boot"))
  PROVE  wk' \in [Workers -> Worker] /\ WorkerShape'
<1>1. \A pc \in {"boot", "idle"} : WorkerAt(pc) \in Worker /\ WorkerAt(pc).pc = pc
  BY FreshRecords DEF WorkerAt
<1> QED
  BY <1>1, WorkerTurn

LEMMA RequestTurn ==
  ASSUME req \in [Requests -> Request], RequestShape, NEW r \in Requests, NEW x \in Request,
         RequestBecomes(r, x),
         x.pc \in {"writing", "ready"} => x.key \in Keys,
         x.pc = "ready" /\ x.kind = "copy" => x.source \in Ids
  PROVE  req' \in [Requests -> Request] /\ RequestShape'
  BY DEF RequestBecomes, RequestShape

LEMMA RequestEnds ==
  ASSUME req \in [Requests -> Request], RequestShape, NEW r \in Requests,
         RequestBecomes(r, Closed)
  PROVE  req' \in [Requests -> Request] /\ RequestShape'
<1>1. Closed \in Request /\ Closed.pc = "closed"
  BY FreshRecords DEF Closed, NewRequest
<1> QED
  BY <1>1, RequestTurn

LEMMA LeaveType ==
  ASSUME req \in [Requests -> Request], RequestShape, disruptions \in 0..MaxDisruptions,
         NEW r \in Requests, NEW files \in SUBSET Paths, NEW locators \in SUBSET Locators,
         Leave(r, files, locators)
  PROVE  req' \in [Requests -> Request] /\ RequestShape' /\ disruptions' \in 0..MaxDisruptions
<1> DEFINE x == [Closed EXCEPT !.rm = files, !.rmBlobs = locators]
<1>1. CASE RequestBecomes(r, x) /\ UNCHANGED disruptions
  <2>1. x \in Request /\ x.pc = "closed"
    BY FreshRecords DEF Closed, NewRequest, Request
  <2> QED
    BY <1>1, <2>1, RequestTurn
<1>2. CASE RequestBecomes(r, Closed) /\ Disrupt
  BY <1>2, RequestEnds, DisruptType
<1> QED
  BY <1>1, <1>2 DEF Leave

LEMMA TypeInit == Init => TypeInv
  BY FreshRecords, PipelineAssumption
     DEF Init, TypeInv, TypeOK, JobShape, WorkerShape, RequestShape, GcShape,
         NoJob, NewRequest, WorkerAt, GcAt


(* Rows of the tables *)

LEMMA SpoolPathsType ==
  ASSUME TypeOK, NEW S \in SUBSET Ids
  PROVE  SpoolPaths(S) \subseteq Paths
<1>1. \A i \in S, c \in Idx : chunks[i][c].path \in Paths \cup {None}
  BY DEF TypeOK, ChunkRow
<1> QED
  BY <1>1 DEF SpoolPaths

LEMMA RemoteLocatorsType ==
  ASSUME TypeOK, NEW S \in SUBSET Ids
  PROVE  RemoteLocators(S) \subseteq Locators
<1>1. \A x \in S \X Idx : chunks[x[1]][x[2]].loc \in Locators \cup {None}
  BY DEF TypeOK, ChunkRow
<1> QED
  BY <1>1 DEF RemoteLocators

LEMMA SetLocatorType ==
  ASSUME TypeOK, NEW i, NEW c \in Idx, NEW l \in Locators \cup {None}, SetLocator(i, c, l)
  PROVE  chunks' \in [Ids -> [Idx -> ChunkRow]]
<1>1. CASE ~HasRow(i, c)
  BY <1>1 DEF SetLocator, TypeOK
<1>2. CASE HasRow(i, c)
  <2>1. i \in Ids /\ chunks[i] \in [Idx -> ChunkRow] /\ chunks[i][c] \in ChunkRow
    BY <1>2 DEF HasRow, TypeOK
  <2>2. [chunks[i][c] EXCEPT !.state = "remote", !.loc = l] \in ChunkRow
    BY <2>1 DEF ChunkRow
  <2> QED
    BY <1>2, <2>1, <2>2 DEF SetLocator, TypeOK
<1> QED
  BY <1>1, <1>2

LEMMA ClearSpoolPathType ==
  ASSUME TypeOK, NEW i, NEW c \in Idx, ClearSpoolPath(i, c)
  PROVE  chunks' \in [Ids -> [Idx -> ChunkRow]]
<1>1. CASE ~HasRow(i, c)
  BY <1>1 DEF ClearSpoolPath, TypeOK
<1>2. CASE HasRow(i, c)
  <2>1. i \in Ids /\ chunks[i] \in [Idx -> ChunkRow] /\ chunks[i][c] \in ChunkRow
    BY <1>2 DEF HasRow, TypeOK
  <2>2. [chunks[i][c] EXCEPT !.path = None] \in ChunkRow
    BY <2>1 DEF ChunkRow
  <2> QED
    BY <1>2, <2>1, <2>2 DEF ClearSpoolPath, TypeOK
<1> QED
  BY <1>1, <1>2

LEMMA TryClearPathType ==
  ASSUME TypeOK, NEW i, NEW c \in Idx, TryClearPath(i, c)
  PROVE  chunks' \in [Ids -> [Idx -> ChunkRow]] /\ disruptions' \in 0..MaxDisruptions
<1>1. CASE ClearSpoolPath(i, c) /\ UNCHANGED disruptions
  BY <1>1, ClearSpoolPathType DEF TypeOK
<1>2. CASE UNCHANGED chunks /\ Disrupt
  BY <1>2, DisruptType DEF TypeOK
<1> QED
  BY <1>1, <1>2 DEF TryClearPath

\* Dropping versions, as every delete and every overwrite does.
LEMMA WithoutType ==
  ASSUME TypeOK, JobShape, NEW S \in SUBSET Ids
  PROVE  /\ ObjectsWithout(S) \in [Ids -> ObjectRow]
         /\ ChunksWithout(S) \in [Ids -> [Idx -> ChunkRow]]
         /\ JobsWithout(S) \in [Requests -> JobRow]
         /\ \A r \in Requests : JobsWithout(S)[r].state # "none" =>
                                  JobsWithout(S)[r] = jobs[r] /\ jobs[r].version \in Ids \ S
<1>1. NoJob.state = "none"
  BY DEF NoJob
<1> QED
  BY <1>1, FreshRecords DEF ObjectsWithout, ChunksWithout, JobsWithout, TypeOK, JobShape

LEMMA DropVersionsType ==
  ASSUME TypeOK, JobShape, NEW S \in SUBSET Ids, DropVersions(S)
  PROVE  /\ mode' = mode /\ clock' = clock
         /\ objects' \in [Ids -> ObjectRow]
         /\ chunks' \in [Ids -> [Idx -> ChunkRow]]
         /\ jobs' \in [Requests -> JobRow]
         /\ JobShape'
  BY WithoutType DEF DropVersions, JobShape

LEMMA ReplacedType ==
  ASSUME TypeOK, NEW k
  PROVE  Replaced(k) \in SUBSET Ids /\ Replaced(k) \subseteq VersionsOf(k)
  BY DEF Replaced, VersionsOf, TypeOK

LEMMA FinalIdType ==
  ASSUME TypeOK, NEW r \in Requests
  PROVE  FinalId(r, r) \in Ids /\ FinalId(r, Null) \in Ids
  BY DEF FinalId, Ids, TypeOK

LEMMA WriteVersionType ==
  ASSUME TypeOK, JobShape, NEW r \in Requests, NEW i \in Ids, NEW k \in Keys,
         NEW kind \in {"data", "marker"}, NEW data \in Requests \cup {None},
         NEW rows \in [Idx -> ChunkRow], NEW queued,
         WriteVersion(r, i, k, kind, data, rows, queued)
  PROVE  /\ mode' = mode /\ clock' \in Nat
         /\ objects' \in [Ids -> ObjectRow]
         /\ chunks' \in [Ids -> [Idx -> ChunkRow]]
         /\ jobs' \in [Requests -> JobRow]
         /\ JobShape'
<1> DEFINE S == Replaced(k)
           row == [kind |-> kind, key |-> k, remote |-> FALSE, seq |-> clock + 1, data |-> data]
           job == [state |-> "pending", version |-> i, leased |-> FALSE, due |-> TRUE]
<1>1. S \in SUBSET Ids
  BY ReplacedType
<1>2. row \in ObjectRow /\ clock' \in Nat
  BY DEF TypeOK, ObjectRow, WriteVersion
<1>3. job \in JobRow /\ job.version = i
  BY DEF JobRow
<1>4. /\ ObjectsWithout(S) \in [Ids -> ObjectRow]
      /\ ChunksWithout(S) \in [Ids -> [Idx -> ChunkRow]]
      /\ JobsWithout(S) \in [Requests -> JobRow]
      /\ \A q \in Requests : JobsWithout(S)[q].state # "none" => JobsWithout(S)[q].version \in Ids
  BY <1>1, WithoutType
<1>5. /\ objects' = [ObjectsWithout(S) EXCEPT ![i] = row]
      /\ chunks' = [ChunksWithout(S) EXCEPT ![i] = rows]
  BY DEF WriteVersion
<1> HIDE DEF row, job
<1>6. objects' \in [Ids -> ObjectRow] /\ chunks' \in [Ids -> [Idx -> ChunkRow]]
  BY <1>2, <1>3, <1>4, <1>5
<1>7. jobs' = [JobsWithout(S) EXCEPT ![r] = job] \/ jobs' = JobsWithout(S)
  BY DEF WriteVersion, job
<1>8. jobs' \in [Requests -> JobRow] /\ JobShape'
  BY <1>3, <1>4, <1>7 DEF JobShape
<1> QED
  BY <1>2, <1>6, <1>8 DEF WriteVersion

LEMMA SetJobType ==
  ASSUME TypeOK, JobShape, NEW r \in Requests, NEW due \in BOOLEAN,
         NEW state \in {"pending", "done", "failed"}, jobs' = SetJob(r, state, due)
  PROVE  jobs' \in [Requests -> JobRow] /\ JobShape'
<1>1. CASE jobs[r].state = "none"
  BY <1>1 DEF SetJob, TypeOK, JobShape
<1>2. CASE jobs[r].state # "none"
  <2> DEFINE x == [jobs[r] EXCEPT !.state = state, !.leased = FALSE, !.due = due]
  <2>1. jobs[r] \in JobRow /\ jobs[r].version \in Ids
    BY <1>2 DEF TypeOK, JobShape
  <2>2. x \in JobRow /\ x.version \in Ids
    BY <2>1 DEF JobRow
  <2>3. jobs' = [jobs EXCEPT ![r] = x]
    BY <1>2 DEF SetJob
  <2> QED
    BY <2>2, <2>3 DEF TypeOK, JobShape
<1> QED
  BY <1>1, <1>2

(* The steps of the upload workers *)

LEMMA TypePoll ==
  ASSUME TypeInv, NEW w \in Workers, Poll(w)
  PROVE  TypeInv'
<1>1. PICK r \in Requests : 
         /\ Claimable(r)
         /\ WorkerBecomes(w, [wk[w] EXCEPT !.pc = "selected", !.job = r,
                           !.version = jobs[r].version])
  BY DEF Poll
<1>2. jobs[r].version \in Ids
  BY <1>1 DEF Claimable, TypeInv, JobShape
<1> DEFINE x == [wk[w] EXCEPT !.pc = "selected", !.job = r, !.version = jobs[r].version]
<1>3. wk[w] \in Worker
  BY DEF TypeInv, TypeOK
<1>4. x \in Worker /\ x.job = r /\ x.version \in Ids
  BY <1>2, <1>3 DEF Worker
<1>5. wk' \in [Workers -> Worker] /\ WorkerShape'
  BY <1>1, <1>4, WorkerTurn DEF TypeInv, TypeOK
<1> QED
  BY <1>5 DEF Poll, tables, stores, TypeInv, TypeOK, JobShape, RequestShape, GcShape

LEMMA TypeLoad ==
  ASSUME TypeInv, NEW w \in Workers, LoadChunks(w)
  PROVE  TypeInv'
<1> DEFINE v == wk[w].version
           x == [wk[w] EXCEPT !.pc = "uploading",
                      !.todo = {c \in Idx : chunks[v][c].state = "pending"},
                      !.snap = [c \in Idx |-> chunks[v][c].path]]
<1>1. v \in Ids /\ wk[w].job \in Requests
  BY DEF LoadChunks, TypeInv, WorkerShape
<1>2. [c \in Idx |-> chunks[v][c].path] \in [Idx -> Paths \cup {None}]
  BY <1>1 DEF TypeInv, TypeOK, ChunkRow
<1>3. x \in Worker /\ x.job \in Requests /\ x.version \in Ids
  BY <1>1, <1>2 DEF TypeInv, TypeOK, Worker
<1>4. wk' \in [Workers -> Worker] /\ WorkerShape'
  BY <1>3, WorkerTurn DEF TypeInv, TypeOK, LoadChunks
<1> QED
  BY <1>4 DEF LoadChunks, tables, stores, TypeInv, TypeOK, JobShape, RequestShape, GcShape

LEMMA TypeBoot ==
  ASSUME TypeInv, NEW w \in Workers, Boot(w)
  PROVE  TypeInv'
<1>1. wk' \in [Workers -> Worker] /\ WorkerShape'
  BY WorkerRests DEF Boot, GoIdle, TypeInv, TypeOK
<1>2. jobs' \in [Requests -> JobRow] /\ JobShape'
  <2>1. \A r \in Requests : [jobs[r] EXCEPT !.state = "pending"] \in JobRow
    BY DEF TypeInv, TypeOK, JobRow
  <2> QED
    BY <2>1 DEF Boot, TypeInv, TypeOK, JobShape, JobRow
<1> QED
  BY <1>1, <1>2 DEF Boot, tables, stores, TypeInv, TypeOK, JobShape, RequestShape, GcShape

LEMMA TypeClaim ==
  ASSUME TypeInv, NEW w \in Workers, Claim(w)
  PROVE  TypeInv'
<1> DEFINE j == wk[w].job
           x == [wk[w] EXCEPT !.pc = "claimed"]
           y == [jobs[j] EXCEPT !.state = "uploading", !.leased = TRUE]
<1>1. j \in Requests /\ wk[w].version \in Ids /\ wk[w] \in Worker
  BY DEF Claim, TypeInv, TypeOK, WorkerShape
<1>2. jobs[j] \in JobRow /\ jobs[j].version \in Ids
  BY <1>1 DEF Claim, Claimable, TypeInv, TypeOK, JobShape
<1>3. x \in Worker /\ x.job = j /\ x.version \in Ids
  BY <1>1 DEF Worker
<1>4. wk' \in [Workers -> Worker] /\ WorkerShape'
  BY <1>1, <1>3, WorkerTurn DEF Claim, TypeInv, TypeOK
<1>5. y \in JobRow /\ y.version \in Ids
  BY <1>2 DEF JobRow
<1>6. jobs' = [jobs EXCEPT ![j] = y]
  BY DEF Claim
<1>7. jobs' \in [Requests -> JobRow] /\ JobShape'
  BY <1>1, <1>5, <1>6 DEF TypeInv, TypeOK, JobShape
<1> QED
  BY <1>4, <1>7 DEF Claim, tables, stores, TypeInv, TypeOK, JobShape, RequestShape, GcShape

LEMMA TypeLoseClaim ==
  ASSUME TypeInv, NEW w \in Workers, LoseClaim(w)
  PROVE  TypeInv'
<1>1. wk' \in [Workers -> Worker] /\ WorkerShape'
  BY WorkerRests DEF LoseClaim, GoIdle, TypeInv, TypeOK
<1> QED
  BY <1>1 DEF LoseClaim, tables, stores, TypeInv, TypeOK, JobShape, RequestShape, GcShape

LEMMA TypeLackFile ==
  ASSUME TypeInv, NEW w \in Workers, LackFile(w)
  PROVE  TypeInv'
<1>1. wk' \in [Workers -> Worker] /\ WorkerShape'
  BY WorkerRests DEF LackFile, GoIdle, TypeInv, TypeOK
<1> QED
  BY <1>1 DEF LackFile, tables, stores, TypeInv, TypeOK, JobShape, RequestShape, GcShape

LEMMA TypeWorkerError ==
  ASSUME TypeInv, NEW w \in Workers, WorkerError(w)
  PROVE  TypeInv'
<1>1. wk' \in [Workers -> Worker] /\ WorkerShape'
  BY WorkerRests DEF WorkerError, GoIdle, TypeInv, TypeOK
<1>2. disruptions' \in 0..MaxDisruptions
  BY DisruptType DEF WorkerError, TypeInv, TypeOK
<1> QED
  BY <1>1, <1>2 DEF WorkerError, tables, stores, TypeInv, TypeOK, JobShape, RequestShape, GcShape

LEMMA TypeChangeCredentials ==
  ASSUME TypeInv, NEW w \in Workers, ChangeCredentials(w)
  PROVE  TypeInv'
<1>1. wk' \in [Workers -> Worker] /\ WorkerShape'
  BY WorkerRests DEF ChangeCredentials, GoIdle, TypeInv, TypeOK
<1>2. disruptions' \in 0..MaxDisruptions
  BY DisruptType DEF ChangeCredentials, TypeInv, TypeOK
<1> QED
  BY <1>1, <1>2 DEF ChangeCredentials, tables, stores, TypeInv, TypeOK, JobShape, RequestShape, GcShape

LEMMA TypeSkipGone ==
  ASSUME TypeInv, NEW w \in Workers, SkipGone(w)
  PROVE  TypeInv'
<1>1. wk' \in [Workers -> Worker] /\ WorkerShape'
  BY WorkerRests DEF SkipGone, GoIdle, TypeInv, TypeOK
<1>2. wk[w].job \in Requests /\ jobs[wk[w].job].due \in BOOLEAN
  BY DEF SkipGone, TypeInv, TypeOK, WorkerShape, JobRow
<1>3. jobs' \in [Requests -> JobRow] /\ JobShape'
  BY <1>2, SetJobType DEF SkipGone, TypeInv
<1> QED
  BY <1>1, <1>3 DEF SkipGone, tables, stores, TypeInv, TypeOK, JobShape, RequestShape, GcShape

LEMMA StoreMessageType ==
  ASSUME TypeOK, NEW p \in Paths, StoreMessage(p)
  PROVE  /\ blobs' \in SUBSET Locators
         /\ sent' \in [Paths -> 0..MaxUploads]
         /\ <<p, sent[p] + 1>> \in Locators
<1>1. sent[p] \in 0..MaxUploads /\ sent[p] < MaxUploads
  BY DEF TypeOK, StoreMessage
<1>2. sent[p] + 1 \in 1..MaxUploads
  BY <1>1, PipelineAssumption
<1>3. <<p, sent[p] + 1>> \in Locators
  BY <1>2 DEF Locators
<1>4. sent' \in [Paths -> 0..MaxUploads]
  BY <1>2 DEF TypeOK, StoreMessage
<1> QED
  BY <1>3, <1>4 DEF TypeOK, StoreMessage

LEMMA TypeUpload ==
  ASSUME TypeInv, NEW w \in Workers, Upload(w)
  PROVE  TypeInv'
<1>1. PICK p \in spool : /\ StoreMessage(p)
                         /\ WorkerBecomes(w, [wk[w] EXCEPT !.pc = "sent", !.loc = <<p, sent[p] + 1>>])
                         /\ wk[w].pc = "uploading"
                         /\ UNCHANGED <<tables, spool, req, gc, disruptions>>
  BY DEF Upload, NextChunk
<1> DEFINE l == <<p, sent[p] + 1>>
           x == [wk[w] EXCEPT !.pc = "sent", !.loc = l]
<1>2. /\ blobs' \in SUBSET Locators
      /\ sent' \in [Paths -> 0..MaxUploads]
      /\ l \in Locators
  BY <1>1, StoreMessageType DEF TypeInv, TypeOK
<1>3. wk[w] \in Worker /\ wk[w].job \in Requests /\ wk[w].version \in Ids
  BY <1>1 DEF TypeInv, TypeOK, WorkerShape
<1> HIDE DEF l
<1>4. x \in Worker /\ x.job \in Requests /\ x.version \in Ids
  BY <1>2, <1>3 DEF Worker
<1>5. WorkerBecomes(w, x)
  BY <1>1 DEF l
<1>6. wk' \in [Workers -> Worker] /\ WorkerShape'
  BY <1>4, <1>5, WorkerTurn DEF TypeInv, TypeOK
<1> QED
  BY <1>1, <1>2, <1>6 DEF tables, stores, TypeInv, TypeOK, JobShape, RequestShape, GcShape

LEMMA TypeFailUpload ==
  ASSUME TypeInv, NEW w \in Workers, FailUpload(w)
  PROVE  TypeInv'
<1>1. wk' \in [Workers -> Worker] /\ WorkerShape'
  BY WorkerRests DEF FailUpload, GoIdle, TypeInv, TypeOK
<1>2. wk[w].job \in Requests /\ jobs[wk[w].job].due \in BOOLEAN
  BY DEF FailUpload, NextChunk, TypeInv, TypeOK, WorkerShape, JobRow
<1>3. jobs' = SetJob(wk[w].job, "pending", FALSE) \/ jobs' = SetJob(wk[w].job, "failed", jobs[wk[w].job].due)
  BY DEF FailUpload
<1>4. jobs' \in [Requests -> JobRow] /\ JobShape'
  BY <1>2, <1>3, SetJobType DEF TypeInv
<1>5. PICK p \in spool : \/ UNCHANGED <<blobs, sent, disruptions>>
                         \/ StoreMessage(p) /\ Disrupt
  BY DEF FailUpload
<1>6. /\ blobs' \in SUBSET Locators
      /\ sent' \in [Paths -> 0..MaxUploads]
      /\ disruptions' \in 0..MaxDisruptions
  BY <1>5, StoreMessageType, DisruptType DEF TypeInv, TypeOK
<1> QED
  BY <1>1, <1>4, <1>6 DEF FailUpload, tables, stores, TypeInv, TypeOK, JobShape, RequestShape, GcShape

LEMMA TypeCommitLocator ==
  ASSUME TypeInv, NEW w \in Workers, CommitLocator(w)
  PROVE  TypeInv'
<1>1. PICK c \in wk[w].todo :
         /\ SetLocator(wk[w].version, c, wk[w].loc)
         /\ WorkerBecomes(w, [wk[w] EXCEPT !.pc = "uploading", !.todo = @ \ {c}, !.loc = None])
  BY DEF CommitLocator
<1> DEFINE x == [wk[w] EXCEPT !.pc = "uploading", !.todo = @ \ {c}, !.loc = None]
<1>2. /\ wk[w] \in Worker /\ wk[w].job \in Requests /\ wk[w].version \in Ids
      /\ c \in Idx /\ wk[w].loc \in Locators \cup {None}
  BY DEF CommitLocator, TypeInv, TypeOK, WorkerShape, Worker
<1>3. x \in Worker /\ x.job \in Requests /\ x.version \in Ids
  BY <1>2 DEF Worker
<1>4. wk' \in [Workers -> Worker] /\ WorkerShape'
  BY <1>1, <1>3, WorkerTurn DEF TypeInv, TypeOK
<1>5. chunks' \in [Ids -> [Idx -> ChunkRow]]
  BY <1>1, <1>2, SetLocatorType DEF TypeInv
<1> QED
  BY <1>4, <1>5 DEF CommitLocator, tables, stores, TypeInv, TypeOK, JobShape, RequestShape, GcShape

LEMMA TypeFindJob ==
  ASSUME TypeInv, NEW w \in Workers, FindJob(w)
  PROVE  TypeInv'
<1> DEFINE pc == IF jobs[wk[w].job].state = "none" THEN "marked" ELSE "found"
           x == [wk[w] EXCEPT !.pc = pc]
<1>1. wk[w] \in Worker /\ wk[w].job \in Requests /\ wk[w].version \in Ids
  BY DEF FindJob, TypeInv, TypeOK, WorkerShape
<1>2. x \in Worker /\ x.job \in Requests /\ x.version \in Ids
  BY <1>1 DEF Worker
<1>3. wk' \in [Workers -> Worker] /\ WorkerShape'
  BY <1>2, WorkerTurn DEF FindJob, TypeInv, TypeOK
<1> QED
  BY <1>3 DEF FindJob, tables, stores, TypeInv, TypeOK, JobShape, RequestShape, GcShape

LEMMA TypeMarkRemote ==
  ASSUME TypeInv, NEW w \in Workers, MarkRemote(w)
  PROVE  TypeInv'
<1> DEFINE v == wk[w].version
           x == [wk[w] EXCEPT !.pc = "marked"]
<1>1. wk[w] \in Worker /\ wk[w].job \in Requests /\ v \in Ids
  BY DEF MarkRemote, TypeInv, TypeOK, WorkerShape
<1>2. x \in Worker /\ x.job \in Requests /\ x.version \in Ids
  BY <1>1 DEF Worker
<1>3. wk' \in [Workers -> Worker] /\ WorkerShape'
  BY <1>2, WorkerTurn DEF MarkRemote, TypeInv, TypeOK
<1>4. objects' \in [Ids -> ObjectRow]
  <2>1. objects[v] \in ObjectRow /\ [objects[v] EXCEPT !.remote = TRUE] \in ObjectRow
    BY <1>1 DEF TypeInv, TypeOK, ObjectRow
  <2>2. objects' = objects \/ objects' = [objects EXCEPT ![v] = [objects[v] EXCEPT !.remote = TRUE]]
    BY DEF MarkRemote
  <2> QED
    BY <1>1, <2>1, <2>2 DEF TypeInv, TypeOK
<1>5. disruptions' \in 0..MaxDisruptions
  BY DisruptType DEF MarkRemote, TypeInv, TypeOK
<1> QED
  BY <1>3, <1>4, <1>5 DEF MarkRemote, tables, stores, TypeInv, TypeOK, JobShape, RequestShape, GcShape

LEMMA TypeEndJob ==
  ASSUME TypeInv, NEW w \in Workers, EndJob(w)
  PROVE  TypeInv'
<1> DEFINE files == {c \in Idx : wk[w].snap[c] # None}
           x == [wk[w] EXCEPT !.pc = "cleaning", !.clean = files]
<1>1. /\ wk[w] \in Worker /\ wk[w].job \in Requests /\ wk[w].version \in Ids
      /\ jobs[wk[w].job].due \in BOOLEAN
  BY DEF EndJob, TypeInv, TypeOK, WorkerShape, JobRow
<1>2. x \in Worker /\ x.job \in Requests /\ x.version \in Ids
  BY <1>1 DEF Worker
<1>3. WorkerBecomes(w, WorkerAt("idle")) \/ WorkerBecomes(w, x)
  BY DEF EndJob
<1>4. wk' \in [Workers -> Worker] /\ WorkerShape'
  BY <1>2, <1>3, WorkerTurn, WorkerRests DEF TypeInv, TypeOK
<1>5. jobs' \in [Requests -> JobRow] /\ JobShape'
  BY <1>1, SetJobType DEF EndJob, TypeInv
<1> QED
  BY <1>4, <1>5 DEF EndJob, tables, stores, TypeInv, TypeOK, JobShape, RequestShape, GcShape

LEMMA TypeRemoveSpool ==
  ASSUME TypeInv, NEW w \in Workers, RemoveSpool(w)
  PROVE  TypeInv'
<1> DEFINE x == [wk[w] EXCEPT !.pc = "removed"]
<1>1. wk[w] \in Worker /\ wk[w].job \in Requests /\ wk[w].version \in Ids
  BY DEF RemoveSpool, TypeInv, TypeOK, WorkerShape
<1>2. x \in Worker /\ x.job \in Requests /\ x.version \in Ids
  BY <1>1 DEF Worker
<1>3. wk' \in [Workers -> Worker] /\ WorkerShape'
  BY <1>2, WorkerTurn DEF RemoveSpool, TypeInv, TypeOK
<1>4. spool' \in SUBSET Paths /\ disruptions' \in 0..MaxDisruptions
  BY RemoveFileType DEF RemoveSpool, TypeInv
<1> QED
  BY <1>3, <1>4 DEF RemoveSpool, tables, stores, TypeInv, TypeOK, JobShape, RequestShape, GcShape

LEMMA TypeClearPath ==
  ASSUME TypeInv, NEW w \in Workers, ClearPath(w)
  PROVE  TypeInv'
<1>1. PICK c \in wk[w].clean :
         /\ TryClearPath(wk[w].version, c)
         /\ WorkerBecomes(w, IF wk[w].clean = {c} THEN WorkerAt("idle")
                                  ELSE [wk[w] EXCEPT !.pc = "cleaning", !.clean = @ \ {c}])
  BY DEF ClearPath
<1> DEFINE x == [wk[w] EXCEPT !.pc = "cleaning", !.clean = @ \ {c}]
<1>2. wk[w] \in Worker /\ wk[w].job \in Requests /\ wk[w].version \in Ids /\ c \in Idx
  BY DEF ClearPath, TypeInv, TypeOK, WorkerShape, Worker
<1>3. x \in Worker /\ x.job \in Requests /\ x.version \in Ids
  BY <1>2 DEF Worker
<1>4. WorkerBecomes(w, WorkerAt("idle")) \/ WorkerBecomes(w, x)
  BY <1>1
<1>5. wk' \in [Workers -> Worker] /\ WorkerShape'
  BY <1>3, <1>4, WorkerTurn, WorkerRests DEF TypeInv, TypeOK
<1>6. chunks' \in [Ids -> [Idx -> ChunkRow]] /\ disruptions' \in 0..MaxDisruptions
  BY <1>1, <1>2, TryClearPathType DEF TypeInv
<1> QED
  BY <1>5, <1>6 DEF ClearPath, tables, stores, TypeInv, TypeOK, JobShape, RequestShape, GcShape

(* The steps of the request handlers *)

LEMMA TypeBeginPut ==
  ASSUME TypeInv, NEW r \in Requests, NEW k \in Keys, BeginPut(r, k)
  PROVE  TypeInv'
<1> DEFINE x == [req[r] EXCEPT !.pc = "writing", !.kind = "put", !.key = k]
<1>1. x \in Request /\ x.key \in Keys /\ x.pc = "writing"
  BY DEF TypeInv, TypeOK, Request, RequestKinds
<1>2. req' \in [Requests -> Request] /\ RequestShape'
  BY <1>1, RequestTurn DEF BeginPut, TypeInv, TypeOK
<1> QED
  BY <1>2 DEF BeginPut, tables, stores, TypeInv, TypeOK, JobShape, WorkerShape, GcShape

LEMMA TypeSpoolChunk ==
  ASSUME TypeInv, NEW r \in Requests, SpoolChunk(r)
  PROVE  TypeInv'
<1> DEFINE x == [req[r] EXCEPT !.written = @ + 1]
<1>1. req[r].written \in 0..NumChunks /\ req[r].written + 1 \in Idx /\ req[r].written + 1 \in 0..NumChunks
  BY PipelineAssumption DEF SpoolChunk, TypeInv, TypeOK, Request, Idx
<1>2. x \in Request /\ x.pc = "writing" /\ x.key \in Keys
  BY <1>1 DEF SpoolChunk, TypeInv, TypeOK, RequestShape, Request
<1>3. req' \in [Requests -> Request] /\ RequestShape'
  BY <1>2, RequestTurn DEF SpoolChunk, TypeInv, TypeOK
<1>4. spool' \in SUBSET Paths
  BY <1>1 DEF SpoolChunk, TypeInv, TypeOK, Paths
<1> QED
  BY <1>3, <1>4 DEF SpoolChunk, tables, stores, TypeInv, TypeOK, JobShape, WorkerShape, GcShape

LEMMA TypeCommitPut ==
  ASSUME TypeInv, NEW r \in Requests, CommitPut(r)
  PROVE  TypeInv'
<1> DEFINE rows == [c \in Idx |-> [state |-> "pending", path |-> <<r, c>>, loc |-> None]]
           files == SpoolPaths(Replaced(req[r].key))
<1>1. req[r].key \in Keys
  BY DEF CommitPut, TypeInv, RequestShape
<1>2. rows \in [Idx -> ChunkRow]
  BY DEF ChunkRow, Paths
<1>3. /\ mode' = mode /\ clock' \in Nat
      /\ objects' \in [Ids -> ObjectRow]
      /\ chunks' \in [Ids -> [Idx -> ChunkRow]]
      /\ jobs' \in [Requests -> JobRow]
      /\ JobShape'
  BY <1>1, <1>2, FinalIdType, WriteVersionType DEF CommitPut, TypeInv
<1>4. files \in SUBSET Paths
  BY ReplacedType, SpoolPathsType DEF TypeInv
<1>5. req' \in [Requests -> Request] /\ RequestShape' /\ disruptions' \in 0..MaxDisruptions
  <2>1. Leave(r, files, {}) /\ {} \in SUBSET Locators
    BY DEF CommitPut
  <2> HIDE DEF files
  <2> QED
    BY <1>4, <2>1, LeaveType DEF TypeInv, TypeOK
<1> QED
  BY <1>3, <1>5 DEF CommitPut, tables, stores, TypeInv, TypeOK, JobShape, WorkerShape, GcShape

LEMMA TypeAbandonPut ==
  ASSUME TypeInv, NEW r \in Requests, AbandonPut(r)
  PROVE  TypeInv'
<1>1. req' \in [Requests -> Request] /\ RequestShape'
  BY RequestEnds DEF AbandonPut, TypeInv, TypeOK
<1>2. disruptions' \in 0..MaxDisruptions
  BY DisruptType DEF AbandonPut, TypeInv, TypeOK
<1> QED
  BY <1>1, <1>2 DEF AbandonPut, tables, stores, TypeInv, TypeOK, JobShape, WorkerShape, GcShape

LEMMA TypeBeginCopy ==
  ASSUME TypeInv, NEW r \in Requests, NEW k \in Keys, BeginCopy(r, k)
  PROVE  TypeInv'
<1>1. PICK i \in Ids :
         RequestBecomes(r, [req[r] EXCEPT !.pc = "ready", !.kind = "copy", !.key = k,
                                          !.source = i, !.data = objects[i].data])
  BY DEF BeginCopy
<1> DEFINE d == objects[i].data
           x == [req[r] EXCEPT !.pc = "ready", !.kind = "copy", !.key = k,
                               !.source = i, !.data = d]
<1>2. req[r] \in Request /\ d \in Requests \cup {None}
  BY DEF TypeInv, TypeOK, ObjectRow
<1> HIDE DEF d
<1>3. x \in Request /\ x.key \in Keys /\ x.source \in Ids
  BY <1>2 DEF Request, RequestKinds
<1>4. RequestBecomes(r, x)
  BY <1>1 DEF d
<1>5. req' \in [Requests -> Request] /\ RequestShape'
  BY <1>3, <1>4, RequestTurn DEF TypeInv, TypeOK
<1> QED
  BY <1>5 DEF BeginCopy, tables, stores, TypeInv, TypeOK, JobShape, WorkerShape, GcShape

LEMMA TypeCommitCopy ==
  ASSUME TypeInv, NEW r \in Requests, CommitCopy(r)
  PROVE  TypeInv'
<1> DEFINE S == Replaced(req[r].key)
           rows == ChunksWithout(S)[req[r].source]
           files == SpoolPaths(S)
<1>1. req[r].key \in Keys /\ req[r].source \in Ids /\ req[r].data \in Requests \cup {None}
  BY DEF CommitCopy, TypeInv, TypeOK, RequestShape, Request
<1>2. S \in SUBSET Ids /\ files \in SUBSET Paths
  BY ReplacedType, SpoolPathsType DEF TypeInv
<1>3. rows \in [Idx -> ChunkRow]
  BY <1>1, <1>2, WithoutType DEF TypeInv
<1>4. /\ mode' = mode /\ clock' \in Nat
      /\ objects' \in [Ids -> ObjectRow]
      /\ chunks' \in [Ids -> [Idx -> ChunkRow]]
      /\ jobs' \in [Requests -> JobRow]
      /\ JobShape'
  BY <1>1, <1>3, FinalIdType, WriteVersionType DEF CommitCopy, TypeInv
<1>5. req' \in [Requests -> Request] /\ RequestShape' /\ disruptions' \in 0..MaxDisruptions
  <2>1. Leave(r, files, {}) /\ {} \in SUBSET Locators
    BY DEF CommitCopy
  <2> HIDE DEF files, S
  <2> QED
    BY <1>2, <2>1, LeaveType DEF TypeInv, TypeOK
<1> QED
  BY <1>4, <1>5 DEF CommitCopy, tables, stores, TypeInv, TypeOK, JobShape, WorkerShape, GcShape

LEMMA TypeBeginDelete ==
  ASSUME TypeInv, NEW r \in Requests, NEW k \in Keys, BeginDelete(r, k)
  PROVE  TypeInv'
<1>1. PICK m \in {mode, "Disabled"} :
         /\ IF m = mode THEN UNCHANGED disruptions ELSE Disrupt
         /\ RequestBecomes(r, [req[r] EXCEPT !.pc = "ready", !.kind = "delete", !.key = k,
                                             !.mode = m])
  BY DEF BeginDelete
<1> DEFINE x == [req[r] EXCEPT !.pc = "ready", !.kind = "delete", !.key = k, !.mode = m]
<1>2. x \in Request /\ x.key \in Keys /\ x.kind = "delete"
  BY DEF TypeInv, TypeOK, Request, RequestKinds
<1>3. req' \in [Requests -> Request] /\ RequestShape'
  BY <1>1, <1>2, RequestTurn DEF TypeInv, TypeOK
<1>4. disruptions' \in 0..MaxDisruptions
  BY <1>1, DisruptType DEF TypeInv, TypeOK
<1> QED
  BY <1>3, <1>4 DEF BeginDelete, tables, stores, TypeInv, TypeOK, JobShape, WorkerShape, GcShape

LEMMA TypeCommitMarker ==
  ASSUME TypeInv, NEW r \in Requests, CommitMarker(r)
  PROVE  TypeInv'
<1> DEFINE rows == [c \in Idx |-> NoChunk]
<1>1. req[r].key \in Keys /\ rows \in [Idx -> ChunkRow]
  BY FreshRecords DEF CommitMarker, TypeInv, RequestShape
<1>2. /\ mode' = mode /\ clock' \in Nat
      /\ objects' \in [Ids -> ObjectRow]
      /\ chunks' \in [Ids -> [Idx -> ChunkRow]]
      /\ jobs' \in [Requests -> JobRow]
      /\ JobShape'
  BY <1>1, FinalIdType, WriteVersionType DEF CommitMarker, TypeInv
<1>3. req' \in [Requests -> Request] /\ RequestShape'
  BY RequestEnds DEF CommitMarker, TypeInv, TypeOK
<1> QED
  BY <1>2, <1>3 DEF CommitMarker, tables, stores, TypeInv, TypeOK, JobShape, WorkerShape, GcShape

LEMMA TypeRefuseWrite ==
  ASSUME TypeInv, NEW r \in Requests, RefuseWrite(r)
  PROVE  TypeInv'
<1>1. req' \in [Requests -> Request] /\ RequestShape'
  BY RequestEnds DEF RefuseWrite, TypeInv, TypeOK
<1> QED
  BY <1>1 DEF RefuseWrite, tables, stores, TypeInv, TypeOK, JobShape, WorkerShape, GcShape

LEMMA TypeDropKey ==
  ASSUME TypeInv, NEW r \in Requests, NEW k, NEW locators \in SUBSET Locators,
         DropKey(r, k, locators)
  PROVE  TypeInv'
<1>1. VersionsOf(k) \in SUBSET Ids
  BY DEF VersionsOf
<1>2. SpoolPaths(VersionsOf(k)) \in SUBSET Paths
  BY <1>1, SpoolPathsType DEF TypeInv
<1>3. /\ mode' = mode /\ clock' = clock
      /\ objects' \in [Ids -> ObjectRow]
      /\ chunks' \in [Ids -> [Idx -> ChunkRow]]
      /\ jobs' \in [Requests -> JobRow]
      /\ JobShape'
  BY <1>1, DropVersionsType DEF DropKey, TypeInv
<1>4. req' \in [Requests -> Request] /\ RequestShape' /\ disruptions' \in 0..MaxDisruptions
  BY <1>2, LeaveType DEF DropKey, TypeInv, TypeOK
<1> QED
  BY <1>3, <1>4 DEF DropKey, tables, stores, TypeInv, TypeOK, JobShape, WorkerShape, GcShape

LEMMA LocatorsOfKey ==
  ASSUME TypeOK, NEW k
  PROVE  RemoteLocators(VersionsOf(k)) \in SUBSET Locators
<1>1. VersionsOf(k) \in SUBSET Ids
  BY DEF VersionsOf
<1> QED
  BY <1>1, RemoteLocatorsType

LEMMA TypeCommitDelete ==
  ASSUME TypeInv, NEW r \in Requests, CommitDelete(r)
  PROVE  TypeInv'
  BY TypeDropKey, LocatorsOfKey DEF CommitDelete, TypeInv

LEMMA TypePurge ==
  ASSUME TypeInv, NEW r \in Requests, NEW k \in Keys, Purge(r, k)
  PROVE  TypeInv'
  BY TypeDropKey, LocatorsOfKey DEF Purge, TypeInv

LEMMA TypeDeleteVersion ==
  ASSUME TypeInv, NEW r \in Requests, NEW i \in Ids, DeleteVersion(r, i)
  PROVE  TypeInv'
<1>1. SpoolPaths({i}) \in SUBSET Paths
  BY SpoolPathsType DEF TypeInv
<1>2. /\ mode' = mode /\ clock' = clock
      /\ objects' \in [Ids -> ObjectRow]
      /\ chunks' \in [Ids -> [Idx -> ChunkRow]]
      /\ jobs' \in [Requests -> JobRow]
      /\ JobShape'
  BY DropVersionsType DEF DeleteVersion, TypeInv
<1>3. req' \in [Requests -> Request] /\ RequestShape' /\ disruptions' \in 0..MaxDisruptions
  <2> DEFINE files == SpoolPaths({i})
  <2>1. Leave(r, files, {}) /\ {} \in SUBSET Locators
    BY DEF DeleteVersion
  <2>2. files \in SUBSET Paths
    BY <1>1
  <2> HIDE DEF files
  <2> QED
    BY <2>1, <2>2, LeaveType DEF TypeInv, TypeOK
<1> QED
  BY <1>2, <1>3 DEF DeleteVersion, tables, stores, TypeInv, TypeOK, JobShape, WorkerShape, GcShape

LEMMA TypeRemoveOldSpool ==
  ASSUME TypeInv, NEW r \in Requests, RemoveOldSpool(r)
  PROVE  TypeInv'
<1>1. PICK p \in req[r].rm : RemoveFile(p) /\ RequestBecomes(r, [req[r] EXCEPT !.rm = @ \ {p}])
  BY DEF RemoveOldSpool
<1> DEFINE x == [req[r] EXCEPT !.rm = @ \ {p}]
<1>2. x \in Request /\ x.pc = req[r].pc /\ x.kind = req[r].kind /\ x.key = req[r].key
        /\ x.source = req[r].source
  BY DEF TypeInv, TypeOK, Request
<1>3. /\ x.pc \in {"writing", "ready"} => x.key \in Keys
      /\ x.pc = "ready" /\ x.kind = "copy" => x.source \in Ids
  BY <1>2 DEF TypeInv, RequestShape
<1>4. req' \in [Requests -> Request] /\ RequestShape'
  BY <1>1, <1>2, <1>3, RequestTurn DEF TypeInv, TypeOK
<1>5. spool' \in SUBSET Paths /\ disruptions' \in 0..MaxDisruptions
  BY <1>1, RemoveFileType DEF TypeInv
<1> QED
  BY <1>4, <1>5 DEF RemoveOldSpool, tables, stores, TypeInv, TypeOK, JobShape, WorkerShape, GcShape

LEMMA TypeRemoveOldBlob ==
  ASSUME TypeInv, NEW r \in Requests, RemoveOldBlob(r)
  PROVE  TypeInv'
<1>1. PICK l \in req[r].rmBlobs : RequestBecomes(r, [req[r] EXCEPT !.rmBlobs = @ \ {l}])
  BY DEF RemoveOldBlob
<1> DEFINE x == [req[r] EXCEPT !.rmBlobs = @ \ {l}]
<1>2. x \in Request /\ x.pc = req[r].pc /\ x.kind = req[r].kind /\ x.key = req[r].key
        /\ x.source = req[r].source
  BY DEF TypeInv, TypeOK, Request
<1>3. /\ x.pc \in {"writing", "ready"} => x.key \in Keys
      /\ x.pc = "ready" /\ x.kind = "copy" => x.source \in Ids
  BY <1>2 DEF TypeInv, RequestShape
<1>4. req' \in [Requests -> Request] /\ RequestShape'
  BY <1>1, <1>2, <1>3, RequestTurn DEF TypeInv, TypeOK
<1>5. disruptions' \in 0..MaxDisruptions
  BY DisruptType DEF RemoveOldBlob, TypeInv, TypeOK
<1> QED
  BY <1>4, <1>5 DEF RemoveOldBlob, tables, stores, TypeInv, TypeOK, JobShape, WorkerShape, GcShape

LEMMA TypeDropRequest ==
  ASSUME TypeInv, NEW r \in Requests, DropRequest(r)
  PROVE  TypeInv'
<1>1. req' \in [Requests -> Request] /\ RequestShape'
  BY RequestEnds DEF DropRequest, TypeInv, TypeOK
<1>2. disruptions' \in 0..MaxDisruptions
  BY DisruptType DEF DropRequest, TypeInv, TypeOK
<1> QED
  BY <1>1, <1>2 DEF DropRequest, tables, stores, TypeInv, TypeOK, JobShape, WorkerShape, GcShape

(* The clock, the operator and the garbage collector *)

LEMMA TypeSetVersioning ==
  ASSUME TypeInv, NEW m \in Modes, SetVersioning(m)
  PROVE  TypeInv'
  BY PipelineAssumption
     DEF SetVersioning, stores, TypeInv, TypeOK, JobShape, WorkerShape, RequestShape, GcShape

LEMMA TypeExpireLease ==
  ASSUME TypeInv, NEW r \in Requests, ExpireLease(r)
  PROVE  TypeInv'
<1> DEFINE x == [jobs[r] EXCEPT !.leased = FALSE]
<1>1. jobs[r] \in JobRow /\ jobs[r].version \in Ids
  BY DEF ExpireLease, TypeInv, TypeOK, JobShape
<1>2. x \in JobRow /\ x.version \in Ids
  BY <1>1 DEF JobRow
<1>3. jobs' = [jobs EXCEPT ![r] = x]
  BY DEF ExpireLease
<1>4. jobs' \in [Requests -> JobRow] /\ JobShape'
  BY <1>2, <1>3 DEF TypeInv, TypeOK, JobShape
<1> QED
  BY <1>4 DEF ExpireLease, stores, TypeInv, TypeOK, WorkerShape, RequestShape, GcShape

LEMMA TypeEndBackoff ==
  ASSUME TypeInv, NEW r \in Requests, EndBackoff(r)
  PROVE  TypeInv'
<1> DEFINE x == [jobs[r] EXCEPT !.due = TRUE]
<1>1. jobs[r] \in JobRow /\ jobs[r].version \in Ids
  BY DEF EndBackoff, TypeInv, TypeOK, JobShape
<1>2. x \in JobRow /\ x.version \in Ids
  BY <1>1 DEF JobRow
<1>3. jobs' = [jobs EXCEPT ![r] = x]
  BY DEF EndBackoff
<1>4. jobs' \in [Requests -> JobRow] /\ JobShape'
  BY <1>2, <1>3 DEF TypeInv, TypeOK, JobShape
<1> QED
  BY <1>4 DEF EndBackoff, stores, TypeInv, TypeOK, WorkerShape, RequestShape, GcShape

LEMMA TypeStartGc ==
  ASSUME TypeInv, StartGc
  PROVE  TypeInv'
<1>1. PICK rows \in SUBSET (Ids \X Idx \X Paths) : gc' = [GcAt("rows") EXCEPT !.rows = rows]
  BY DEF StartGc
<1>2. gc' \in Collector /\ gc'.pc = "rows"
  BY <1>1, FreshRecords DEF GcAt, Collector
<1> QED
  BY <1>2 DEF StartGc, tables, stores, TypeInv, TypeOK, JobShape, WorkerShape, RequestShape, GcShape

LEMMA TypeFreeFile ==
  ASSUME TypeInv, FreeFile
  PROVE  TypeInv'
<1>1. PICK x \in gc.rows :
         \/ /\ spool' = spool \ {x[3]}
            /\ gc' = [gc EXCEPT !.pc = "freed", !.rows = @ \ {x}, !.row = <<x[1], x[2]>>]
            /\ UNCHANGED disruptions
         \/ /\ gc' = [gc EXCEPT !.rows = @ \ {x}]
            /\ UNCHANGED spool /\ Disrupt
  BY DEF FreeFile
<1>2. gc \in Collector /\ x \in Ids \X Idx \X Paths /\ gc.pc = "rows"
  BY DEF FreeFile, TypeInv, TypeOK, Collector
<1>3. <<x[1], x[2]>> \in Ids \X Idx
  BY <1>2
<1>4. gc' \in Collector /\ (gc'.pc = "freed" => gc'.row \in Ids \X Idx)
  BY <1>1, <1>2, <1>3 DEF Collector
<1>5. spool' \in SUBSET Paths /\ disruptions' \in 0..MaxDisruptions
  BY <1>1, DisruptType DEF TypeInv, TypeOK
<1> QED
  BY <1>4, <1>5 DEF FreeFile, tables, TypeInv, TypeOK, JobShape, WorkerShape, RequestShape, GcShape

LEMMA TypeFreeRow ==
  ASSUME TypeInv, FreeRow
  PROVE  TypeInv'
<1>1. gc \in Collector /\ gc.row[1] \in Ids /\ gc.row[2] \in Idx
  BY DEF FreeRow, TypeInv, TypeOK, GcShape
<1>2. gc' \in Collector /\ gc'.pc = "rows"
  BY <1>1 DEF FreeRow, Collector
<1>3. chunks' \in [Ids -> [Idx -> ChunkRow]] /\ disruptions' \in 0..MaxDisruptions
  BY <1>1, TryClearPathType DEF FreeRow, TypeInv
<1> QED
  BY <1>2, <1>3 DEF FreeRow, stores, TypeInv, TypeOK, JobShape, WorkerShape, RequestShape, GcShape

LEMMA TypeReadActive ==
  ASSUME TypeInv, ReadActive
  PROVE  TypeInv'
<1>1. ActivePaths \in SUBSET Paths
  BY SpoolPathsType DEF ActivePaths, TypeInv
<1>2. gc' \in Collector /\ gc'.pc = "listing"
  BY <1>1 DEF ReadActive, TypeInv, TypeOK, Collector
<1> QED
  BY <1>2 DEF ReadActive, tables, stores, TypeInv, TypeOK, JobShape, WorkerShape, RequestShape, GcShape

LEMMA TypeListSpool ==
  ASSUME TypeInv, ListSpool
  PROVE  TypeInv'
<1>1. gc' \in Collector /\ gc'.pc = "sweeping"
  BY DEF ListSpool, TypeInv, TypeOK, Collector
<1> QED
  BY <1>1 DEF ListSpool, tables, stores, TypeInv, TypeOK, JobShape, WorkerShape, RequestShape, GcShape

LEMMA TypeSweepFile ==
  ASSUME TypeInv, SweepFile
  PROVE  TypeInv'
<1>1. gc' \in Collector /\ gc'.pc = "sweeping"
  BY DEF SweepFile, TypeInv, TypeOK, Collector
<1>2. spool' \in SUBSET Paths /\ disruptions' \in 0..MaxDisruptions
  BY RemoveFileType DEF SweepFile, TypeInv
<1> QED
  BY <1>1, <1>2 DEF SweepFile, tables, TypeInv, TypeOK, JobShape, WorkerShape, RequestShape, GcShape

LEMMA TypeEndSweep ==
  ASSUME TypeInv, EndSweep
  PROVE  TypeInv'
<1>1. gc' \in Collector /\ gc'.pc = "remote"
  BY FreshRecords DEF EndSweep, GcAt
<1> QED
  BY <1>1 DEF EndSweep, tables, stores, TypeInv, TypeOK, JobShape, WorkerShape, RequestShape, GcShape

LEMMA TypeCollectRemote ==
  ASSUME TypeInv, CollectRemote
  PROVE  TypeInv'
<1>1. gc' \in Collector /\ gc'.pc = "idle"
  BY FreshRecords DEF CollectRemote, GcAt
<1>2. blobs' \in SUBSET Locators
  BY DEF CollectRemote, TypeInv, TypeOK
<1>3. \A i \in Ids, c \in Idx :
        chunks[i][c] \in ChunkRow /\ [chunks[i][c] EXCEPT !.loc = None] \in ChunkRow
  <2> SUFFICES ASSUME NEW i \in Ids, NEW c \in Idx
               PROVE  chunks[i][c] \in ChunkRow /\ [chunks[i][c] EXCEPT !.loc = None] \in ChunkRow
    OBVIOUS
  <2>1. chunks[i][c] \in ChunkRow
    BY DEF TypeInv, TypeOK
  <2> QED
    BY <2>1 DEF ChunkRow
<1>4. chunks' \in [Ids -> [Idx -> ChunkRow]]
  BY <1>3 DEF CollectRemote
<1> QED
  BY <1>1, <1>2, <1>4 DEF CollectRemote, TypeInv, TypeOK, JobShape, WorkerShape, RequestShape, GcShape

LEMMA TypeRestart ==
  ASSUME TypeInv, Restart
  PROVE  TypeInv'
<1>1. disruptions' \in 0..MaxDisruptions
  BY DisruptType DEF Restart, TypeInv, TypeOK
<1>2. spool' \in SUBSET Paths
  BY DEF Restart, TypeInv, TypeOK
<1>3. req' \in [Requests -> Request] /\ RequestShape'
  <2>1. Closed \in Request /\ Closed.pc = "closed"
    BY FreshRecords DEF Closed, NewRequest
  <2> QED
    BY <2>1 DEF Restart, TypeInv, TypeOK, RequestShape
<1>4. wk' \in [Workers -> Worker] /\ WorkerShape'
  <2>1. WorkerAt("boot") \in Worker /\ WorkerAt("boot").pc = "boot"
    BY FreshRecords DEF WorkerAt
  <2> QED
    BY <2>1 DEF Restart, WorkerShape
<1>5. gc' \in Collector /\ gc'.pc = "idle"
  BY FreshRecords DEF Restart, GcAt
<1> QED
  BY <1>1, <1>2, <1>3, <1>4, <1>5 DEF Restart, tables, TypeInv, TypeOK, JobShape, GcShape

(* Every step *)

LEMMA TypeHandler ==
  ASSUME TypeInv, NEW r \in Requests, Handler(r)
  PROVE  TypeInv'
  BY TypeBeginPut, TypeBeginCopy, TypeBeginDelete, TypePurge, TypeSpoolChunk, TypeCommitPut,
     TypeAbandonPut, TypeCommitCopy, TypeCommitMarker, TypeRefuseWrite, TypeCommitDelete,
     TypeDeleteVersion, TypeRemoveOldSpool, TypeRemoveOldBlob, TypeDropRequest DEF Handler

LEMMA TypeUploadWorker ==
  ASSUME TypeInv, NEW w \in Workers, UploadWorker(w)
  PROVE  TypeInv'
  BY TypeBoot, TypePoll, TypeClaim, TypeLoseClaim, TypeLoad, TypeSkipGone, TypeUpload,
     TypeLackFile, TypeFailUpload, TypeCommitLocator, TypeFindJob, TypeMarkRemote, TypeEndJob,
     TypeRemoveSpool, TypeClearPath, TypeWorkerError, TypeChangeCredentials
     DEF UploadWorker, WorkerStep

LEMMA TypeGc ==
  ASSUME TypeInv, Gc
  PROVE  TypeInv'
  BY TypeStartGc, TypeFreeFile, TypeFreeRow, TypeReadActive, TypeListSpool, TypeSweepFile,
     TypeEndSweep, TypeCollectRemote DEF Gc

LEMMA TypeStep == TypeInv /\ [Next]_vars => TypeInv'
<1> SUFFICES ASSUME TypeInv, [Next]_vars
             PROVE  TypeInv'
  OBVIOUS
<1>1. CASE Next
  BY <1>1, TypeSetVersioning, TypeHandler, TypeExpireLease, TypeEndBackoff, TypeUploadWorker,
     TypeGc, TypeRestart DEF Next
<1>2. CASE UNCHANGED vars
  BY <1>2 DEF vars, tables, stores, TypeInv, TypeOK, JobShape, WorkerShape, RequestShape, GcShape
<1> QED
  BY <1>1, <1>2

THEOREM TypeInvariant == Spec => []TypeInv
  BY TypeInit, TypeStep, PTL DEF Spec

\* In every reachable state the tables, the stores and the control states have
\* their types: no step of a handler, worker, GC run or restart writes a row, a
\* path or a locator that is not one.
THEOREM TypeCorrect == Spec => []TypeOK
<1>1. TypeInv => TypeOK
  BY DEF TypeInv
<1> QED
  BY <1>1, TypeInvariant, PTL

-----------------------------------------------------------------------------
(* Chunk rows: each belongs to a version that exists, and once it is remote *)
(* it stays remote until that version is dropped or replaced.               *)

\* The numbers objects are inserted under grow, so that a version id which is
\* used again (`null`) never comes back with the number it had.
SeqInv == \A i \in Ids : /\ objects[i].seq <= clock
                         /\ objects[i].kind # "none" => objects[i].seq > 0

\* No chunk row is left of a version that was dropped.
RowsOfVersions == \A i \in Ids, c \in Idx :
                    chunks[i][c].state # "none" => objects[i].kind # "none"

RowInv == TypeInv /\ SeqInv /\ RowsOfVersions

\* What a step may do to the rows.
RemoteStays == \A i \in Ids, c \in Idx :
                 chunks[i][c].state = "remote" =>
                   chunks'[i][c].state = "remote" \/ objects'[i].seq # objects[i].seq
RowsKept == SeqInv' /\ RowsOfVersions' /\ RemoteStays

SameSeqs == /\ clock' = clock
            /\ \A i \in Ids : /\ objects'[i].kind = objects[i].kind
                              /\ objects'[i].seq = objects[i].seq
SameRows == \A i \in Ids, c \in Idx :
              /\ chunks[i][c].state = "none" => chunks'[i][c].state = "none"
              /\ chunks[i][c].state = "remote" => chunks'[i][c].state = "remote"

-----------------------------------------------------------------------------
(* The updates of the tables *)

LEMMA RowsUpdate ==
  ASSUME RowInv, SameSeqs, SameRows
  PROVE  RowsKept
<1>1. SeqInv'
  BY DEF RowInv, SeqInv, SameSeqs
<1>2. RowsOfVersions'
  BY DEF RowInv, RowsOfVersions, SameSeqs, SameRows
<1>3. RemoteStays
  BY DEF RemoteStays, SameRows
<1> QED
  BY <1>1, <1>2, <1>3 DEF RowsKept

LEMMA RowsRest ==
  ASSUME RowInv, UNCHANGED <<objects, clock, chunks>>
  PROVE  RowsKept
<1>1. SameSeqs /\ SameRows
  BY DEF SameSeqs, SameRows
<1> QED
  BY <1>1, RowsUpdate

LEMMA RowsSetLocator ==
  ASSUME TypeOK, NEW i \in Ids, NEW c \in Idx, NEW l, SetLocator(i, c, l)
  PROVE  SameRows
<1>1. CASE ~HasRow(i, c)
  BY <1>1 DEF SetLocator, SameRows
<1>2. CASE HasRow(i, c)
  <2> DEFINE x == [chunks[i][c] EXCEPT !.state = "remote", !.loc = l]
  <2>1. chunks[i][c] \in ChunkRow /\ chunks[i] \in [Idx -> ChunkRow]
    BY DEF TypeOK
  <2>2. x.state = "remote" /\ chunks[i][c].state # "none"
    BY <1>2, <2>1 DEF ChunkRow, HasRow
  <2>3. chunks' = [chunks EXCEPT ![i][c] = x]
    BY <1>2 DEF SetLocator
  <2> HIDE DEF x
  <2>4. chunks'[i][c] = x
    BY <2>1, <2>3 DEF TypeOK
  <2>5. \A j \in Ids, d \in Idx : j # i \/ d # c => chunks'[j][d] = chunks[j][d]
    BY <2>1, <2>3 DEF TypeOK
  <2> QED
    BY <2>2, <2>4, <2>5 DEF SameRows
<1> QED
  BY <1>1, <1>2

LEMMA RowsClearPath ==
  ASSUME TypeOK, NEW i \in Ids, NEW c \in Idx, TryClearPath(i, c)
  PROVE  SameRows
<1>1. CASE UNCHANGED chunks
  BY <1>1 DEF SameRows
<1>2. CASE HasRow(i, c) /\ ClearSpoolPath(i, c)
  <2> DEFINE x == [chunks[i][c] EXCEPT !.path = None]
  <2>1. chunks[i][c] \in ChunkRow /\ chunks[i] \in [Idx -> ChunkRow]
    BY DEF TypeOK
  <2>2. x.state = chunks[i][c].state
    BY <2>1 DEF ChunkRow
  <2>3. chunks' = [chunks EXCEPT ![i][c] = x]
    BY <1>2 DEF ClearSpoolPath
  <2> HIDE DEF x
  <2>4. chunks'[i][c] = x
    BY <2>1, <2>3 DEF TypeOK
  <2>5. \A j \in Ids, d \in Idx : j # i \/ d # c => chunks'[j][d] = chunks[j][d]
    BY <2>1, <2>3 DEF TypeOK
  <2> QED
    BY <2>2, <2>4, <2>5 DEF SameRows
<1> QED
  BY <1>1, <1>2 DEF TryClearPath, ClearSpoolPath

LEMMA RowsCollect ==
  ASSUME TypeOK, CollectRemote
  PROVE  SameRows
<1> SUFFICES ASSUME NEW i \in Ids, NEW c \in Idx
             PROVE  chunks'[i][c].state = chunks[i][c].state
  BY DEF SameRows
<1>1. chunks[i][c] \in ChunkRow
  BY DEF TypeOK
<1>2. chunks'[i][c] = chunks[i][c] \/ chunks'[i][c] = [chunks[i][c] EXCEPT !.loc = None]
  BY DEF CollectRemote
<1> QED
  BY <1>1, <1>2 DEF ChunkRow

LEMMA RowsMarkRemote ==
  ASSUME TypeInv, NEW w \in Workers, MarkRemote(w)
  PROVE  SameSeqs /\ SameRows
<1> DEFINE v == wk[w].version
           x == [objects[v] EXCEPT !.remote = TRUE]
<1>1. v \in Ids
  BY DEF TypeInv, WorkerShape, MarkRemote
<1>2. objects[v] \in ObjectRow /\ objects \in [Ids -> ObjectRow]
  BY <1>1 DEF TypeInv, TypeOK
<1>3. x.kind = objects[v].kind /\ x.seq = objects[v].seq
  BY <1>2 DEF ObjectRow
<1>4. objects' = objects \/ objects' = [objects EXCEPT ![v] = x]
  BY DEF MarkRemote
<1>5. clock' = clock /\ chunks' = chunks
  BY DEF MarkRemote
<1> HIDE DEF x, v
<1> QED
  BY <1>1, <1>2, <1>3, <1>4, <1>5 DEF SameSeqs, SameRows

-----------------------------------------------------------------------------
(* The transactions *)

LEMMA WithoutRows ==
  ASSUME NEW S \in SUBSET Ids
  PROVE  /\ \A i \in Ids \ S : /\ ObjectsWithout(S)[i] = objects[i]
                               /\ ChunksWithout(S)[i] = chunks[i]
         /\ \A i \in S : /\ ObjectsWithout(S)[i].kind = "none"
                         /\ ObjectsWithout(S)[i].seq = 0
                         /\ \A c \in Idx : ChunksWithout(S)[i][c].state = "none"
<1>1. NoObject.kind = "none" /\ NoObject.seq = 0 /\ NoChunk.state = "none"
  BY DEF NoObject, NoChunk
<1> QED
  BY <1>1 DEF ObjectsWithout, ChunksWithout

LEMMA SeqTypes ==
  ASSUME TypeOK
  PROVE  clock \in Nat /\ \A i \in Ids : objects[i].seq \in Nat
  BY DEF TypeOK, ObjectRow

LEMMA RowsDropVersions ==
  ASSUME RowInv, NEW S \in SUBSET Ids, DropVersions(S)
  PROVE  RowsKept
<1>1. objects' = ObjectsWithout(S) /\ chunks' = ChunksWithout(S) /\ clock' = clock
  BY DEF DropVersions
<1>2. clock \in Nat /\ \A i \in Ids : objects[i].seq \in Nat
  BY SeqTypes DEF RowInv, TypeInv
<1>3. SeqInv'
  BY <1>1, <1>2, WithoutRows DEF RowInv, SeqInv
<1>4. RowsOfVersions'
  BY <1>1, WithoutRows DEF RowInv, RowsOfVersions
<1>5. RemoteStays
  <2> SUFFICES ASSUME NEW i \in Ids, NEW c \in Idx, chunks[i][c].state = "remote"
               PROVE  chunks'[i][c].state = "remote" \/ objects'[i].seq # objects[i].seq
    BY DEF RemoteStays
  <2>1. objects[i].seq > 0
    BY DEF RowInv, RowsOfVersions, SeqInv
  <2> QED
    BY <1>1, <1>2, <2>1, WithoutRows
<1> QED
  BY <1>3, <1>4, <1>5 DEF RowsKept

LEMMA RowsWriteVersion ==
  ASSUME RowInv, NEW r, NEW i \in Ids, NEW k, NEW kind \in {"data", "marker"},
         NEW data, NEW rows, NEW queued, WriteVersion(r, i, k, kind, data, rows, queued)
  PROVE  RowsKept
<1> DEFINE S == Replaced(k)
           row == [kind |-> kind, key |-> k, remote |-> FALSE, seq |-> clock + 1, data |-> data]
<1>1. S \in SUBSET Ids
  BY ReplacedType DEF RowInv, TypeInv
<1>2. /\ objects' = [ObjectsWithout(S) EXCEPT ![i] = row]
      /\ chunks' = [ChunksWithout(S) EXCEPT ![i] = rows]
      /\ clock' = clock + 1
  BY DEF WriteVersion
<1>3. /\ ObjectsWithout(S) \in [Ids -> ObjectRow]
      /\ ChunksWithout(S) \in [Ids -> [Idx -> ChunkRow]]
  BY <1>1, WithoutType DEF RowInv, TypeInv
<1>4. row.kind # "none" /\ row.seq = clock + 1
  OBVIOUS
<1>5. clock \in Nat /\ \A j \in Ids : objects[j].seq \in Nat /\ objects[j].seq <= clock
  BY SeqTypes DEF RowInv, TypeInv, SeqInv
<1> HIDE DEF S, row
<1>6. objects'[i] = row
  BY <1>2, <1>3
<1>7. \A j \in Ids : j # i => /\ objects'[j] = ObjectsWithout(S)[j]
                              /\ chunks'[j] = ChunksWithout(S)[j]
  BY <1>2, <1>3
<1>8. SeqInv'
  <2> SUFFICES ASSUME NEW j \in Ids
               PROVE  objects'[j].seq <= clock' /\ (objects'[j].kind # "none" => objects'[j].seq > 0)
    BY DEF SeqInv
  <2>1. CASE j = i
    BY <1>2, <1>4, <1>5, <1>6, <2>1
  <2>2. CASE j # i
    BY <1>1, <1>2, <1>5, <1>7, <2>2, WithoutRows DEF RowInv, SeqInv
  <2> QED
    BY <2>1, <2>2
<1>9. RowsOfVersions'
  <2> SUFFICES ASSUME NEW j \in Ids, NEW c \in Idx, chunks'[j][c].state # "none"
               PROVE  objects'[j].kind # "none"
    BY DEF RowsOfVersions
  <2>1. CASE j = i
    BY <1>4, <1>6, <2>1
  <2>2. CASE j # i
    BY <1>1, <1>7, <2>2, WithoutRows DEF RowInv, RowsOfVersions
  <2> QED
    BY <2>1, <2>2
<1>10. RemoteStays
  <2> SUFFICES ASSUME NEW j \in Ids, NEW c \in Idx, chunks[j][c].state = "remote"
               PROVE  chunks'[j][c].state = "remote" \/ objects'[j].seq # objects[j].seq
    BY DEF RemoteStays
  <2>1. objects[j].seq > 0
    BY DEF RowInv, RowsOfVersions, SeqInv
  <2>2. CASE j = i
    BY <1>4, <1>5, <1>6, <2>2
  <2>3. CASE j # i
    BY <1>1, <1>7, <2>1, <2>3, WithoutRows
  <2> QED
    BY <2>2, <2>3
<1> QED
  BY <1>8, <1>9, <1>10 DEF RowsKept

-----------------------------------------------------------------------------
(* Every step *)

LEMMA RowsHandler ==
  ASSUME RowInv, NEW r \in Requests, Handler(r)
  PROVE  RowsKept
<1>1. FinalId(r, r) \in Ids /\ FinalId(r, Null) \in Ids
  BY FinalIdType DEF RowInv, TypeInv
<1>2. \A k : VersionsOf(k) \in SUBSET Ids
  BY DEF VersionsOf
<1>3. CASE \/ \E k \in Keys : BeginPut(r, k) \/ BeginCopy(r, k) \/ BeginDelete(r, k)
           \/ SpoolChunk(r) \/ AbandonPut(r) \/ RefuseWrite(r)
           \/ RemoveOldSpool(r) \/ RemoveOldBlob(r) \/ DropRequest(r)
  <2>1. UNCHANGED <<objects, clock, chunks>>
    BY <1>3 DEF BeginPut, BeginCopy, BeginDelete, SpoolChunk, AbandonPut, RefuseWrite,
                RemoveOldSpool, RemoveOldBlob, DropRequest, tables
  <2> QED
    BY <2>1, RowsRest
<1>4. CASE CommitPut(r)
  BY <1>1, <1>4, RowsWriteVersion DEF CommitPut
<1>5. CASE CommitCopy(r)
  BY <1>1, <1>5, RowsWriteVersion DEF CommitCopy
<1>6. CASE CommitMarker(r)
  BY <1>1, <1>6, RowsWriteVersion DEF CommitMarker
<1>7. CASE CommitDelete(r) \/ \E k \in Keys : Purge(r, k)
  BY <1>2, <1>7, RowsDropVersions DEF CommitDelete, Purge, DropKey
<1>8. CASE \E i \in Ids : DeleteVersion(r, i)
  BY <1>8, RowsDropVersions DEF DeleteVersion
<1> QED
  BY <1>3, <1>4, <1>5, <1>6, <1>7, <1>8 DEF Handler

LEMMA RowsUploadWorker ==
  ASSUME RowInv, NEW w \in Workers, UploadWorker(w)
  PROVE  RowsKept
<1>1. CASE CommitLocator(w)
  <2>1. wk[w].pc = "sent" /\ UNCHANGED <<objects, clock>>
    BY <1>1 DEF CommitLocator
  <2>2. wk[w] \in Worker /\ wk[w].version \in Ids
    BY <2>1 DEF RowInv, TypeInv, TypeOK, WorkerShape
  <2>3. PICK c \in wk[w].todo : SetLocator(wk[w].version, c, wk[w].loc)
    BY <1>1 DEF CommitLocator
  <2>4. c \in Idx
    BY <2>2, <2>3 DEF Worker
  <2>5. SameRows
    BY <2>2, <2>3, <2>4, RowsSetLocator DEF RowInv, TypeInv
  <2> QED
    BY <2>1, <2>5, RowsUpdate DEF SameSeqs
<1>2. CASE ClearPath(w)
  <2>1. wk[w].pc = "removed" /\ UNCHANGED <<objects, clock>>
    BY <1>2 DEF ClearPath
  <2>2. wk[w] \in Worker /\ wk[w].version \in Ids
    BY <2>1 DEF RowInv, TypeInv, TypeOK, WorkerShape
  <2>3. PICK c \in wk[w].clean : TryClearPath(wk[w].version, c)
    BY <1>2 DEF ClearPath
  <2>4. c \in Idx
    BY <2>2, <2>3 DEF Worker
  <2>5. SameRows
    BY <2>2, <2>3, <2>4, RowsClearPath DEF RowInv, TypeInv
  <2> QED
    BY <2>1, <2>5, RowsUpdate DEF SameSeqs
<1>3. CASE MarkRemote(w)
  BY <1>3, RowsMarkRemote, RowsUpdate DEF RowInv
<1>4. CASE \/ Boot(w) \/ Poll(w) \/ Claim(w) \/ LoseClaim(w) \/ LoadChunks(w) \/ SkipGone(w)
           \/ Upload(w) \/ LackFile(w) \/ FailUpload(w) \/ FindJob(w) \/ EndJob(w)
           \/ RemoveSpool(w) \/ WorkerError(w) \/ ChangeCredentials(w)
  <2>1. UNCHANGED <<objects, clock, chunks>>
    BY <1>4 DEF Boot, Poll, Claim, LoseClaim, LoadChunks, SkipGone, Upload, LackFile, FailUpload,
                FindJob, EndJob, RemoveSpool, WorkerError, ChangeCredentials, tables
  <2> QED
    BY <2>1, RowsRest
<1> QED
  BY <1>1, <1>2, <1>3, <1>4 DEF UploadWorker, WorkerStep

LEMMA RowsGc ==
  ASSUME RowInv, Gc
  PROVE  RowsKept
<1>1. CASE FreeRow
  <2>1. gc.pc = "freed" /\ TryClearPath(gc.row[1], gc.row[2]) /\ UNCHANGED <<objects, clock>>
    BY <1>1 DEF FreeRow
  <2>2. gc.row[1] \in Ids /\ gc.row[2] \in Idx
    BY <2>1 DEF RowInv, TypeInv, GcShape
  <2>3. SameRows
    BY <2>1, <2>2, RowsClearPath DEF RowInv, TypeInv
  <2> QED
    BY <2>1, <2>3, RowsUpdate DEF SameSeqs
<1>2. CASE CollectRemote
  <2>1. UNCHANGED <<objects, clock>>
    BY <1>2 DEF CollectRemote
  <2>2. SameRows
    BY <1>2, RowsCollect DEF RowInv, TypeInv
  <2> QED
    BY <2>1, <2>2, RowsUpdate DEF SameSeqs
<1>3. CASE StartGc \/ FreeFile \/ ReadActive \/ ListSpool \/ SweepFile \/ EndSweep
  BY <1>3, RowsRest DEF StartGc, FreeFile, ReadActive, ListSpool, SweepFile, EndSweep, tables
<1> QED
  BY <1>1, <1>2, <1>3 DEF Gc

LEMMA RowsStep == RowInv /\ [Next]_vars => RowsKept /\ RowInv'
<1> SUFFICES ASSUME RowInv, [Next]_vars
             PROVE  RowsKept /\ RowInv'
  OBVIOUS
<1>1. TypeInv'
  BY TypeStep DEF RowInv
<1>2. RowsKept
  <2>1. CASE \/ \E m \in Modes : SetVersioning(m)
             \/ \E r \in Requests : ExpireLease(r) \/ EndBackoff(r)
             \/ Restart
    BY <2>1, RowsRest DEF SetVersioning, ExpireLease, EndBackoff, Restart, tables
  <2>2. CASE \E r \in Requests : Handler(r)
    BY <2>2, RowsHandler
  <2>3. CASE \E w \in Workers : UploadWorker(w)
    BY <2>3, RowsUploadWorker
  <2>4. CASE Gc
    BY <2>4, RowsGc
  <2>5. CASE UNCHANGED vars
    BY <2>5, RowsRest DEF vars, tables
  <2> QED
    BY <2>1, <2>2, <2>3, <2>4, <2>5 DEF Next
<1> QED
  BY <1>1, <1>2 DEF RowsKept, RowInv

LEMMA RowsInit == Init => RowInv
<1> SUFFICES ASSUME Init
             PROVE  RowInv
  OBVIOUS
<1>1. TypeInv
  BY TypeInit
<1>2. clock = 0 /\ \A i \in Ids : objects[i].seq = 0 /\ objects[i].kind = "none"
  BY DEF Init, NoObject
<1>3. \A i \in Ids, c \in Idx : chunks[i][c].state = "none"
  BY DEF Init, NoChunk
<1> QED
  BY <1>1, <1>2, <1>3 DEF RowInv, SeqInv, RowsOfVersions

\* Rows exist only of versions that exist, and versions are numbered in the
\* order they were committed, through every overwrite, delete and reused id.
THEOREM RowInvariant == Spec => []RowInv
<1>1. RowInv /\ [Next]_vars => RowInv'
  BY RowsStep
<1> QED
  BY <1>1, RowsInit, PTL DEF Spec

\* commit_chunk_locator, clear_chunk_spool_path, GC and a late worker never
\* take a remote row back: only dropping or replacing its version ends it.
THEOREM RemoteRowsAreFinal == Spec => RemoteIsFinal
<1>1. RowInv /\ [Next]_vars =>
        [\A i \in Ids, c \in Idx :
           chunks[i][c].state = "remote" =>
             chunks'[i][c].state = "remote" \/ objects'[i].seq # objects[i].seq]_vars
  BY RowsStep DEF RowsKept, RemoteStays
<1> QED
  BY <1>1, RowInvariant, PTL DEF Spec, RemoteIsFinal
=============================================================================
