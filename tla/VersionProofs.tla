--------------------------- MODULE VersionProofs ---------------------------
(***************************************************************************)
(* What holds of ObjectPipeline as long as no bucket is Suspended: a       *)
(* version that is said to be remote is, and what its chunk rows name has  *)
(* its bytes.  For every workload otherwise, copies and several workers on *)
(* one job included, and for every value of the other constants.           *)
(***************************************************************************)
EXTENDS JobProofs

NeverSuspended == "Suspended" \notin Modes

\* Then a version id is the uuid of one request, written once, in the last
\* transaction of that request; `null` is the id of delete markers only.
JobsOwnId == \A r \in Requests : jobs[r].state # "none" => jobs[r].version = r
WorkersOwnId == \A w \in Workers : wk[w].pc \notin {"boot", "idle"} => wk[w].version = wk[w].job
IdsOfClosed == \A r \in Requests : objects[r].kind # "none" => req[r].pc = "closed"
NullIsMarker == objects[Null].kind # "data"
RowsOfData ==
  \A i \in Ids, c \in Idx : chunks[i][c].state # "none" => objects[i].kind = "data"
EmptyRows ==
  \A i \in Ids, c \in Idx :
    chunks[i][c].state = "none" => chunks[i][c].path = None /\ chunks[i][c].loc = None

IdInv == /\ mode # "Suspended"
         /\ JobsOwnId /\ WorkersOwnId /\ IdsOfClosed /\ NullIsMarker /\ RowsOfData /\ EmptyRows

\* What a copy, and a worker, have read is still true of the rows that are left.
SourceInv ==
  \A r \in Requests : req[r].pc = "ready" /\ req[r].kind = "copy" =>
    LET s == req[r].source IN
    /\ s \in Requests => req[s].pc = "closed"
    /\ \A c \in Idx : HasRow(s, c) => objects[s].data = req[r].data
SnapInv ==
  \A w \in Workers, c \in Idx :
    /\ wk[w].pc \in {"uploading", "sent"}
    /\ HasRow(wk[w].version, c)
    /\ wk[w].snap[c] # None
    => wk[w].snap[c] = <<objects[wk[w].version].data, c>>
SentInv ==
  \A w \in Workers, c \in Idx :
    wk[w].pc = "sent" /\ First(wk[w].todo, c) /\ HasRow(wk[w].version, c) =>
      wk[w].loc[1] = <<objects[wk[w].version].data, c>>

BytesInv == OwnBytes /\ SourceInv /\ SnapInv /\ SentInv

-----------------------------------------------------------------------------
(* What a step may do to a version *)

\* To one of its rows: a worker stores the locator of the message it has sent,
\* a worker or GC clears the path of a file it has removed, GC forgets the
\* locator of a delete marker.
Stores(i, c) ==
  \E w \in Workers :
    /\ wk[w].pc = "sent" /\ wk[w].version = i /\ First(wk[w].todo, c)
    /\ chunks'[i][c] = [chunks[i][c] EXCEPT !.state = "remote", !.loc = wk[w].loc]
Clears(i, c) ==
  /\ \/ \E w \in Workers : wk[w].pc = "removed" /\ wk[w].version = i
     \/ gc.pc = "freed" /\ gc.row = <<i, c>>
  /\ chunks'[i][c] = [chunks[i][c] EXCEPT !.path = None]
Blanks(i, c) ==
  /\ objects[i].kind = "marker"
  /\ chunks'[i][c] = [chunks[i][c] EXCEPT !.loc = None]
RowKeeps(i, c) ==
  \/ chunks'[i][c] = chunks[i][c]
  \/ HasRow(i, c) /\ (Stores(i, c) \/ Clears(i, c))
  \/ Blanks(i, c)

\* To all of it: it is kept (and perhaps marked remote), dropped, or written.
Marks(i) ==
  /\ \E w \in Workers : wk[w].pc = "found" /\ wk[w].version = i
  /\ objects'[i] = [objects[i] EXCEPT !.remote = TRUE]
  /\ objects[i].kind # "none"
Keeps(i) ==
  /\ objects'[i] = objects[i] \/ Marks(i)
  /\ \A c \in Idx : RowKeeps(i, c)
Drops(i) == objects'[i] = NoObject /\ \A c \in Idx : chunks'[i][c] = NoChunk

Wrote(i, kind, data) ==
  /\ objects'[i].kind = kind
  /\ objects'[i].data = data
  /\ objects'[i].remote = FALSE
NewRow(r, c) == [state |-> "pending", path |-> <<r, c>>, loc |-> None]
PutWrites(r, i) ==
  /\ req[r].pc = "writing"
  /\ req[r].written = NumChunks
  /\ i = FinalId(r, r)
  /\ Wrote(i, "data", r)
  /\ \A c \in Idx : chunks'[i][c] = NewRow(r, c)
CopyWrites(r, i) ==
  /\ req[r].pc = "ready"
  /\ req[r].kind = "copy"
  /\ i = FinalId(r, r)
  /\ Wrote(i, "data", req[r].data)
  /\ \A c \in Idx : chunks'[i][c] \in {chunks[req[r].source][c], NoChunk}
MarkWrites(r, i) ==
  /\ req[r].pc = "ready"
  /\ req[r].kind = "delete"
  /\ i = FinalId(r, Null)
  /\ Wrote(i, "marker", None)
  /\ \A c \in Idx : chunks'[i][c] = NoChunk
Writes(r, i) == /\ req'[r].pc = "closed"
                /\ PutWrites(r, i) \/ CopyWrites(r, i) \/ MarkWrites(r, i)

LEMMA NewRowIs ==
  ASSUME NEW r, NEW c
  PROVE  NewRow(r, c).state = "pending" /\ NewRow(r, c).path = <<r, c>> /\ NewRow(r, c).loc = None
  BY DEF NewRow

VersionMoves(i) == Keeps(i) \/ Drops(i) \/ \E r \in Requests : Writes(r, i)

\* To a job: it keeps its version, or is made with it.
JobMoves(r) == jobs'[r].state # "none" =>
                 \/ jobs[r].state # "none" /\ jobs'[r].version = jobs[r].version
                 \/ Writes(r, jobs'[r].version)

TablesMove == /\ mode' \in {mode} \cup Modes
              /\ \A i \in Ids : VersionMoves(i)
              /\ \A r \in Requests : JobMoves(r)

LEMMA SameTables ==
  ASSUME UNCHANGED <<mode, objects, chunks, jobs>>
  PROVE  TablesMove
  BY DEF TablesMove, VersionMoves, Keeps, RowKeeps, JobMoves

LEMMA SameVersions ==
  ASSUME mode' \in {mode} \cup Modes, UNCHANGED <<objects, chunks>>, NoNewJob
  PROVE  TablesMove
  BY DEF TablesMove, VersionMoves, Keeps, RowKeeps, JobMoves, NoNewJob

\* A step that touches one row only.
LEMMA OneRow ==
  ASSUME TypeOK, UNCHANGED <<mode, objects, jobs>>, NEW i \in Ids, NEW c \in Idx, NEW x,
         chunks' = [chunks EXCEPT ![i][c] = x], RowKeeps(i, c)
  PROVE  TablesMove
<1>1. \A j \in Ids, d \in Idx : j # i \/ d # c => chunks'[j][d] = chunks[j][d]
  BY DEF TypeOK
<1>2. \A j \in Ids, d \in Idx : RowKeeps(j, d)
  BY <1>1 DEF RowKeeps
<1>3. \A j \in Ids : VersionMoves(j)
  BY <1>2 DEF VersionMoves, Keeps
<1> QED
  BY <1>3 DEF TablesMove, JobMoves

LEMMA LocatorMoves ==
  ASSUME TypeInv, NEW w \in Workers, CommitLocator(w)
  PROVE  TablesMove
<1> DEFINE i == wk[w].version
<1>1. PICK c \in wk[w].todo : First(wk[w].todo, c) /\ SetLocator(i, c, wk[w].loc)
  BY DEF CommitLocator
<1>2. wk[w].pc = "sent" /\ UNCHANGED <<mode, objects, jobs>>
  BY DEF CommitLocator
<1>3. i \in Ids /\ c \in Idx
  BY <1>1, <1>2 DEF TypeInv, TypeOK, WorkerShape, Worker
<1>4. CASE ~HasRow(i, c)
  BY <1>1, <1>2, <1>4, SameTables DEF SetLocator
<1>5. CASE HasRow(i, c)
  <2> DEFINE x == [chunks[i][c] EXCEPT !.state = "remote", !.loc = wk[w].loc]
  <2>1. chunks' = [chunks EXCEPT ![i][c] = x]
    BY <1>1, <1>5 DEF SetLocator
  <2>2. chunks'[i][c] = x
    BY <1>3, <2>1 DEF TypeInv, TypeOK
  <2>3. Stores(i, c)
    BY <1>1, <1>2, <2>2 DEF Stores
  <2>4. RowKeeps(i, c)
    BY <1>5, <2>3 DEF RowKeeps
  <2> HIDE DEF x, i
  <2> QED
    BY <1>2, <1>3, <2>1, <2>4, OneRow DEF TypeInv
<1> QED
  BY <1>4, <1>5

LEMMA ClearMoves ==
  ASSUME TypeInv, UNCHANGED <<mode, objects, jobs>>, NEW i \in Ids, NEW c \in Idx,
         TryClearPath(i, c),
         \/ \E w \in Workers : wk[w].pc = "removed" /\ wk[w].version = i
         \/ gc.pc = "freed" /\ gc.row = <<i, c>>
  PROVE  TablesMove
<1>1. CASE ~HasRow(i, c) \/ UNCHANGED chunks
  <2>1. UNCHANGED chunks
    BY <1>1 DEF TryClearPath, ClearSpoolPath
  <2> QED
    BY <2>1, SameTables
<1>2. CASE HasRow(i, c) /\ ClearSpoolPath(i, c)
  <2> DEFINE x == [chunks[i][c] EXCEPT !.path = None]
  <2>1. chunks' = [chunks EXCEPT ![i][c] = x]
    BY <1>2 DEF ClearSpoolPath
  <2>2. chunks'[i][c] = x
    BY <2>1 DEF TypeInv, TypeOK
  <2>3. RowKeeps(i, c)
    BY <1>2, <2>2 DEF RowKeeps, Clears
  <2> HIDE DEF x
  <2> QED
    BY <2>1, <2>3, OneRow DEF TypeInv
<1> QED
  BY <1>1, <1>2 DEF TryClearPath

LEMMA CollectMoves ==
  ASSUME CollectRemote
  PROVE  TablesMove
<1>1. \A i \in Ids, c \in Idx : RowKeeps(i, c)
  BY DEF CollectRemote, RowKeeps, Blanks, Deletable
<1>2. \A i \in Ids : VersionMoves(i)
  BY <1>1 DEF VersionMoves, Keeps, CollectRemote
<1> QED
  BY <1>2 DEF TablesMove, JobMoves, CollectRemote

LEMMA MarkRemoteMoves ==
  ASSUME TypeInv, NEW w \in Workers, MarkRemote(w)
  PROVE  TablesMove
<1> DEFINE v == wk[w].version
           x == [objects[v] EXCEPT !.remote = TRUE]
<1>1. wk[w].pc = "found" /\ UNCHANGED <<mode, chunks, jobs>>
  BY DEF MarkRemote
<1>2. \/ objects' = objects
      \/ objects[v].kind # "none" /\ objects' = [objects EXCEPT ![v] = x]
  BY DEF MarkRemote
<1>3. v \in Ids
  BY <1>1 DEF TypeInv, WorkerShape
<1>4. ASSUME NEW i \in Ids
      PROVE  objects'[i] = objects[i] \/ Marks(i)
  <2>1. CASE objects' = objects
    BY <2>1
  <2>2. CASE objects[v].kind # "none" /\ objects' = [objects EXCEPT ![v] = x] /\ i = v
    BY <1>1, <1>3, <2>2 DEF Marks, TypeInv, TypeOK
  <2>3. CASE objects' = [objects EXCEPT ![v] = x] /\ i # v
    BY <2>3 DEF TypeInv, TypeOK
  <2> QED
    BY <1>2, <2>1, <2>2, <2>3
<1>5. \A i \in Ids : VersionMoves(i)
  BY <1>1, <1>4 DEF VersionMoves, Keeps, RowKeeps
<1> QED
  BY <1>1, <1>5 DEF TablesMove, JobMoves

LEMMA WithoutMoves ==
  ASSUME NEW S \in SUBSET Ids
  PROVE  \A i \in Ids :
           \/ ObjectsWithout(S)[i] = objects[i] /\ ChunksWithout(S)[i] = chunks[i]
           \/ /\ ObjectsWithout(S)[i] = NoObject
              /\ \A c \in Idx : ChunksWithout(S)[i][c] = NoChunk
  BY DEF ObjectsWithout, ChunksWithout

LEMMA JobsWithoutMoves ==
  ASSUME NEW S \in SUBSET Ids
  PROVE  \A r \in Requests : JobsWithout(S)[r].state # "none" => JobsWithout(S)[r] = jobs[r]
  BY DEF JobsWithout, NoJob

LEMMA DropMoves ==
  ASSUME NEW S \in SUBSET Ids, DropVersions(S)
  PROVE  TablesMove
<1>1. /\ objects' = ObjectsWithout(S) /\ chunks' = ChunksWithout(S) /\ jobs' = JobsWithout(S)
      /\ mode' = mode
  BY DEF DropVersions
<1>2. \A i \in Ids : VersionMoves(i)
  BY <1>1, WithoutMoves DEF VersionMoves, Keeps, Drops, RowKeeps
<1>3. \A r \in Requests : JobMoves(r)
  BY <1>1, JobsWithoutMoves DEF JobMoves
<1> QED
  BY <1>1, <1>2, <1>3 DEF TablesMove

LEMMA WriteMoves ==
  ASSUME TypeInv, NEW r \in Requests, NEW i \in Ids, NEW k, NEW kind, NEW data, NEW rows,
         NEW queued, WriteVersion(r, i, k, kind, data, rows, queued),
         objects'[i].kind = kind /\ objects'[i].data = data /\ objects'[i].remote = FALSE
           /\ chunks'[i] = rows => Writes(r, i)
  PROVE  TablesMove
<1> DEFINE S == Replaced(k)
           row == [kind |-> kind, key |-> k, remote |-> FALSE, seq |-> clock + 1, data |-> data]
           job == [state |-> "pending", version |-> i, leased |-> FALSE, due |-> TRUE]
<1>1. S \in SUBSET Ids
  BY ReplacedType DEF TypeInv
<1>2. /\ objects' = [ObjectsWithout(S) EXCEPT ![i] = row]
      /\ chunks' = [ChunksWithout(S) EXCEPT ![i] = rows]
      /\ jobs' = [JobsWithout(S) EXCEPT ![r] = job] \/ jobs' = JobsWithout(S)
      /\ mode' = mode
  BY DEF WriteVersion
<1>3. /\ ObjectsWithout(S) \in [Ids -> ObjectRow]
      /\ ChunksWithout(S) \in [Ids -> [Idx -> ChunkRow]]
      /\ JobsWithout(S) \in [Requests -> JobRow]
  BY <1>1, WithoutType DEF TypeInv
<1>4. objects'[i] = row /\ chunks'[i] = rows
  BY <1>2, <1>3
<1>5. row.kind = kind /\ row.data = data /\ row.remote = FALSE
  OBVIOUS
<1>6. Writes(r, i)
  BY <1>4, <1>5
<1>7. job.version = i
  OBVIOUS
<1> HIDE DEF row, job, S
<1>8. \A j \in Ids : j # i => objects'[j] = ObjectsWithout(S)[j] /\ chunks'[j] = ChunksWithout(S)[j]
  BY <1>2, <1>3
<1>9. \A j \in Ids : VersionMoves(j)
  BY <1>1, <1>6, <1>8, WithoutMoves DEF VersionMoves, Keeps, Drops, RowKeeps
<1>10. \A q \in Requests : JobMoves(q)
  <2> SUFFICES ASSUME NEW q \in Requests, jobs'[q].state # "none"
               PROVE  \/ jobs[q].state # "none" /\ jobs'[q].version = jobs[q].version
                      \/ Writes(q, jobs'[q].version)
    BY DEF JobMoves
  <2>1. CASE jobs'[q] = JobsWithout(S)[q]
    BY <1>1, <2>1, JobsWithoutMoves
  <2>2. CASE q = r /\ jobs'[q] = job
    BY <1>6, <1>7, <2>2
  <2> QED
    BY <1>2, <1>3, <2>1, <2>2
<1> QED
  BY <1>2, <1>9, <1>10 DEF TablesMove

LEMMA HandlerMoves ==
  ASSUME TypeInv, NEW r \in Requests, Handler(r)
  PROVE  TablesMove
<1>1. FinalId(r, r) \in Ids /\ FinalId(r, Null) \in Ids
  BY FinalIdType DEF TypeInv
<1>2. \A k : VersionsOf(k) \in SUBSET Ids
  BY DEF VersionsOf
<1>3. CASE \/ \E k \in Keys : BeginPut(r, k) \/ BeginCopy(r, k) \/ BeginDelete(r, k)
           \/ SpoolChunk(r) \/ AbandonPut(r) \/ RefuseWrite(r)
           \/ RemoveOldSpool(r) \/ RemoveOldBlob(r) \/ DropRequest(r)
  <2>1. UNCHANGED <<mode, objects, chunks, jobs>>
    BY <1>3 DEF BeginPut, BeginCopy, BeginDelete, SpoolChunk, AbandonPut, RefuseWrite,
                RemoveOldSpool, RemoveOldBlob, DropRequest, tables
  <2> QED
    BY <2>1, SameTables
<1>4. CASE CommitPut(r)
  <2> DEFINE rows == [c \in Idx |-> [state |-> "pending", path |-> <<r, c>>, loc |-> None]]
  <2>1. /\ WriteVersion(r, FinalId(r, r), req[r].key, "data", r, rows, TRUE)
        /\ req'[r].pc = "closed"
    BY <1>4, LeaveCloses DEF CommitPut
  <2>2. ASSUME Wrote(FinalId(r, r), "data", r), chunks'[FinalId(r, r)] = rows
        PROVE  Writes(r, FinalId(r, r))
    BY <1>4, <2>1, <2>2 DEF Writes, PutWrites, CommitPut, NewRow
  <2> HIDE DEF rows
  <2> QED
    BY <1>1, <2>1, <2>2, WriteMoves DEF Wrote
<1>5. CASE CommitCopy(r)
  <2> DEFINE rows == ChunksWithout(Replaced(req[r].key))[req[r].source]
             queued == \E c \in Idx : rows[c].state = "pending"
  <2>1. /\ WriteVersion(r, FinalId(r, r), req[r].key, "data", req[r].data, rows, queued)
        /\ req'[r].pc = "closed"
    BY <1>5, LeaveCloses DEF CommitCopy
  <2>2. \A c \in Idx : rows[c] \in {chunks[req[r].source][c], NoChunk}
    BY <1>5 DEF CommitCopy, TypeInv, RequestShape, ChunksWithout
  <2>3. ASSUME Wrote(FinalId(r, r), "data", req[r].data), chunks'[FinalId(r, r)] = rows
        PROVE  Writes(r, FinalId(r, r))
    BY <1>5, <2>1, <2>2, <2>3 DEF Writes, CopyWrites, CommitCopy
  <2> HIDE DEF rows, queued
  <2> QED
    BY <1>1, <2>1, <2>3, WriteMoves DEF Wrote
<1>6. CASE CommitMarker(r)
  <2> DEFINE rows == [c \in Idx |-> NoChunk]
  <2>1. /\ WriteVersion(r, FinalId(r, Null), req[r].key, "marker", None, rows, FALSE)
        /\ RequestBecomes(r, Closed)
    BY <1>6 DEF CommitMarker
  <2>3. req'[r].pc = "closed"
    BY <2>1 DEF RequestBecomes, Closed, NewRequest, TypeInv, TypeOK
  <2>2. ASSUME Wrote(FinalId(r, Null), "marker", None), chunks'[FinalId(r, Null)] = rows
        PROVE  Writes(r, FinalId(r, Null))
    BY <1>6, <2>2, <2>3 DEF Writes, MarkWrites, CommitMarker
  <2> HIDE DEF rows
  <2> QED
    BY <1>1, <2>1, <2>2, WriteMoves DEF Wrote
<1>7. CASE CommitDelete(r) \/ \E k \in Keys : Purge(r, k)
  BY <1>2, <1>7, DropMoves DEF CommitDelete, Purge, DropKey
<1>8. CASE \E i \in Ids : DeleteVersion(r, i)
  BY <1>8, DropMoves DEF DeleteVersion
<1> QED
  BY <1>3, <1>4, <1>5, <1>6, <1>7, <1>8 DEF Handler

LEMMA SetJobMoves ==
  ASSUME NEW r, NEW state, NEW due, TypeOK, jobs' = SetJob(r, state, due)
  PROVE  NoNewJob
<1>1. CASE jobs[r].state = "none"
  BY <1>1 DEF SetJob, NoNewJob
<1>2. CASE jobs[r].state # "none"
  <2> DEFINE x == [jobs[r] EXCEPT !.state = state, !.leased = FALSE, !.due = due]
  <2>1. jobs' = [jobs EXCEPT ![r] = x]
    BY <1>2 DEF SetJob
  <2>2. r \in Requests => x.version = jobs[r].version
    BY DEF TypeOK, JobRow
  <2> HIDE DEF x
  <2> QED
    BY <1>2, <2>1, <2>2 DEF NoNewJob, TypeOK
<1> QED
  BY <1>1, <1>2

LEMMA OneJobMoves ==
  ASSUME TypeOK, NEW r \in Requests, jobs[r].state # "none", NEW x,
         x.version = jobs[r].version, jobs' = [jobs EXCEPT ![r] = x]
  PROVE  NoNewJob
  BY DEF TypeOK, NoNewJob

LEMMA WorkerMovesTables ==
  ASSUME TypeInv, NEW w \in Workers, UploadWorker(w)
  PROVE  TablesMove
<1>1. CASE \/ Poll(w) \/ LoseClaim(w) \/ LoadChunks(w) \/ Upload(w) \/ LackFile(w) \/ FindJob(w)
           \/ RemoveSpool(w) \/ WorkerError(w) \/ ChangeCredentials(w)
  <2>1. UNCHANGED <<mode, objects, chunks, jobs>>
    BY <1>1 DEF Poll, LoseClaim, LoadChunks, Upload, LackFile, FindJob, RemoveSpool, WorkerError,
                ChangeCredentials, tables
  <2> QED
    BY <2>1, SameTables
<1>2. CASE SkipGone(w) \/ FailUpload(w) \/ EndJob(w)
  <2>1. UNCHANGED <<mode, objects, chunks>>
    BY <1>2 DEF SkipGone, FailUpload, EndJob
  <2>2. \E state, due : jobs' = SetJob(wk[w].job, state, due)
    BY <1>2 DEF SkipGone, FailUpload, EndJob
  <2> QED
    BY <2>1, <2>2, SetJobMoves, SameVersions DEF TypeInv
<1>3. CASE Boot(w)
  <2>1. \A r \in Requests : [jobs[r] EXCEPT !.state = "pending"].version = jobs[r].version
    BY DEF TypeInv, TypeOK, JobRow
  <2>2. NoNewJob
    BY <1>3, <2>1 DEF Boot, NoNewJob
  <2> QED
    BY <1>3, <2>2, SameVersions DEF Boot
<1>4. CASE Claim(w)
  <2> DEFINE r == wk[w].job
             x == [jobs[r] EXCEPT !.state = "uploading", !.leased = TRUE]
  <2>1. r \in Requests /\ jobs[r].state # "none" /\ jobs' = [jobs EXCEPT ![r] = x]
    BY <1>4 DEF Claim, Claimable, TypeInv, WorkerShape
  <2>2. x.version = jobs[r].version
    BY <2>1 DEF TypeInv, TypeOK, JobRow
  <2> HIDE DEF x, r
  <2>3. NoNewJob
    BY <2>1, <2>2, OneJobMoves DEF TypeInv
  <2> QED
    BY <1>4, <2>3, SameVersions DEF Claim
<1>5. CASE CommitLocator(w)
  BY <1>5, LocatorMoves
<1>6. CASE MarkRemote(w)
  BY <1>6, MarkRemoteMoves
<1>7. CASE ClearPath(w)
  <2>1. /\ wk[w].pc = "removed" /\ UNCHANGED <<mode, objects, jobs>>
        /\ \E c \in wk[w].clean : TryClearPath(wk[w].version, c)
    BY <1>7 DEF ClearPath
  <2>2. wk[w].version \in Ids /\ wk[w].clean \subseteq Idx
    BY <2>1 DEF TypeInv, TypeOK, WorkerShape, Worker
  <2> QED
    BY <2>1, <2>2, ClearMoves
<1> QED
  BY <1>1, <1>2, <1>3, <1>4, <1>5, <1>6, <1>7 DEF UploadWorker, WorkerStep

LEMMA GcMoves ==
  ASSUME TypeInv, Gc
  PROVE  TablesMove
<1>1. CASE StartGc \/ FreeFile \/ ReadActive \/ ListSpool \/ SweepFile \/ EndSweep
  BY <1>1, SameTables DEF StartGc, FreeFile, ReadActive, ListSpool, SweepFile, EndSweep, tables
<1>2. CASE FreeRow
  <2>1. gc.pc = "freed" /\ UNCHANGED <<mode, objects, jobs>> /\ TryClearPath(gc.row[1], gc.row[2])
    BY <1>2 DEF FreeRow
  <2>2. gc.row \in Ids \X Idx
    BY <2>1 DEF TypeInv, GcShape
  <2>3. gc.row[1] \in Ids /\ gc.row[2] \in Idx /\ gc.row = <<gc.row[1], gc.row[2]>>
    BY <2>2
  <2> QED
    BY <2>1, <2>3, ClearMoves
<1> QED
  BY <1>1, <1>2, CollectMoves DEF Gc

LEMMA EveryTableMove ==
  ASSUME TypeInv, [Next]_vars
  PROVE  TablesMove
<1>1. CASE \E m \in Modes : SetVersioning(m)
  BY <1>1, SameVersions DEF SetVersioning, NoNewJob
<1>2. CASE \E r \in Requests : ExpireLease(r) \/ EndBackoff(r)
  <2> PICK r \in Requests : ExpireLease(r) \/ EndBackoff(r)
    BY <1>2
  <2>1. \E x : /\ x.version = jobs[r].version /\ jobs[r].state # "none"
               /\ jobs' = [jobs EXCEPT ![r] = x]
    <3>1. /\ [jobs[r] EXCEPT !.leased = FALSE].version = jobs[r].version
          /\ [jobs[r] EXCEPT !.due = TRUE].version = jobs[r].version
      BY DEF TypeInv, TypeOK, JobRow
    <3> QED
      BY <3>1 DEF ExpireLease, EndBackoff
  <2>2. NoNewJob
    BY <2>1, OneJobMoves DEF TypeInv
  <2> QED
    BY <2>2, SameVersions DEF ExpireLease, EndBackoff
<1>3. CASE Restart \/ UNCHANGED vars
  BY <1>3, SameTables DEF Restart, vars, tables
<1> QED
  BY <1>1, <1>2, <1>3, HandlerMoves, WorkerMovesTables, GcMoves DEF Next


(* What a step may do to a worker, and to a request *)

SameJob(w) == wk'[w].job = wk[w].job /\ wk'[w].version = wk[w].version
SameSnap(w) == SameJob(w) /\ wk'[w].snap = wk[w].snap
Goes(w, from, to) == wk[w].pc = from /\ wk'[w].pc = to

Rests(w) == wk'[w].pc \in {"boot", "idle"}
Polls(w) == /\ Goes(w, "idle", "selected")
            /\ wk'[w].job \in Requests
            /\ jobs[wk'[w].job].state # "none"
            /\ wk'[w].version = jobs[wk'[w].job].version
Claims(w) == Goes(w, "selected", "claimed") /\ SameJob(w)
Loads(w) == /\ Goes(w, "claimed", "uploading")
            /\ SameJob(w)
            /\ wk'[w].snap = [c \in Idx |-> chunks[wk[w].version][c].path]
Sends(w) == /\ Goes(w, "uploading", "sent")
            /\ SameSnap(w)
            /\ wk'[w].todo = wk[w].todo
            /\ wk'[w].loc \in blobs'
            /\ \E c \in wk[w].todo : /\ First(wk[w].todo, c)
                                     /\ wk[w].snap[c] \in spool
                                     /\ wk'[w].loc[1] = wk[w].snap[c]
Commits(w) == Goes(w, "sent", "uploading") /\ SameSnap(w)
Finds(w) == /\ Goes(w, "uploading", "found") \/ Goes(w, "uploading", "marked")
            /\ SameSnap(w)
Finishes(w) == Goes(w, "found", "marked") /\ SameSnap(w)
StartsCleaning(w) == Goes(w, "marked", "cleaning") /\ SameSnap(w)
Cleans(w) == /\ Goes(w, "cleaning", "removed") \/ Goes(w, "removed", "cleaning")
             /\ SameSnap(w)

WorkerMoves(w) ==
  \/ wk'[w] = wk[w] \/ Rests(w) \/ Polls(w) \/ Claims(w) \/ Loads(w) \/ Sends(w) \/ Commits(w)
  \/ Finds(w) \/ Finishes(w) \/ StartsCleaning(w) \/ Cleans(w)

LEMMA Becomes ==
  ASSUME TypeOK, NEW w \in Workers, NEW x, WorkerBecomes(w, x)
  PROVE  wk'[w] = x /\ \A q \in Workers : q # w => wk'[q] = wk[q]
  BY DEF WorkerBecomes, TypeOK

LEMMA RestMoves ==
  ASSUME TypeOK, NEW w \in Workers,
         WorkerBecomes(w, WorkerAt("idle")) \/ WorkerBecomes(w, WorkerAt("boot"))
  PROVE  \A q \in Workers : WorkerMoves(q)
<1>1. Rests(w) /\ \A q \in Workers : q # w => wk'[q] = wk[q]
  BY Becomes DEF Rests, WorkerAt
<1> QED
  BY <1>1 DEF WorkerMoves

LEMMA UploadMoves ==
  ASSUME TypeInv, NEW w \in Workers, Upload(w)
  PROVE  Sends(w) /\ \A q \in Workers : q # w => wk'[q] = wk[q]
<1>1. PICK c \in wk[w].todo :
         /\ NextChunk(w, c)
         /\ wk[w].snap[c] \in spool
         /\ StoreMessage(wk[w].snap[c])
         /\ WorkerBecomes(w, [wk[w] EXCEPT !.pc = "sent",
                                           !.loc = <<wk[w].snap[c], sent[wk[w].snap[c]] + 1>>])
  BY DEF Upload
<1> DEFINE l == <<wk[w].snap[c], sent[wk[w].snap[c]] + 1>>
           x == [wk[w] EXCEPT !.pc = "sent", !.loc = l]
<1>2. l \in blobs' /\ l[1] = wk[w].snap[c]
  BY <1>1 DEF StoreMessage
<1> HIDE DEF l
<1>3. wk'[w] = x /\ \A q \in Workers : q # w => wk'[q] = wk[q]
  BY <1>1, Becomes DEF TypeInv, l
<1>4. /\ x.pc = "sent" /\ x.loc = l /\ x.job = wk[w].job /\ x.version = wk[w].version
      /\ x.snap = wk[w].snap /\ x.todo = wk[w].todo
  BY DEF TypeInv, TypeOK, Worker
<1> HIDE DEF x
<1>5. Sends(w)
  BY <1>1, <1>2, <1>3, <1>4 DEF Sends, Goes, SameSnap, SameJob, NextChunk
<1> QED
  BY <1>3, <1>5

LEMMA EveryWorkerMove ==
  ASSUME TypeInv, NEW w \in Workers, UploadWorker(w)
  PROVE  \A q \in Workers : WorkerMoves(q)
<1>1. wk[w] \in Worker
  BY DEF TypeInv, TypeOK
<1>2. CASE \/ WorkerBecomes(w, WorkerAt("idle")) \/ WorkerBecomes(w, WorkerAt("boot"))
  BY <1>2, RestMoves DEF TypeInv
<1>3. CASE Poll(w)
  <2> PICK r \in Requests :
         /\ Claimable(r)
         /\ WorkerBecomes(w, [wk[w] EXCEPT !.pc = "selected", !.job = r,
                                           !.version = jobs[r].version])
    BY <1>3 DEF Poll
  <2>1. /\ wk'[w] = [wk[w] EXCEPT !.pc = "selected", !.job = r, !.version = jobs[r].version]
        /\ \A q \in Workers : q # w => wk'[q] = wk[q]
    BY Becomes DEF TypeInv
  <2>2. Polls(w)
    BY <1>1, <1>3, <2>1 DEF Polls, Poll, Goes, Claimable, Worker
  <2> QED
    BY <2>1, <2>2 DEF WorkerMoves
<1>4. CASE Upload(w)
  BY <1>4, UploadMoves DEF WorkerMoves
<1>5. CASE LoadChunks(w)
  <2> DEFINE v == wk[w].version
             snap == [c \in Idx |-> chunks[v][c].path]
             todo == {c \in Idx : chunks[v][c].state = "pending"}
             x == [wk[w] EXCEPT !.pc = "uploading", !.todo = todo, !.snap = snap]
  <2>1. WorkerBecomes(w, x)
    BY <1>5 DEF LoadChunks
  <2>2. wk'[w] = x /\ \A q \in Workers : q # w => wk'[q] = wk[q]
    BY <2>1, Becomes DEF TypeInv
  <2> HIDE DEF todo, snap
  <2>3. /\ x.pc = "uploading" /\ x.job = wk[w].job /\ x.version = wk[w].version
        /\ x.snap = snap
    BY <1>1 DEF Worker
  <2> HIDE DEF x
  <2>4. Loads(w)
    BY <1>5, <2>2, <2>3 DEF Loads, LoadChunks, Goes, SameJob, snap
  <2> QED
    BY <2>2, <2>4 DEF WorkerMoves
<1>6. CASE Claim(w) \/ FindJob(w) \/ MarkRemote(w) \/ RemoveSpool(w)
  <2>1. PICK pc :
          /\ WorkerBecomes(w, [wk[w] EXCEPT !.pc = pc])
          /\ \/ wk[w].pc = "selected" /\ pc = "claimed"
             \/ wk[w].pc = "uploading" /\ pc \in {"found", "marked"}
             \/ wk[w].pc = "found" /\ pc = "marked"
             \/ wk[w].pc = "cleaning" /\ pc = "removed"
    <3>1. CASE Claim(w)
      BY <3>1 DEF Claim
    <3>2. CASE FindJob(w)
      BY <3>2 DEF FindJob
    <3>3. CASE MarkRemote(w)
      BY <3>3 DEF MarkRemote
    <3>4. CASE RemoveSpool(w)
      BY <3>4 DEF RemoveSpool
    <3> QED
      BY <1>6, <3>1, <3>2, <3>3, <3>4
  <2> DEFINE x == [wk[w] EXCEPT !.pc = pc]
  <2>2. wk'[w] = x /\ \A q \in Workers : q # w => wk'[q] = wk[q]
    BY <2>1, Becomes DEF TypeInv
  <2>3. x.pc = pc /\ x.job = wk[w].job /\ x.version = wk[w].version /\ x.snap = wk[w].snap
    BY <1>1 DEF Worker
  <2> HIDE DEF x
  <2>4. Claims(w) \/ Finds(w) \/ Finishes(w) \/ Cleans(w)
    BY <2>1, <2>2, <2>3 DEF Claims, Finds, Finishes, Cleans, Goes, SameJob, SameSnap
  <2> QED
    BY <2>2, <2>4 DEF WorkerMoves
<1>9. CASE CommitLocator(w)
  <2> PICK todo : WorkerBecomes(w, [wk[w] EXCEPT !.pc = "uploading", !.todo = todo, !.loc = None])
    BY <1>9 DEF CommitLocator
  <2> DEFINE x == [wk[w] EXCEPT !.pc = "uploading", !.todo = todo, !.loc = None]
  <2>1. wk'[w] = x /\ \A q \in Workers : q # w => wk'[q] = wk[q]
    BY Becomes DEF TypeInv
  <2>2. /\ x.pc = "uploading" /\ x.job = wk[w].job /\ x.version = wk[w].version
        /\ x.snap = wk[w].snap
    BY <1>1 DEF Worker
  <2> HIDE DEF x
  <2>3. Commits(w)
    BY <1>9, <2>1, <2>2 DEF CommitLocator, Commits, Goes, SameJob, SameSnap
  <2> QED
    BY <2>1, <2>3 DEF WorkerMoves
<1>7. CASE EndJob(w) \/ ClearPath(w)
  <2>1. SUFFICES ASSUME NEW clean, WorkerBecomes(w, [wk[w] EXCEPT !.pc = "cleaning", !.clean = clean])
                 PROVE  \A q \in Workers : WorkerMoves(q)
    BY <1>2, <1>7 DEF EndJob, ClearPath
  <2> DEFINE x == [wk[w] EXCEPT !.pc = "cleaning", !.clean = clean]
  <2>2. wk'[w] = x /\ \A q \in Workers : q # w => wk'[q] = wk[q]
    BY <2>1, Becomes DEF TypeInv
  <2>3. x.pc = "cleaning" /\ x.job = wk[w].job /\ x.version = wk[w].version /\ x.snap = wk[w].snap
    BY <1>1 DEF Worker
  <2> HIDE DEF x
  <2>4. StartsCleaning(w) \/ Cleans(w)
    BY <1>7, <2>2, <2>3 DEF EndJob, ClearPath, StartsCleaning, Cleans, Goes, SameJob, SameSnap
  <2> QED
    BY <2>2, <2>4 DEF WorkerMoves
<1>8. CASE \/ Boot(w) \/ LoseClaim(w) \/ SkipGone(w) \/ LackFile(w) \/ FailUpload(w)
           \/ WorkerError(w) \/ ChangeCredentials(w)
  BY <1>2, <1>8 DEF Boot, LoseClaim, SkipGone, LackFile, FailUpload, WorkerError,
                    ChangeCredentials, GoIdle
<1> QED
  BY <1>3, <1>4, <1>5, <1>6, <1>7, <1>8, <1>9 DEF UploadWorker, WorkerStep

LEMMA WorkersMove ==
  ASSUME TypeInv, [Next]_vars
  PROVE  \A w \in Workers : WorkerMoves(w)
<1>1. CASE \E w \in Workers : UploadWorker(w)
  BY <1>1, EveryWorkerMove
<1>2. CASE Restart
  BY <1>2 DEF Restart, WorkerMoves, Rests, WorkerAt
<1>3. CASE \/ \E m \in Modes : SetVersioning(m)
           \/ \E r \in Requests : ExpireLease(r) \/ EndBackoff(r)
           \/ UNCHANGED vars
  BY <1>3 DEF SetVersioning, ExpireLease, EndBackoff, vars, WorkerMoves
<1>4. CASE \E r \in Requests : Handler(r)
  BY <1>4 DEF Handler, BeginPut, BeginCopy, BeginDelete, Purge, SpoolChunk, CommitPut, AbandonPut,
              CommitCopy, CommitMarker, RefuseWrite, CommitDelete, DeleteVersion, RemoveOldSpool,
              RemoveOldBlob, DropRequest, DropKey, WorkerMoves
<1>5. CASE Gc
  BY <1>5 DEF Gc, StartGc, FreeFile, FreeRow, ReadActive, ListSpool, SweepFile, EndSweep,
              CollectRemote, WorkerMoves
<1> QED
  BY <1>1, <1>2, <1>3, <1>4, <1>5 DEF Next

SameLeft(r) == req'[r].rm = req[r].rm /\ req'[r].rmBlobs = req[r].rmBlobs
Opens(r, pc, kind) == /\ req[r].pc = "idle" /\ kind \in Kinds
                      /\ req'[r].pc = pc /\ req'[r].kind = kind
                      /\ SameLeft(r)

Stays(r) == /\ req'[r].pc = req[r].pc /\ req'[r].kind = req[r].kind
            /\ req'[r].source = req[r].source /\ req'[r].data = req[r].data
            /\ req'[r].written = req[r].written
            /\ req'[r].rm \subseteq req[r].rm /\ req'[r].rmBlobs \subseteq req[r].rmBlobs
Closes(r) == req'[r].pc = "closed"
StartsPut(r) == /\ Opens(r, "writing", "put")
                /\ req'[r].written = req[r].written
                /\ SweepWhileWriting \/ gc.pc \notin {"listing", "sweeping"}
                /\ gc' = gc
Spools(r) == /\ req[r].pc = "writing" /\ req'[r].pc = "writing"
             /\ req'[r].written = req[r].written + 1
             /\ spool' = spool \cup {<<r, req[r].written + 1>>}
             /\ SameLeft(r)
StartsCopy(r) == /\ Opens(r, "ready", "copy")
                 /\ req'[r].source \in Ids
                 /\ objects[req'[r].source].kind # "none"
                 /\ req'[r].data = objects[req'[r].source].data
StartsDelete(r) == Opens(r, "ready", "delete")

RequestMoves(r) ==
  Stays(r) \/ Closes(r) \/ StartsPut(r) \/ Spools(r) \/ StartsCopy(r) \/ StartsDelete(r)

LEMMA RequestIs ==
  ASSUME TypeOK, NEW r \in Requests, NEW x, RequestBecomes(r, x)
  PROVE  req'[r] = x /\ \A q \in Requests : q # r => req'[q] = req[q]
  BY DEF RequestBecomes, TypeOK

LEMMA EveryRequestMove ==
  ASSUME TypeInv, NEW r \in Requests, Handler(r)
  PROVE  \A q \in Requests : RequestMoves(q)
<1>1. req[r] \in Request
  BY DEF TypeInv, TypeOK
<1>2. SUFFICES /\ \A q \in Requests : q # r => req'[q] = req[q]
               /\ RequestMoves(r)
  BY DEF RequestMoves, Stays
<1>3. ASSUME NEW files, NEW locators, Leave(r, files, locators)
      PROVE  Closes(r) /\ \A q \in Requests : q # r => req'[q] = req[q]
  <2> DEFINE y == [Closed EXCEPT !.rm = files, !.rmBlobs = locators]
  <2>2. y.pc = "closed" /\ Closed.pc = "closed"
    BY DEF Closed, NewRequest
  <2>3. RequestBecomes(r, y) \/ RequestBecomes(r, Closed)
    BY <1>3 DEF Leave
  <2> HIDE DEF y
  <2>1. PICK x : RequestBecomes(r, x) /\ x.pc = "closed"
    BY <2>2, <2>3
  <2> QED
    BY <2>1, RequestIs DEF Closes, TypeInv
<1>4. ASSUME RequestBecomes(r, Closed)
      PROVE  Closes(r) /\ \A q \in Requests : q # r => req'[q] = req[q]
  BY <1>4, RequestIs DEF Closes, Closed, NewRequest, TypeInv
<1>5. CASE \/ CommitPut(r) \/ CommitCopy(r) \/ CommitDelete(r)
           \/ \E k \in Keys : Purge(r, k)
           \/ \E i \in Ids : DeleteVersion(r, i)
  <2>1. \E files, locators : Leave(r, files, locators)
    BY <1>5 DEF CommitPut, CommitCopy, CommitDelete, Purge, DropKey, DeleteVersion
  <2> QED
    BY <1>3, <2>1 DEF RequestMoves
<1>6. CASE AbandonPut(r) \/ CommitMarker(r) \/ RefuseWrite(r) \/ DropRequest(r)
  BY <1>4, <1>6 DEF AbandonPut, CommitMarker, RefuseWrite, DropRequest, RequestMoves
<1>7. CASE SpoolChunk(r)
  <2> DEFINE x == [req[r] EXCEPT !.written = @ + 1]
  <2>1. RequestBecomes(r, x)
    BY <1>7 DEF SpoolChunk
  <2>2. x.pc = req[r].pc /\ x.written = req[r].written + 1 /\ x.rm = req[r].rm
          /\ x.rmBlobs = req[r].rmBlobs
    BY <1>1 DEF Request
  <2> HIDE DEF x
  <2> QED
    BY <1>7, <2>1, <2>2, RequestIs DEF SpoolChunk, RequestMoves, Spools, SameLeft, TypeInv
<1>8. ASSUME NEW k \in Keys, BeginPut(r, k)
      PROVE  StartsPut(r) /\ \A q \in Requests : q # r => req'[q] = req[q]
  <2> DEFINE x == [req[r] EXCEPT !.pc = "writing", !.kind = "put", !.key = k]
  <2>1. RequestBecomes(r, x)
    BY <1>8 DEF BeginPut
  <2>2. x.pc = "writing" /\ x.kind = "put" /\ x.written = req[r].written /\ x.rm = req[r].rm
          /\ x.rmBlobs = req[r].rmBlobs
    BY <1>1 DEF Request
  <2> HIDE DEF x
  <2> QED
    BY <1>8, <2>1, <2>2, RequestIs DEF BeginPut, StartsPut, Opens, SameLeft, TypeInv
<1>9. ASSUME NEW k \in Keys, BeginCopy(r, k)
      PROVE  StartsCopy(r) /\ \A q \in Requests : q # r => req'[q] = req[q]
  <2> PICK i \in Ids, s \in Keys :
        /\ IsLatest(i, s)
        /\ RequestBecomes(r, [req[r] EXCEPT !.pc = "ready", !.kind = "copy", !.key = k,
                                            !.source = i, !.data = objects[i].data])
    BY <1>9 DEF BeginCopy
  <2> DEFINE d == objects[i].data
             x == [req[r] EXCEPT !.pc = "ready", !.kind = "copy", !.key = k,
                                 !.source = i, !.data = d]
  <2>1. x.pc = "ready" /\ x.kind = "copy" /\ x.source = i /\ x.data = d /\ x.rm = req[r].rm
          /\ x.rmBlobs = req[r].rmBlobs
    BY <1>1 DEF Request
  <2>2. objects[i].kind # "none"
    BY DEF IsLatest, VersionsOf
  <2>3. req'[r] = x /\ \A q \in Requests : q # r => req'[q] = req[q]
    BY RequestIs DEF TypeInv
  <2> HIDE DEF x
  <2> QED
    BY <1>9, <2>1, <2>2, <2>3 DEF BeginCopy, StartsCopy, Opens, SameLeft
<1>10. ASSUME NEW k \in Keys, BeginDelete(r, k)
       PROVE  StartsDelete(r) /\ \A q \in Requests : q # r => req'[q] = req[q]
  <2> PICK m : RequestBecomes(r, [req[r] EXCEPT !.pc = "ready", !.kind = "delete", !.key = k,
                                                !.mode = m])
    BY <1>10 DEF BeginDelete
  <2> DEFINE x == [req[r] EXCEPT !.pc = "ready", !.kind = "delete", !.key = k, !.mode = m]
  <2>1. x.pc = "ready" /\ x.kind = "delete" /\ x.rm = req[r].rm /\ x.rmBlobs = req[r].rmBlobs
    BY <1>1 DEF Request
  <2>2. req'[r] = x /\ \A q \in Requests : q # r => req'[q] = req[q]
    BY RequestIs DEF TypeInv
  <2> HIDE DEF x
  <2> QED
    BY <1>10, <2>1, <2>2 DEF BeginDelete, StartsDelete, Opens, SameLeft
<1>11. CASE RemoveOldSpool(r) \/ RemoveOldBlob(r)
  <2>1. PICK files, locators :
          /\ files \subseteq req[r].rm /\ locators \subseteq req[r].rmBlobs
          /\ RequestBecomes(r, [req[r] EXCEPT !.rm = files, !.rmBlobs = locators])
    <3>1. CASE RemoveOldSpool(r)
      <4> PICK p : RequestBecomes(r, [req[r] EXCEPT !.rm = @ \ {p}])
        BY <3>1 DEF RemoveOldSpool
      <4>1. [req[r] EXCEPT !.rm = @ \ {p}]
              = [req[r] EXCEPT !.rm = req[r].rm \ {p}, !.rmBlobs = req[r].rmBlobs]
        BY <1>1 DEF Request
      <4> QED
        BY <4>1
    <3>2. CASE RemoveOldBlob(r)
      <4> PICK l : RequestBecomes(r, [req[r] EXCEPT !.rmBlobs = @ \ {l}])
        BY <3>2 DEF RemoveOldBlob
      <4>1. [req[r] EXCEPT !.rmBlobs = @ \ {l}]
              = [req[r] EXCEPT !.rm = req[r].rm, !.rmBlobs = req[r].rmBlobs \ {l}]
        BY <1>1 DEF Request
      <4> QED
        BY <4>1
    <3> QED
      BY <1>11, <3>1, <3>2
  <2> DEFINE x == [req[r] EXCEPT !.rm = files, !.rmBlobs = locators]
  <2>2. /\ x.pc = req[r].pc /\ x.kind = req[r].kind /\ x.source = req[r].source
        /\ x.data = req[r].data /\ x.written = req[r].written
        /\ x.rm = files /\ x.rmBlobs = locators
    BY <1>1 DEF Request
  <2>3. req'[r] = x /\ \A q \in Requests : q # r => req'[q] = req[q]
    BY <2>1, RequestIs DEF TypeInv
  <2> HIDE DEF x
  <2> QED
    BY <2>1, <2>2, <2>3 DEF RequestMoves, Stays
<1> QED
  BY <1>5, <1>6, <1>7, <1>8, <1>9, <1>10, <1>11 DEF Handler, RequestMoves

LEMMA RequestsMove ==
  ASSUME TypeInv, [Next]_vars
  PROVE  \A r \in Requests : RequestMoves(r)
<1>1. CASE \E r \in Requests : Handler(r)
  BY <1>1, EveryRequestMove
<1>2. CASE Restart
  BY <1>2 DEF Restart, RequestMoves, Stays, Closes, Closed, NewRequest
<1>3. CASE req' = req
  BY <1>3 DEF RequestMoves, Stays
<1>4. CASE \/ \E m \in Modes : SetVersioning(m)
           \/ \E r \in Requests : ExpireLease(r) \/ EndBackoff(r)
           \/ UNCHANGED vars
  BY <1>3, <1>4 DEF SetVersioning, ExpireLease, EndBackoff, vars
<1>5. CASE \E w \in Workers : UploadWorker(w)
  BY <1>3, <1>5 DEF UploadWorker, WorkerStep, Boot, Poll, Claim, LoseClaim, LoadChunks, SkipGone,
                    Upload, LackFile, FailUpload, CommitLocator, FindJob, MarkRemote, EndJob,
                    RemoveSpool, ClearPath, WorkerError, ChangeCredentials
<1>6. CASE Gc
  BY <1>3, <1>6 DEF Gc, StartGc, FreeFile, FreeRow, ReadActive, ListSpool, SweepFile, EndSweep,
                    CollectRemote
<1> QED
  BY <1>1, <1>2, <1>4, <1>5, <1>6 DEF Next

LEMMA ClosedStay ==
  ASSUME \A r \in Requests : RequestMoves(r)
  PROVE  RequestsStayClosed
  BY DEF RequestsStayClosed, RequestMoves, Stays, Closes, StartsPut, Spools, StartsCopy,
         StartsDelete, Opens

-----------------------------------------------------------------------------
(* Ids *)

\* Every step, by what it may do.
Moves == /\ TablesMove
         /\ \A w \in Workers : WorkerMoves(w)
         /\ \A r \in Requests : RequestMoves(r)
         /\ RequestsStayClosed

LEMMA EveryMove ==
  ASSUME TypeInv, [Next]_vars
  PROVE  Moves
  BY EveryTableMove, WorkersMove, RequestsMove, ClosedStay DEF Moves

\* A version of a request that has ended is never written again.
LEMMA OldVersion ==
  ASSUME TypeInv, IdInv, Moves, NEW r \in Requests, req[r].pc = "closed"
  PROVE  Keeps(r) \/ Drops(r)
<1>1. \A q \in Requests : Writes(q, r) => q = r
  <2>1. \A q \in Requests : FinalId(q, q) = q /\ FinalId(q, Null) \in {q, Null}
    BY DEF FinalId, IdInv, TypeInv, TypeOK
  <2> QED
    BY <2>1, PipelineAssumption DEF Writes, PutWrites, CopyWrites, MarkWrites
<1>2. ~Writes(r, r)
  BY DEF Writes, PutWrites, CopyWrites, MarkWrites
<1> QED
  BY <1>1, <1>2 DEF Moves, TablesMove, VersionMoves, Ids

\* What a step leaves of a version that is not written.
LEMMA Left ==
  ASSUME TypeInv, IdInv, NEW i \in Ids, Keeps(i) \/ Drops(i)
  PROVE  /\ objects'[i].kind # "none" =>
              objects'[i].kind = objects[i].kind /\ objects'[i].data = objects[i].data
         /\ \A c \in Idx :
              /\ chunks'[i][c].state = "pending" => chunks[i][c].state = "pending"
              /\ HasRow(i, c)' =>
                   HasRow(i, c) /\ objects'[i].data = objects[i].data /\ objects'[i].kind = objects[i].kind
              /\ chunks'[i][c].path # None => chunks'[i][c].path = chunks[i][c].path
              /\ chunks'[i][c].loc # None => chunks'[i][c].loc = chunks[i][c].loc \/ Stores(i, c)
              /\ ~HasRow(i, c)' => chunks'[i][c].path = None /\ chunks'[i][c].loc = None
<1>1. objects[i] \in ObjectRow /\ \A c \in Idx : chunks[i][c] \in ChunkRow
  BY DEF TypeInv, TypeOK
<1>2. CASE Drops(i)
  BY <1>2 DEF Drops, NoObject, NoChunk, HasRow
<1>3. CASE Keeps(i)
  <2>1. objects'[i].kind = objects[i].kind /\ objects'[i].data = objects[i].data
    BY <1>1, <1>3 DEF Keeps, Marks, ObjectRow
  <2>2. ASSUME NEW c \in Idx
        PROVE  /\ chunks'[i][c].state = "pending" => chunks[i][c].state = "pending"
               /\ HasRow(i, c)' => HasRow(i, c)
               /\ chunks'[i][c].path # None => chunks'[i][c].path = chunks[i][c].path
               /\ chunks'[i][c].loc # None => chunks'[i][c].loc = chunks[i][c].loc \/ Stores(i, c)
               /\ ~HasRow(i, c)' => chunks'[i][c].path = None /\ chunks'[i][c].loc = None
    <3>1. chunks[i][c].state = "none" => chunks[i][c].path = None /\ chunks[i][c].loc = None
      BY DEF IdInv, EmptyRows
    <3>2. chunks[i][c] \in ChunkRow
      BY <1>1
    <3>3. CASE chunks'[i][c] = chunks[i][c]
      BY <3>1, <3>3 DEF HasRow
    <3>4. CASE HasRow(i, c) /\ Stores(i, c)
      <4>1. PICK l : chunks'[i][c] = [chunks[i][c] EXCEPT !.state = "remote", !.loc = l]
        BY <3>4 DEF Stores
      <4>2. chunks'[i][c].state = "remote" /\ chunks'[i][c].path = chunks[i][c].path
        BY <3>2, <4>1 DEF ChunkRow
      <4> QED
        BY <3>4, <4>2 DEF HasRow
    <3>5. CASE HasRow(i, c) /\ Clears(i, c)
      <4>1. chunks'[i][c] = [chunks[i][c] EXCEPT !.path = None]
        BY <3>5 DEF Clears
      <4>2. /\ chunks'[i][c].state = chunks[i][c].state /\ chunks'[i][c].path = None
            /\ chunks'[i][c].loc = chunks[i][c].loc
        BY <3>2, <4>1 DEF ChunkRow
      <4> QED
        BY <3>5, <4>2 DEF HasRow
    <3>6. CASE Blanks(i, c)
      <4>1. chunks'[i][c] = [chunks[i][c] EXCEPT !.loc = None]
        BY <3>6 DEF Blanks
      <4>2. /\ chunks'[i][c].state = chunks[i][c].state /\ chunks'[i][c].path = chunks[i][c].path
            /\ chunks'[i][c].loc = None
        BY <3>2, <4>1 DEF ChunkRow
      <4> QED
        BY <3>1, <4>2 DEF HasRow
    <3> QED
      BY <1>3, <3>3, <3>4, <3>5, <3>6 DEF Keeps, RowKeeps
  <2> QED
    BY <2>1, <2>2
<1> QED
  BY <1>2, <1>3

\* What is written.
LEMMA NewVersion ==
  ASSUME TypeInv, IdInv, NEW r \in Requests, NEW i \in Ids, Writes(r, i)
  PROVE  /\ i \in {r, Null}
         /\ objects'[i].kind = "data" => i = r
         /\ objects'[i].kind \in {"data", "marker"} /\ objects'[i].remote = FALSE
         /\ \A c \in Idx : HasRow(i, c)' => objects'[i].kind = "data"
         /\ \A c \in Idx : ~HasRow(i, c)' => chunks'[i][c].path = None /\ chunks'[i][c].loc = None
<1>1. FinalId(r, r) = r /\ FinalId(r, Null) \in {r, Null}
  BY DEF FinalId, IdInv, TypeInv, TypeOK
<1>2. NoChunk.state = "none" /\ NoChunk.path = None /\ NoChunk.loc = None
  BY DEF NoChunk
<1>3. CASE PutWrites(r, i)
  <2>1. i = r /\ Wrote(i, "data", r)
    BY <1>1, <1>3 DEF PutWrites
  <2>2. \A c \in Idx : chunks'[i][c].state = "pending"
    BY <1>3, NewRowIs DEF PutWrites
  <2> QED
    BY <2>1, <2>2 DEF Wrote, HasRow
<1>4. CASE CopyWrites(r, i)
  <2>1. req[r].source \in Ids
    BY <1>4 DEF CopyWrites, TypeInv, RequestShape
  <2>2. \A c \in Idx : chunks[req[r].source][c].state = "none" =>
                         chunks[req[r].source][c].path = None /\ chunks[req[r].source][c].loc = None
    BY <2>1 DEF IdInv, EmptyRows
  <2> QED
    BY <1>1, <1>2, <1>4, <2>2 DEF CopyWrites, Wrote, HasRow
<1>5. CASE MarkWrites(r, i)
  BY <1>1, <1>2, <1>5 DEF MarkWrites, Wrote, HasRow
<1> QED
  BY <1>3, <1>4, <1>5 DEF Writes

LEMMA WritesById ==
  ASSUME TypeInv, IdInv, NEW r \in Requests, NEW i, Writes(r, i)
  PROVE  i \in {r, Null}
<1>1. FinalId(r, r) = r /\ FinalId(r, Null) \in {r, Null}
  BY DEF FinalId, IdInv, TypeInv, TypeOK
<1> QED
  BY <1>1 DEF Writes, PutWrites, CopyWrites, MarkWrites

LEMMA IdStep ==
  ASSUME NeverSuspended, JobInv, JobInv', IdInv, Moves
  PROVE  IdInv'
<1>1. TypeInv /\ TypeInv'
  BY DEF JobInv
<1>2. mode' # "Suspended"
  BY DEF Moves, TablesMove, IdInv, NeverSuspended
<1>3. JobsOwnId'
  <2> SUFFICES ASSUME NEW r \in Requests, jobs'[r].state # "none"
               PROVE  jobs'[r].version = r
    BY DEF JobsOwnId
  <2>1. CASE jobs[r].state # "none" /\ jobs'[r].version = jobs[r].version
    BY <2>1 DEF IdInv, JobsOwnId
  <2>2. CASE Writes(r, jobs'[r].version)
    <3>1. jobs'[r].version \in Ids /\ objects'[jobs'[r].version].kind = "data"
      BY <1>1 DEF TypeInv, JobShape, JobInv, QueueInv, JobsOwnLiveVersions
    <3> QED
      BY <1>1, <2>2, <3>1, NewVersion
  <2> QED
    BY <2>1, <2>2 DEF Moves, TablesMove, JobMoves
<1>4. WorkersOwnId'
  <2> SUFFICES ASSUME NEW w \in Workers, wk'[w].pc \notin {"boot", "idle"}
               PROVE  wk'[w].version = wk'[w].job
    BY DEF WorkersOwnId
  <2>1. CASE Polls(w)
    BY <2>1 DEF Polls, IdInv, JobsOwnId
  <2>2. CASE SameJob(w) /\ wk[w].pc \notin {"boot", "idle"}
    BY <2>2 DEF SameJob, IdInv, WorkersOwnId
  <2>3. wk'[w] = wk[w] \/ Polls(w) \/ (SameJob(w) /\ wk[w].pc \notin {"boot", "idle"})
    BY DEF Moves, WorkerMoves, Rests, Claims, Loads, Sends, Commits, Finds, Finishes,
           StartsCleaning, Cleans, SameSnap, Goes
  <2> QED
    BY <2>1, <2>2, <2>3 DEF IdInv, WorkersOwnId
<1>5. IdsOfClosed'
  <2> SUFFICES ASSUME NEW r \in Requests, objects'[r].kind # "none"
               PROVE  req'[r].pc = "closed"
    BY DEF IdsOfClosed
  <2>1. CASE Keeps(r) \/ Drops(r)
    BY <1>1, <2>1, Left DEF IdInv, IdsOfClosed, Moves, RequestsStayClosed, Ids
  <2>2. CASE \E q \in Requests : Writes(q, r)
    BY <1>1, <2>2, WritesById, PipelineAssumption DEF Writes
  <2> QED
    BY <2>1, <2>2 DEF Moves, TablesMove, VersionMoves, Ids
<1>6. NullIsMarker'
  <2>1. Null \in Ids /\ Null \notin Requests
    BY PipelineAssumption DEF Ids
  <2>2. CASE Keeps(Null) \/ Drops(Null)
    BY <1>1, <2>1, <2>2, Left DEF IdInv, NullIsMarker
  <2>3. CASE \E q \in Requests : Writes(q, Null)
    BY <1>1, <2>1, <2>3, NewVersion DEF NullIsMarker
  <2> QED
    BY <2>1, <2>2, <2>3 DEF Moves, TablesMove, VersionMoves
<1>7. RowsOfData'
  <2> SUFFICES ASSUME NEW i \in Ids, NEW c \in Idx, HasRow(i, c)'
               PROVE  objects'[i].kind = "data"
    BY DEF RowsOfData, HasRow
  <2>1. CASE Keeps(i) \/ Drops(i)
    BY <1>1, <2>1, Left DEF IdInv, RowsOfData, HasRow
  <2>2. CASE \E q \in Requests : Writes(q, i)
    BY <1>1, <2>2, NewVersion
  <2> QED
    BY <2>1, <2>2 DEF Moves, TablesMove, VersionMoves
<1>8. EmptyRows'
  <2> SUFFICES ASSUME NEW i \in Ids, NEW c \in Idx, ~HasRow(i, c)'
               PROVE  chunks'[i][c].path = None /\ chunks'[i][c].loc = None
    BY DEF EmptyRows, HasRow
  <2>1. CASE Keeps(i) \/ Drops(i)
    BY <1>1, <2>1, Left
  <2>2. CASE \E q \in Requests : Writes(q, i)
    BY <1>1, <2>2, NewVersion
  <2> QED
    BY <2>1, <2>2 DEF Moves, TablesMove, VersionMoves
<1> QED
  BY <1>2, <1>3, <1>4, <1>5, <1>6, <1>7, <1>8 DEF IdInv

-----------------------------------------------------------------------------
(* Bytes *)

\* A row of a version whose request has ended: it is one that was there before.
LEMMA OldRow ==
  ASSUME TypeInv, IdInv, IdInv', Moves, NEW i \in Ids, i \in Requests => req[i].pc = "closed",
         NEW c \in Idx, chunks'[i][c].state # "none"
  PROVE  HasRow(i, c) /\ objects'[i].data = objects[i].data
<1>1. i \in Requests
  <2>1. objects'[i].kind = "data"
    BY DEF IdInv, RowsOfData, HasRow
  <2> QED
    BY <2>1 DEF IdInv, NullIsMarker, Ids
<1> QED
  BY <1>1, OldVersion, Left DEF HasRow

LEMMA SameFirst ==
  ASSUME NEW S \in SUBSET Idx, NEW c \in S, NEW d \in S, First(S, c), First(S, d)
  PROVE  c = d
  BY PipelineAssumption DEF First, Idx

LEMMA RowsHoldOwnBytes ==
  ASSUME TypeInv, IdInv, Moves, BytesInv
  PROVE  OwnBytes'
<1> SUFFICES ASSUME NEW i \in Ids, NEW c \in Idx
             PROVE  /\ chunks'[i][c].path # None => chunks'[i][c].path = <<objects'[i].data, c>>
                    /\ chunks'[i][c].loc # None => chunks'[i][c].loc[1] = <<objects'[i].data, c>>
  BY DEF OwnBytes
<1>1. CASE Keeps(i) \/ Drops(i)
  <2>1. CASE HasRow(i, c)'
    <3>1. HasRow(i, c) /\ objects'[i].data = objects[i].data
      BY <1>1, <2>1, Left
    <3>2. chunks'[i][c].path # None => chunks'[i][c].path = <<objects[i].data, c>>
      BY <1>1, Left DEF BytesInv, OwnBytes
    <3>3. ASSUME Stores(i, c)
          PROVE  chunks'[i][c].loc[1] = <<objects[i].data, c>>
      <4> PICK w \in Workers :
             /\ wk[w].pc = "sent" /\ wk[w].version = i /\ First(wk[w].todo, c)
             /\ chunks'[i][c] = [chunks[i][c] EXCEPT !.state = "remote", !.loc = wk[w].loc]
        BY <3>3 DEF Stores
      <4>1. wk[w].loc[1] = <<objects[i].data, c>>
        BY <3>1 DEF BytesInv, SentInv
      <4>2. chunks'[i][c].loc = wk[w].loc
        BY DEF TypeInv, TypeOK, ChunkRow
      <4> QED
        BY <4>1, <4>2
    <3>4. chunks'[i][c].loc # None => chunks'[i][c].loc = chunks[i][c].loc \/ Stores(i, c)
      BY <1>1, Left
    <3>5. chunks'[i][c].loc # None => chunks'[i][c].loc[1] = <<objects[i].data, c>>
      BY <3>3, <3>4 DEF BytesInv, OwnBytes
    <3> QED
      BY <3>1, <3>2, <3>5
  <2>2. CASE ~HasRow(i, c)'
    BY <1>1, <2>2, Left
  <2> QED
    BY <2>1, <2>2
<1>2. CASE \E r \in Requests : Writes(r, i)
  <2> PICK r \in Requests : Writes(r, i)
    BY <1>2
  <2>1. NoChunk.path = None /\ NoChunk.loc = None
    BY DEF NoChunk
  <2>2. CASE PutWrites(r, i)
    <3>1. objects'[i].data = r
      BY <2>2 DEF PutWrites, Wrote
    <3>2. chunks'[i][c].path = <<r, c>> /\ chunks'[i][c].loc = None
      BY <2>2, NewRowIs DEF PutWrites
    <3> QED
      BY <3>1, <3>2
  <2>3. CASE CopyWrites(r, i)
    <3> DEFINE s == req[r].source
    <3>1. s \in Ids /\ req[r].pc = "ready" /\ req[r].kind = "copy" /\ objects'[i].data = req[r].data
      BY <2>3 DEF CopyWrites, Wrote, TypeInv, RequestShape
    <3>2. chunks'[i][c] \in {chunks[s][c], NoChunk}
      BY <2>3 DEF CopyWrites
    <3>3. ~HasRow(s, c) => chunks[s][c].path = None /\ chunks[s][c].loc = None
      BY <3>1 DEF IdInv, EmptyRows, HasRow
    <3>4. HasRow(s, c) => objects[s].data = req[r].data
      BY <3>1 DEF BytesInv, SourceInv
    <3>5. /\ chunks[s][c].path # None => chunks[s][c].path = <<objects[s].data, c>>
          /\ chunks[s][c].loc # None => chunks[s][c].loc[1] = <<objects[s].data, c>>
      BY <3>1 DEF BytesInv, OwnBytes
    <3> QED
      BY <2>1, <3>1, <3>2, <3>3, <3>4, <3>5
  <2>4. CASE MarkWrites(r, i)
    BY <2>1, <2>4 DEF MarkWrites
  <2> QED
    BY <2>2, <2>3, <2>4 DEF Writes
<1> QED
  BY <1>1, <1>2 DEF Moves, TablesMove, VersionMoves

LEMMA SourcesKeepBytes ==
  ASSUME TypeInv, TypeInv', IdInv, IdInv', Moves, BytesInv
  PROVE  SourceInv'
<1> SUFFICES ASSUME NEW r \in Requests, req'[r].pc = "ready", req'[r].kind = "copy"
             PROVE  /\ req'[r].source \in Requests => req'[req'[r].source].pc = "closed"
                    /\ \A c \in Idx : chunks'[req'[r].source][c].state # "none" =>
                                      objects'[req'[r].source].data = req'[r].data
  BY DEF SourceInv, HasRow
<1> DEFINE s == req'[r].source
<1>1. /\ s \in Ids
      /\ s \in Requests => req[s].pc = "closed"
      /\ \A c \in Idx : HasRow(s, c) => objects[s].data = req'[r].data
  <2>1. Stays(r) \/ StartsCopy(r)
    BY DEF Moves, RequestMoves, Closes, StartsPut, Spools, StartsDelete, Opens
  <2>2. CASE Stays(r)
    BY <2>2 DEF Stays, BytesInv, SourceInv, TypeInv, RequestShape
  <2>3. CASE StartsCopy(r)
    BY <2>3 DEF StartsCopy, IdInv, IdsOfClosed
  <2> QED
    BY <2>1, <2>2, <2>3
<1>2. s \in Requests => req'[s].pc = "closed"
  BY <1>1 DEF Moves, RequestsStayClosed
<1>3. ASSUME NEW c \in Idx, chunks'[s][c].state # "none"
      PROVE  objects'[s].data = req'[r].data
  <2> HIDE DEF s
  <2> QED
    BY <1>1, <1>3, OldRow
<1> QED
  BY <1>2, <1>3

\* What a worker has read or sent is about a version that is not written again.
LEMMA WorkersKeepBytes ==
  ASSUME JobInv, IdInv, IdInv', Moves, BytesInv
  PROVE  SnapInv' /\ SentInv'
<1> SUFFICES ASSUME NEW w \in Workers, NEW c \in Idx, wk'[w].pc \in {"uploading", "sent"},
                    chunks'[wk'[w].version][c].state # "none"
             PROVE  /\ wk'[w].snap[c] # None =>
                         wk'[w].snap[c] = <<objects'[wk'[w].version].data, c>>
                    /\ wk'[w].pc = "sent" /\ First(wk'[w].todo, c) =>
                         wk'[w].loc[1] = <<objects'[wk'[w].version].data, c>>
  BY DEF SnapInv, SentInv, HasRow
<1> DEFINE v == wk[w].version
           b == <<objects[v].data, c>>
<1>1. \/ wk'[w] = wk[w] \/ Loads(w) \/ Sends(w) \/ Commits(w)
  BY DEF Moves, WorkerMoves, Rests, Polls, Claims, Finds, Finishes, StartsCleaning, Cleans, Goes
<1>2. wk'[w].version = v /\ wk[w].pc \in {"claimed", "uploading", "sent"}
  BY <1>1 DEF Loads, Sends, Commits, SameSnap, SameJob, Goes
<1>3. v \in Requests /\ v \in Ids /\ req[v].pc = "closed"
  BY <1>2 DEF IdInv, WorkersOwnId, JobInv, TypeInv, WorkerShape, WorkerInv, HoldsJob
<1>4. HasRow(v, c) /\ objects'[v].data = objects[v].data
  <2> HIDE DEF v
  <2> QED
    BY <1>2, <1>3, OldRow DEF JobInv
<1>5. ASSUME wk'[w].snap[c] # None
      PROVE  wk'[w].snap[c] = b
  <2>1. CASE Loads(w)
    BY <1>3, <1>5, <2>1 DEF Loads, BytesInv, OwnBytes
  <2>2. CASE wk'[w].snap = wk[w].snap /\ wk[w].pc \in {"uploading", "sent"}
    BY <1>4, <1>5, <2>2 DEF BytesInv, SnapInv
  <2> QED
    BY <1>1, <2>1, <2>2 DEF Sends, Commits, SameSnap, Goes
<1>6. ASSUME wk'[w].pc = "sent", First(wk'[w].todo, c)
      PROVE  wk'[w].loc[1] = b
  <2>1. CASE wk'[w] = wk[w]
    BY <1>4, <1>6, <2>1 DEF BytesInv, SentInv
  <2>2. CASE Sends(w)
    <3>1. PICK d \in wk[w].todo : /\ First(wk[w].todo, d)
                                  /\ wk[w].snap[d] \in spool
                                  /\ wk'[w].loc[1] = wk[w].snap[d]
      BY <2>2 DEF Sends
    <3>2. wk'[w].todo = wk[w].todo /\ wk[w].todo \in SUBSET Idx
      BY <2>2 DEF Sends, JobInv, TypeInv, TypeOK, Worker
    <3>3. d = c
      BY <1>6, <3>1, <3>2, SameFirst DEF First
    <3>4. wk[w].snap[c] # None
      BY <3>1, <3>3, PipelineAssumption DEF JobInv, TypeInv, TypeOK, Paths, Idx
    <3>5. wk[w].snap[c] = b
      BY <1>4, <2>2, <3>4 DEF Sends, Goes, BytesInv, SnapInv
    <3> QED
      BY <3>1, <3>3, <3>5
  <2> QED
    BY <1>1, <1>6, <2>1, <2>2 DEF Loads, Commits, Goes
<1> QED
  BY <1>2, <1>4, <1>5, <1>6

LEMMA BytesStep ==
  ASSUME JobInv, JobInv', IdInv, IdInv', Moves, BytesInv
  PROVE  BytesInv'
  BY RowsHoldOwnBytes, SourcesKeepBytes, WorkersKeepBytes DEF BytesInv, JobInv

-----------------------------------------------------------------------------
(* The storage state *)

\* A worker that finds its job still there has uploaded every chunk that was
\* pending: a pending row has a job, that job is the worker's own, and then the
\* worker would still have the chunk to do.
LEMMA FoundIsRemote ==
  ASSUME JobInv, IdInv, NEW w \in Workers, wk[w].pc \in {"found", "marked"}, NEW c \in Idx
  PROVE  chunks[wk[w].version][c].state # "pending"
<1> DEFINE i == wk[w].version
<1> SUFFICES ASSUME chunks[i][c].state = "pending"
             PROVE  FALSE
  OBVIOUS
<1>1. i \in Ids
  BY DEF JobInv, TypeInv, WorkerShape
<1>2. PICK r \in Requests : jobs[r].version = i /\ jobs[r].state # "none"
  BY <1>1 DEF JobInv, QueueInv, NoForgottenChunk
<1>3. r = i /\ wk[w].job = i
  BY <1>2 DEF IdInv, JobsOwnId, WorkersOwnId
<1>4. c \in wk[w].todo
  BY <1>2, <1>3 DEF JobInv, WorkerInv, CoversChunks, Held
<1> QED
  BY <1>4 DEF JobInv, WorkerInv, EndsClean

LEMMA HonestStep ==
  ASSUME JobInv, IdInv, Moves, HonestState
  PROVE  HonestState'
<1> SUFFICES ASSUME NEW i \in Ids, objects'[i].remote, NEW c \in Idx
             PROVE  chunks'[i][c].state # "pending"
  BY DEF HonestState
<1>1. TypeInv
  BY DEF JobInv
<1>2. CASE Keeps(i)
  <2>1. objects[i].remote \/ Marks(i)
    BY <1>2 DEF Keeps
  <2>2. chunks[i][c].state # "pending"
    BY <2>1, FoundIsRemote DEF HonestState, Marks
  <2> QED
    BY <1>1, <1>2, <2>2, Left
<1>3. CASE Drops(i)
  BY <1>3 DEF Drops, NoChunk
<1>4. CASE \E r \in Requests : Writes(r, i)
  BY <1>1, <1>4, NewVersion
<1> QED
  BY <1>2, <1>3, <1>4 DEF Moves, TablesMove, VersionMoves

-----------------------------------------------------------------------------
(* The theorems *)

VersionInv == IdInv /\ BytesInv /\ HonestState

LEMMA VersionInit ==
  ASSUME Init
  PROVE  VersionInv
<1>1. \A i \in Ids, c \in Idx : chunks[i][c] = NoChunk
  BY DEF Init
<1>2. \A i \in Ids : objects[i] = NoObject
  BY DEF Init
<1>3. NoChunk.state = "none" /\ NoChunk.path = None /\ NoChunk.loc = None
  BY DEF NoChunk
<1>4. NoObject.kind = "none" /\ NoObject.remote = FALSE
  BY DEF NoObject
<1>5. \A r \in Requests : jobs[r].state = "none" /\ req[r].pc = "idle"
  BY DEF Init, NoJob, NewRequest
<1>6. \A w \in Workers : wk[w].pc = "boot"
  BY DEF Init, WorkerAt
<1>7. IdInv
  BY <1>1, <1>2, <1>3, <1>4, <1>5, <1>6
     DEF Init, IdInv, JobsOwnId, WorkersOwnId, IdsOfClosed, NullIsMarker, RowsOfData, EmptyRows, Ids
<1>8. OwnBytes /\ HonestState
  BY <1>1, <1>2, <1>3, <1>4 DEF OwnBytes, HonestState
<1>9. SourceInv /\ SnapInv /\ SentInv
  BY <1>5, <1>6 DEF SourceInv, SnapInv, SentInv
<1> QED
  BY <1>7, <1>8, <1>9 DEF VersionInv, BytesInv

LEMMA VersionStep ==
  ASSUME NeverSuspended, JobInv, JobInv', VersionInv, [Next]_vars
  PROVE  VersionInv'
<1>1. Moves
  BY EveryMove DEF JobInv
<1>2. IdInv'
  BY <1>1, IdStep DEF VersionInv
<1> QED
  BY <1>1, <1>2, BytesStep, HonestStep DEF VersionInv

\* As long as no bucket is ever Suspended, ids name what they were drawn for
\* and no late worker or copy carries the bytes of another version.
THEOREM VersionInvariant ==
  ASSUME NeverSuspended
  PROVE  Spec => []VersionInv
<1>1. Init => VersionInv
  BY VersionInit
<1>2. JobInv /\ JobInv' /\ VersionInv /\ [Next]_vars => VersionInv'
  BY VersionStep
<1> QED
  BY <1>1, <1>2, JobInvariant, PTL DEF Spec

\* finish_upload_job marks a version `remote` in the first of three statements,
\* and whoever runs it, holding a lease that ran out or not, no chunk of the
\* version is pending then or afterwards.
THEOREM RemoteMeansUploaded ==
  ASSUME NeverSuspended
  PROVE  Spec => []HonestState
<1>1. VersionInv => HonestState
  BY DEF VersionInv
<1> QED
  BY <1>1, VersionInvariant, PTL

\* The spool file and the message a chunk row names hold the bytes the version
\* was put with, copies of it included: no worker, however late, commits the
\* locator of another version.
THEOREM RowsNameTheirBytes ==
  ASSUME NeverSuspended
  PROVE  Spec => []OwnBytes
<1>1. VersionInv => OwnBytes
  BY DEF VersionInv, BytesInv
<1> QED
  BY <1>1, VersionInvariant, PTL
=============================================================================
