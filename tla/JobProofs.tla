------------------------------ MODULE JobProofs ------------------------------
(***************************************************************************)
(* No chunk is forgotten: the safety of the job queue of ObjectPipeline,   *)
(* for every set of keys, requests and workers, every number of chunks and *)
(* every bound, with crashes, expired leases, several workers on one job,  *)
(* and deletes and overwrites at any time.                                 *)
(***************************************************************************)
EXTENDS ObjectPipelineProofs

\* A request makes its job in its last transaction, and once.
JobsOfClosed == \A r \in Requests : jobs[r].state # "none" => req[r].pc = "closed"

\* A worker beyond the poll holds the version its job is for, as long as that
\* job exists; the job may be dropped at any time, but never comes back.
Held(w) == jobs[wk[w].job].state # "none"
HoldsJob(w) == wk[w].pc \notin {"boot", "idle"} =>
                 /\ req[wk[w].job].pc = "closed"
                 /\ Held(w) => jobs[wk[w].job].version = wk[w].version

\* From the moment a worker has read the chunks of its version, every row that
\* is still pending is one it is about to upload; at the end there is none.
CoversChunks(w) ==
  wk[w].pc \in {"uploading", "sent", "found", "marked"} /\ Held(w) =>
    \A c \in Idx : chunks[wk[w].version][c].state = "pending" => c \in wk[w].todo
EndsClean(w) == wk[w].pc \in {"found", "marked"} => wk[w].todo = {}

WorkerInv(w) == HoldsJob(w) /\ CoversChunks(w) /\ EndsClean(w)

QueueInv == NoForgottenChunk /\ JobsOwnLiveVersions /\ JobsOfClosed
JobInv == TypeInv /\ QueueInv /\ \A w \in Workers : WorkerInv(w)

-----------------------------------------------------------------------------
(* What most steps have in common *)

RequestsStayClosed == \A r \in Requests : req[r].pc = "closed" => req'[r].pc = "closed"
KindsStay == \A i \in Ids : objects'[i].kind = objects[i].kind
NoNewPending ==
  \A i \in Ids, c \in Idx : chunks'[i][c].state = "pending" => chunks[i][c].state = "pending"
NoNewJob == \A r \in Requests : jobs'[r].state # "none" =>
                                  jobs[r].state # "none" /\ jobs'[r].version = jobs[r].version
Live == {"pending", "uploading", "failed"}
LiveStays == \A r \in Requests : jobs[r].state \in Live =>
                                   jobs'[r].state \in Live /\ jobs'[r].version = jobs[r].version

\* What a step may do to the job of a closed request without disturbing the
\* workers that hold it.
JobsOnlyShrink ==
  \A r \in Requests : req[r].pc = "closed" /\ jobs'[r].state # "none" =>
    /\ jobs[r].state # "none"
    /\ jobs'[r].version = jobs[r].version
    /\ \A c \in Idx : chunks'[jobs[r].version][c].state = "pending" =>
                        chunks[jobs[r].version][c].state = "pending"

LEMMA Shrink ==
  ASSUME TypeInv, NoNewPending, NoNewJob
  PROVE  JobsOnlyShrink
  BY DEF NoNewPending, NoNewJob, JobsOnlyShrink, TypeInv, JobShape

LEMMA WorkerWaits ==
  ASSUME TypeInv, NEW w \in Workers, WorkerInv(w), wk'[w] = wk[w],
         RequestsStayClosed, JobsOnlyShrink
  PROVE  WorkerInv(w)'
<1>1. wk[w].pc \notin {"boot", "idle"} => wk[w].job \in Requests /\ wk[w].version \in Ids
  BY DEF TypeInv, WorkerShape
<1>2. HoldsJob(w)'
  BY <1>1 DEF WorkerInv, HoldsJob, Held, RequestsStayClosed, JobsOnlyShrink
<1>3. CoversChunks(w)'
  BY <1>1 DEF WorkerInv, HoldsJob, CoversChunks, Held, JobsOnlyShrink
<1>4. EndsClean(w)'
  BY DEF WorkerInv, EndsClean
<1> QED
  BY <1>2, <1>3, <1>4 DEF WorkerInv

LEMMA OthersWait ==
  ASSUME JobInv, NEW w \in Workers, NEW x, WorkerBecomes(w, x),
         RequestsStayClosed, JobsOnlyShrink, WorkerInv(w)'
  PROVE  \A q \in Workers : WorkerInv(q)'
<1> SUFFICES ASSUME NEW q \in Workers, q # w
             PROVE  WorkerInv(q)'
  OBVIOUS
<1>1. wk'[q] = wk[q]
  BY DEF WorkerBecomes, JobInv, TypeInv, TypeOK
<1> QED
  BY <1>1, WorkerWaits DEF JobInv

LEMMA AllWait ==
  ASSUME JobInv, UNCHANGED wk, RequestsStayClosed, JobsOnlyShrink
  PROVE  \A q \in Workers : WorkerInv(q)'
  BY WorkerWaits DEF JobInv

LEMMA QueueKeeps ==
  ASSUME JobInv, RequestsStayClosed, KindsStay, NoNewPending, NoNewJob, LiveStays
  PROVE  QueueInv'
<1>1. NoForgottenChunk'
  BY DEF JobInv, QueueInv, NoForgottenChunk, NoNewPending, LiveStays, Live
<1>2. JobsOwnLiveVersions'
  BY DEF JobInv, TypeInv, JobShape, QueueInv, JobsOwnLiveVersions, KindsStay, NoNewJob
<1>3. JobsOfClosed'
  BY DEF JobInv, QueueInv, JobsOfClosed, RequestsStayClosed, NoNewJob
<1> QED
  BY <1>1, <1>2, <1>3 DEF QueueInv

LEMMA TablesRest ==
  ASSUME UNCHANGED <<objects, chunks, jobs>>
  PROVE  KindsStay /\ NoNewPending /\ NoNewJob /\ LiveStays
  BY DEF KindsStay, NoNewPending, NoNewJob, LiveStays

LEMMA Quiet ==
  ASSUME JobInv, TypeInv', UNCHANGED <<objects, chunks, jobs, wk>>, RequestsStayClosed
  PROVE  JobInv'
<1>1. KindsStay /\ NoNewPending /\ NoNewJob /\ LiveStays
  BY TablesRest
<1>2. QueueInv'
  BY <1>1, QueueKeeps
<1>3. \A q \in Workers : WorkerInv(q)'
  BY <1>1, Shrink, AllWait DEF JobInv
<1> QED
  BY <1>2, <1>3 DEF JobInv

LEMMA SameRequests ==
  ASSUME UNCHANGED req
  PROVE  RequestsStayClosed
  BY DEF RequestsStayClosed

\* A handler that has not ended touches no closed request.
LEMMA OneRequest ==
  ASSUME TypeInv, NEW r \in Requests, NEW x, RequestBecomes(r, x),
         req[r].pc = "closed" => x.pc = "closed"
  PROVE  RequestsStayClosed
  BY DEF RequestBecomes, RequestsStayClosed, TypeInv, TypeOK

-----------------------------------------------------------------------------
(* The upload workers *)

LEMMA RestedInv ==
  ASSUME TypeInv, NEW w \in Workers,
         WorkerBecomes(w, WorkerAt("idle")) \/ WorkerBecomes(w, WorkerAt("boot"))
  PROVE  WorkerInv(w)'
<1>1. wk'[w].pc \in {"boot", "idle"}
  BY DEF WorkerBecomes, WorkerAt, TypeInv, TypeOK
<1> QED
  BY <1>1 DEF WorkerInv, HoldsJob, CoversChunks, EndsClean

\* A worker that gives up.
LEMMA WorkerStops ==
  ASSUME JobInv, TypeInv', NEW w \in Workers, UNCHANGED <<objects, chunks, jobs, req>>,
         WorkerBecomes(w, WorkerAt("idle")) \/ WorkerBecomes(w, WorkerAt("boot"))
  PROVE  JobInv'
<1>1. KindsStay /\ NoNewPending /\ NoNewJob /\ LiveStays /\ RequestsStayClosed
  BY TablesRest, SameRequests
<1>2. QueueInv'
  BY <1>1, QueueKeeps
<1>3. WorkerInv(w)'
  BY RestedInv DEF JobInv
<1>4. \A q \in Workers : WorkerInv(q)'
  BY <1>1, <1>3, Shrink, OthersWait DEF JobInv
<1> QED
  BY <1>2, <1>4 DEF JobInv

\* A worker that goes on, and changes no table.
LEMMA WorkerGoesOn ==
  ASSUME JobInv, TypeInv', NEW w \in Workers, NEW x, UNCHANGED <<objects, chunks, jobs, req>>,
         WorkerBecomes(w, x), WorkerInv(w)'
  PROVE  JobInv'
<1>1. KindsStay /\ NoNewPending /\ NoNewJob /\ LiveStays /\ RequestsStayClosed
  BY TablesRest, SameRequests
<1>2. QueueInv'
  BY <1>1, QueueKeeps
<1>3. \A q \in Workers : WorkerInv(q)'
  BY <1>1, Shrink, OthersWait DEF JobInv
<1> QED
  BY <1>2, <1>3 DEF JobInv

LEMMA JobsPoll ==
  ASSUME JobInv, TypeInv', NEW w \in Workers, Poll(w)
  PROVE  JobInv'
<1>1. PICK r \in Requests :
         /\ Claimable(r)
         /\ WorkerBecomes(w, [wk[w] EXCEPT !.pc = "selected", !.job = r,
                                           !.version = jobs[r].version])
  BY DEF Poll
<1> DEFINE x == [wk[w] EXCEPT !.pc = "selected", !.job = r, !.version = jobs[r].version]
<1>2. wk'[w] = x /\ wk[w] \in Worker
  BY <1>1 DEF WorkerBecomes, JobInv, TypeInv, TypeOK
<1>3. wk'[w].pc = "selected" /\ wk'[w].job = r /\ wk'[w].version = jobs[r].version
  BY <1>2 DEF Worker
<1>4. req[r].pc = "closed" /\ UNCHANGED <<objects, chunks, jobs, req>>
  BY <1>1 DEF Poll, tables, Claimable, JobInv, QueueInv, JobsOfClosed
<1>5. WorkerInv(w)'
  BY <1>3, <1>4 DEF WorkerInv, HoldsJob, Held, CoversChunks, EndsClean
<1> QED
  BY <1>1, <1>4, <1>5, WorkerGoesOn

LEMMA JobsLoadChunks ==
  ASSUME JobInv, TypeInv', NEW w \in Workers, LoadChunks(w)
  PROVE  JobInv'
<1> DEFINE v == wk[w].version
           todo == {c \in Idx : chunks[v][c].state = "pending"}
           snap == [c \in Idx |-> chunks[v][c].path]
           x == [wk[w] EXCEPT !.pc = "uploading", !.todo = todo, !.snap = snap]
<1>1. WorkerBecomes(w, x) /\ wk[w].pc = "claimed" /\ UNCHANGED <<objects, chunks, jobs, req>>
  BY DEF LoadChunks, tables
<1>2. wk'[w] = x /\ wk[w] \in Worker
  BY <1>1 DEF WorkerBecomes, JobInv, TypeInv, TypeOK
<1>3. wk'[w].pc = "uploading" /\ wk'[w].job = wk[w].job /\ wk'[w].version = v
        /\ wk'[w].todo = todo
  BY <1>2 DEF Worker
<1>4. WorkerInv(w)
  BY DEF JobInv
<1>5. WorkerInv(w)'
  BY <1>1, <1>3, <1>4 DEF WorkerInv, HoldsJob, Held, CoversChunks, EndsClean
<1> QED
  BY <1>1, <1>5, WorkerGoesOn

LEMMA JobsUpload ==
  ASSUME JobInv, TypeInv', NEW w \in Workers, Upload(w)
  PROVE  JobInv'
<1>1. PICK l : /\ WorkerBecomes(w, [wk[w] EXCEPT !.pc = "sent", !.loc = l])
               /\ wk[w].pc = "uploading"
               /\ UNCHANGED <<objects, chunks, jobs, req>>
  BY DEF Upload, NextChunk, tables
<1>2. wk[w] \in Worker /\ wk'[w] = [wk[w] EXCEPT !.pc = "sent", !.loc = l]
  BY <1>1 DEF WorkerBecomes, JobInv, TypeInv, TypeOK
<1>3. wk'[w].pc = "sent" /\ wk'[w].job = wk[w].job /\ wk'[w].version = wk[w].version
        /\ wk'[w].todo = wk[w].todo
  BY <1>2 DEF Worker
<1>4. WorkerInv(w)
  BY DEF JobInv
<1>5. WorkerInv(w)'
  BY <1>1, <1>3, <1>4 DEF WorkerInv, HoldsJob, Held, CoversChunks, EndsClean
<1> QED
  BY <1>1, <1>5, WorkerGoesOn

LEMMA JobsFindJob ==
  ASSUME JobInv, TypeInv', NEW w \in Workers, FindJob(w)
  PROVE  JobInv'
<1>1. PICK pc \in {"found", "marked"} : WorkerBecomes(w, [wk[w] EXCEPT !.pc = pc])
  BY DEF FindJob
<1>2. wk[w].pc = "uploading" /\ wk[w].todo = {} /\ UNCHANGED <<objects, chunks, jobs, req>>
  BY DEF FindJob, tables
<1>3. wk[w] \in Worker /\ wk'[w] = [wk[w] EXCEPT !.pc = pc]
  BY <1>1 DEF WorkerBecomes, JobInv, TypeInv, TypeOK
<1>4. wk'[w].pc = pc /\ wk'[w].job = wk[w].job /\ wk'[w].version = wk[w].version
        /\ wk'[w].todo = {}
  BY <1>2, <1>3 DEF Worker
<1>5. WorkerInv(w)
  BY DEF JobInv
<1>6. WorkerInv(w)'
  BY <1>2, <1>4, <1>5 DEF WorkerInv, HoldsJob, Held, CoversChunks, EndsClean
<1> QED
  BY <1>1, <1>2, <1>6, WorkerGoesOn

LEMMA JobsRemoveSpool ==
  ASSUME JobInv, TypeInv', NEW w \in Workers, RemoveSpool(w)
  PROVE  JobInv'
<1>1. /\ WorkerBecomes(w, [wk[w] EXCEPT !.pc = "removed"])
      /\ wk[w].pc = "cleaning"
      /\ UNCHANGED <<objects, chunks, jobs, req>>
  BY DEF RemoveSpool, tables
<1>2. wk[w] \in Worker /\ wk'[w] = [wk[w] EXCEPT !.pc = "removed"]
  BY <1>1 DEF WorkerBecomes, JobInv, TypeInv, TypeOK
<1>3. wk'[w].pc = "removed" /\ wk'[w].job = wk[w].job /\ wk'[w].version = wk[w].version
  BY <1>2 DEF Worker
<1>4. WorkerInv(w)
  BY DEF JobInv
<1>5. WorkerInv(w)'
  BY <1>1, <1>3, <1>4 DEF WorkerInv, HoldsJob, Held, CoversChunks, EndsClean
<1> QED
  BY <1>1, <1>5, WorkerGoesOn

-----------------------------------------------------------------------------
(* Updates of chunk rows: none makes a row pending *)

LEMMA SetLocatorPending ==
  ASSUME TypeOK, NEW i \in Ids, NEW c \in Idx, NEW l, SetLocator(i, c, l)
  PROVE  NoNewPending /\ chunks'[i][c].state # "pending"
<1>1. CASE ~HasRow(i, c)
  BY <1>1 DEF SetLocator, HasRow, NoNewPending
<1>2. CASE HasRow(i, c)
  <2> DEFINE x == [chunks[i][c] EXCEPT !.state = "remote", !.loc = l]
  <2>1. chunks[i][c] \in ChunkRow /\ chunks[i] \in [Idx -> ChunkRow]
    BY DEF TypeOK
  <2>2. x.state = "remote"
    BY <2>1 DEF ChunkRow
  <2>3. chunks' = [chunks EXCEPT ![i][c] = x]
    BY <1>2 DEF SetLocator
  <2> HIDE DEF x
  <2>4. chunks'[i][c] = x
    BY <2>1, <2>3 DEF TypeOK
  <2>5. \A j \in Ids, d \in Idx : j # i \/ d # c => chunks'[j][d] = chunks[j][d]
    BY <2>1, <2>3 DEF TypeOK
  <2> QED
    BY <2>2, <2>4, <2>5 DEF NoNewPending
<1> QED
  BY <1>1, <1>2

LEMMA ClearPathPending ==
  ASSUME TypeOK, NEW i \in Ids, NEW c \in Idx, TryClearPath(i, c)
  PROVE  NoNewPending
<1>1. CASE UNCHANGED chunks
  BY <1>1 DEF NoNewPending
<1>2. CASE HasRow(i, c) /\ ClearSpoolPath(i, c)
  <2> DEFINE x == [chunks[i][c] EXCEPT !.path = None]
  <2>1. chunks[i][c] \in ChunkRow /\ chunks[i] \in [Idx -> ChunkRow]
    BY DEF TypeOK
  <2>2. x.state = chunks[i][c].state
    BY <2>1 DEF ChunkRow
  <2>3. chunks' = [chunks EXCEPT ![i][c] = x]
    BY <1>2 DEF ClearSpoolPath
  <2> HIDE DEF x
  <2>4. chunks'[i][c] = x
    BY <2>1, <2>3 DEF TypeOK
  <2>5. \A j \in Ids, d \in Idx : j # i \/ d # c => chunks'[j][d] = chunks[j][d]
    BY <2>1, <2>3 DEF TypeOK
  <2> QED
    BY <2>2, <2>4, <2>5 DEF NoNewPending
<1> QED
  BY <1>1, <1>2 DEF TryClearPath, ClearSpoolPath

LEMMA CollectPending ==
  ASSUME TypeOK, CollectRemote
  PROVE  NoNewPending
<1> SUFFICES ASSUME NEW i \in Ids, NEW c \in Idx
             PROVE  chunks'[i][c].state = chunks[i][c].state
  BY DEF NoNewPending
<1>1. chunks[i][c] \in ChunkRow
  BY DEF TypeOK
<1>2. chunks'[i][c] = chunks[i][c] \/ chunks'[i][c] = [chunks[i][c] EXCEPT !.loc = None]
  BY DEF CollectRemote
<1> QED
  BY <1>1, <1>2 DEF ChunkRow

\* A step that only updates chunk rows.
LEMMA RowsChange ==
  ASSUME JobInv, UNCHANGED <<objects, jobs, req>>, NoNewPending
  PROVE  QueueInv' /\ JobsOnlyShrink /\ RequestsStayClosed
<1>1. KindsStay /\ NoNewJob /\ LiveStays /\ RequestsStayClosed
  BY SameRequests DEF KindsStay, NoNewJob, LiveStays
<1>2. JobsOnlyShrink
  BY <1>1, Shrink DEF JobInv
<1> QED
  BY <1>1, <1>2, QueueKeeps

LEMMA JobsCommitLocator ==
  ASSUME JobInv, TypeInv', NEW w \in Workers, CommitLocator(w)
  PROVE  JobInv'
<1>1. PICK c \in wk[w].todo :
         /\ SetLocator(wk[w].version, c, wk[w].loc)
         /\ WorkerBecomes(w, [wk[w] EXCEPT !.pc = "uploading", !.todo = @ \ {c}, !.loc = None])
  BY DEF CommitLocator
<1>2. wk[w].pc = "sent" /\ UNCHANGED <<objects, jobs, req>>
  BY DEF CommitLocator
<1>3. wk[w] \in Worker /\ wk[w].version \in Ids /\ c \in Idx
  BY <1>2 DEF JobInv, TypeInv, TypeOK, WorkerShape, Worker
<1>4. NoNewPending /\ chunks'[wk[w].version][c].state # "pending"
  BY <1>1, <1>3, SetLocatorPending DEF JobInv, TypeInv
<1>5. QueueInv' /\ JobsOnlyShrink /\ RequestsStayClosed
  BY <1>2, <1>4, RowsChange
<1>6. WorkerInv(w)'
  <2>1. wk'[w] = [wk[w] EXCEPT !.pc = "uploading", !.todo = @ \ {c}, !.loc = None]
    BY <1>1 DEF WorkerBecomes, JobInv, TypeInv, TypeOK
  <2>2. wk'[w].pc = "uploading" /\ wk'[w].job = wk[w].job /\ wk'[w].version = wk[w].version
          /\ wk'[w].todo = wk[w].todo \ {c}
    BY <1>3, <2>1 DEF Worker
  <2>3. WorkerInv(w)
    BY DEF JobInv
  <2> QED
    BY <1>2, <1>3, <1>4, <2>2, <2>3
       DEF WorkerInv, HoldsJob, Held, CoversChunks, EndsClean, NoNewPending
<1> QED
  BY <1>1, <1>5, <1>6, OthersWait DEF JobInv

LEMMA JobsClearPath ==
  ASSUME JobInv, TypeInv', NEW w \in Workers, ClearPath(w)
  PROVE  JobInv'
<1>1. PICK c \in wk[w].clean :
         /\ TryClearPath(wk[w].version, c)
         /\ WorkerBecomes(w, IF wk[w].clean = {c} THEN WorkerAt("idle")
                             ELSE [wk[w] EXCEPT !.pc = "cleaning", !.clean = @ \ {c}])
  BY DEF ClearPath
<1>2. wk[w].pc = "removed" /\ UNCHANGED <<objects, jobs, req>>
  BY DEF ClearPath
<1>3. wk[w] \in Worker /\ wk[w].version \in Ids /\ c \in Idx
  BY <1>2 DEF JobInv, TypeInv, TypeOK, WorkerShape, Worker
<1>4. NoNewPending
  BY <1>1, <1>3, ClearPathPending DEF JobInv, TypeInv
<1>5. QueueInv' /\ JobsOnlyShrink /\ RequestsStayClosed
  BY <1>2, <1>4, RowsChange
<1>6. WorkerInv(w)'
  <2>1. CASE WorkerBecomes(w, WorkerAt("idle"))
    BY <2>1, RestedInv DEF JobInv
  <2>2. CASE WorkerBecomes(w, [wk[w] EXCEPT !.pc = "cleaning", !.clean = @ \ {c}])
    <3>1. wk'[w] = [wk[w] EXCEPT !.pc = "cleaning", !.clean = @ \ {c}]
      BY <2>2 DEF WorkerBecomes, JobInv, TypeInv, TypeOK
    <3>2. wk'[w].pc = "cleaning" /\ wk'[w].job = wk[w].job /\ wk'[w].version = wk[w].version
      BY <1>3, <3>1 DEF Worker
    <3>3. WorkerInv(w)
      BY DEF JobInv
    <3> QED
      BY <1>2, <3>2, <3>3 DEF WorkerInv, HoldsJob, Held, CoversChunks, EndsClean
  <2> QED
    BY <1>1, <2>1, <2>2
<1> QED
  BY <1>1, <1>5, <1>6, OthersWait DEF JobInv

LEMMA JobsFreeRow ==
  ASSUME JobInv, TypeInv', FreeRow
  PROVE  JobInv'
<1>1. gc.row[1] \in Ids /\ gc.row[2] \in Idx
  BY DEF FreeRow, JobInv, TypeInv, GcShape
<1>2. NoNewPending
  BY <1>1, ClearPathPending DEF FreeRow, JobInv, TypeInv
<1> QED
  BY <1>2, RowsChange, AllWait DEF FreeRow, JobInv

LEMMA JobsCollectRemote ==
  ASSUME JobInv, TypeInv', CollectRemote
  PROVE  JobInv'
<1>1. NoNewPending
  BY CollectPending DEF JobInv, TypeInv
<1> QED
  BY <1>1, RowsChange, AllWait DEF CollectRemote, JobInv

-----------------------------------------------------------------------------
(* Updates of jobs: none creates a job or gives it another version *)

LEMMA SetJobKeeps ==
  ASSUME TypeOK, NEW r \in Requests, NEW state, state # "none", NEW due,
         jobs' = SetJob(r, state, due)
  PROVE  /\ NoNewJob
         /\ \A q \in Requests : q # r => jobs'[q] = jobs[q]
         /\ jobs[r].state # "none" => jobs'[r].state = state /\ jobs'[r].version = jobs[r].version
<1>1. CASE jobs[r].state = "none"
  BY <1>1 DEF SetJob, NoNewJob
<1>2. CASE jobs[r].state # "none"
  <2> DEFINE x == [jobs[r] EXCEPT !.state = state, !.leased = FALSE, !.due = due]
  <2>1. jobs[r] \in JobRow
    BY DEF TypeOK
  <2>2. x.state = state /\ x.version = jobs[r].version
    BY <2>1 DEF JobRow
  <2>3. jobs' = [jobs EXCEPT ![r] = x]
    BY <1>2 DEF SetJob
  <2> HIDE DEF x
  <2>4. jobs'[r] = x /\ \A q \in Requests : q # r => jobs'[q] = jobs[q]
    BY <2>3 DEF TypeOK
  <2> QED
    BY <1>2, <2>2, <2>4 DEF NoNewJob
<1> QED
  BY <1>1, <1>2

\* A step that only updates jobs, and leaves those that are alive alive.
LEMMA JobsChange ==
  ASSUME JobInv, UNCHANGED <<objects, chunks, req>>, NoNewJob, LiveStays
  PROVE  QueueInv' /\ JobsOnlyShrink /\ RequestsStayClosed
<1>1. KindsStay /\ NoNewPending /\ RequestsStayClosed
  BY SameRequests DEF KindsStay, NoNewPending
<1>2. JobsOnlyShrink
  BY <1>1, Shrink DEF JobInv
<1> QED
  BY <1>1, <1>2, QueueKeeps

LEMMA JobsBoot ==
  ASSUME JobInv, TypeInv', NEW w \in Workers, Boot(w)
  PROVE  JobInv'
<1>1. \A r \in Requests :
        jobs'[r].version = jobs[r].version
          /\ (jobs'[r].state = jobs[r].state \/ (jobs[r].state = "failed" /\ jobs'[r].state = "pending"))
  <2> SUFFICES ASSUME NEW r \in Requests
               PROVE  jobs'[r].version = jobs[r].version
                        /\ (jobs'[r].state = jobs[r].state
                              \/ (jobs[r].state = "failed" /\ jobs'[r].state = "pending"))
    OBVIOUS
  <2>1. jobs[r] \in JobRow
    BY DEF JobInv, TypeInv, TypeOK
  <2>2. jobs'[r] = IF jobs[r].state = "failed" THEN [jobs[r] EXCEPT !.state = "pending"] ELSE jobs[r]
    BY DEF Boot
  <2> QED
    BY <2>1, <2>2 DEF JobRow
<1>2. NoNewJob /\ LiveStays
  BY <1>1 DEF NoNewJob, LiveStays, Live
<1>3. UNCHANGED <<objects, chunks, req>> /\ WorkerBecomes(w, WorkerAt("idle"))
  BY DEF Boot, GoIdle
<1> QED
  BY <1>2, <1>3, JobsChange, RestedInv, OthersWait DEF JobInv

LEMMA JobsClaim ==
  ASSUME JobInv, TypeInv', NEW w \in Workers, Claim(w)
  PROVE  JobInv'
<1> DEFINE j == wk[w].job
           x == [jobs[j] EXCEPT !.state = "uploading", !.leased = TRUE]
<1>1. /\ wk[w].pc = "selected" /\ Claimable(j) /\ UNCHANGED <<objects, chunks, req>>
      /\ jobs' = [jobs EXCEPT ![j] = x]
      /\ WorkerBecomes(w, [wk[w] EXCEPT !.pc = "claimed"])
  BY DEF Claim
<1>2. j \in Requests /\ wk[w] \in Worker
  BY <1>1 DEF JobInv, TypeInv, TypeOK, WorkerShape
<1>3. jobs[j] \in JobRow /\ jobs[j].state # "none"
  BY <1>1, <1>2 DEF Claimable, JobInv, TypeInv, TypeOK
<1>4. x.state = "uploading" /\ x.version = jobs[j].version
  BY <1>3 DEF JobRow
<1>5. jobs'[j] = x /\ \A q \in Requests : q # j => jobs'[q] = jobs[q]
  BY <1>1, <1>2 DEF JobInv, TypeInv, TypeOK
<1>6. NoNewJob /\ LiveStays
  <2> HIDE DEF x
  <2> QED
    BY <1>3, <1>4, <1>5 DEF NoNewJob, LiveStays, Live
<1>7. QueueInv' /\ JobsOnlyShrink /\ RequestsStayClosed
  BY <1>1, <1>6, JobsChange
<1>8. WorkerInv(w)'
  <2>1. wk'[w] = [wk[w] EXCEPT !.pc = "claimed"]
    BY <1>1 DEF WorkerBecomes, JobInv, TypeInv, TypeOK
  <2>2. wk'[w].pc = "claimed" /\ wk'[w].job = j /\ wk'[w].version = wk[w].version
    BY <1>2, <2>1 DEF Worker
  <2>3. WorkerInv(w)
    BY DEF JobInv
  <2> QED
    BY <1>1, <1>3, <1>4, <1>5, <2>2, <2>3 DEF WorkerInv, HoldsJob, Held, CoversChunks, EndsClean
<1> QED
  BY <1>1, <1>7, <1>8, OthersWait DEF JobInv

\* The version is gone, so its jobs are gone too: `done` hits no row.
LEMMA JobsSkipGone ==
  ASSUME JobInv, TypeInv', NEW w \in Workers, SkipGone(w)
  PROVE  JobInv'
<1>1. /\ wk[w].pc = "claimed" /\ objects[wk[w].version].kind = "none"
      /\ jobs' = SetJob(wk[w].job, "done", jobs[wk[w].job].due)
      /\ UNCHANGED <<objects, chunks, req>> /\ WorkerBecomes(w, WorkerAt("idle"))
  BY DEF SkipGone, GoIdle
<1>2. wk[w].job \in Requests /\ WorkerInv(w)
  BY <1>1 DEF JobInv, TypeInv, WorkerShape
<1>3. jobs[wk[w].job].state = "none"
  BY <1>1, <1>2 DEF WorkerInv, HoldsJob, Held, JobInv, QueueInv, JobsOwnLiveVersions
<1>4. UNCHANGED jobs
  BY <1>1, <1>3 DEF SetJob
<1> QED
  BY <1>1, <1>4, WorkerStops

LEMMA JobsFailUpload ==
  ASSUME JobInv, TypeInv', NEW w \in Workers, FailUpload(w)
  PROVE  JobInv'
<1>1. wk[w].pc = "uploading" /\ UNCHANGED <<objects, chunks, req>>
        /\ WorkerBecomes(w, WorkerAt("idle"))
  BY DEF FailUpload, NextChunk, GoIdle
<1>2. wk[w].job \in Requests
  BY <1>1 DEF JobInv, TypeInv, WorkerShape
<1>3. PICK state \in {"pending", "failed"} : \E due : jobs' = SetJob(wk[w].job, state, due)
  BY DEF FailUpload
<1>4. NoNewJob /\ LiveStays
  BY <1>2, <1>3, SetJobKeeps DEF JobInv, TypeInv, LiveStays, Live
<1> QED
  BY <1>1, <1>4, JobsChange, RestedInv, OthersWait DEF JobInv

LEMMA JobsMarkRemote ==
  ASSUME JobInv, TypeInv', NEW w \in Workers, MarkRemote(w)
  PROVE  JobInv'
<1>1. wk[w].pc = "found" /\ UNCHANGED <<chunks, jobs, req>>
        /\ WorkerBecomes(w, [wk[w] EXCEPT !.pc = "marked"])
  BY DEF MarkRemote
<1>2. wk[w] \in Worker /\ wk[w].version \in Ids
  BY <1>1 DEF JobInv, TypeInv, TypeOK, WorkerShape
<1>3. KindsStay
  <2> DEFINE v == wk[w].version
             x == [objects[v] EXCEPT !.remote = TRUE]
  <2>1. objects[v] \in ObjectRow /\ objects \in [Ids -> ObjectRow]
    BY <1>2 DEF JobInv, TypeInv, TypeOK
  <2>2. x.kind = objects[v].kind
    BY <2>1 DEF ObjectRow
  <2>3. objects' = objects \/ objects' = [objects EXCEPT ![v] = x]
    BY DEF MarkRemote
  <2> HIDE DEF x
  <2> QED
    BY <2>1, <2>2, <2>3 DEF KindsStay
<1>4. NoNewPending /\ NoNewJob /\ LiveStays /\ RequestsStayClosed
  BY <1>1, SameRequests DEF NoNewPending, NoNewJob, LiveStays
<1>5. QueueInv' /\ JobsOnlyShrink
  BY <1>3, <1>4, QueueKeeps, Shrink DEF JobInv
<1>6. WorkerInv(w)'
  <2>1. wk'[w] = [wk[w] EXCEPT !.pc = "marked"]
    BY <1>1 DEF WorkerBecomes, JobInv, TypeInv, TypeOK
  <2>2. wk'[w].pc = "marked" /\ wk'[w].job = wk[w].job /\ wk'[w].version = wk[w].version
          /\ wk'[w].todo = wk[w].todo
    BY <1>2, <2>1 DEF Worker
  <2>3. WorkerInv(w)
    BY DEF JobInv
  <2> QED
    BY <1>1, <2>2, <2>3 DEF WorkerInv, HoldsJob, Held, CoversChunks, EndsClean
<1> QED
  BY <1>1, <1>4, <1>5, <1>6, OthersWait DEF JobInv

\* The one step that ends a job: the worker has covered every chunk.
LEMMA JobsEndJob ==
  ASSUME JobInv, TypeInv', NEW w \in Workers, EndJob(w)
  PROVE  JobInv'
<1> DEFINE j == wk[w].job
           files == {c \in Idx : wk[w].snap[c] # None}
<1>1. /\ wk[w].pc = "marked" /\ UNCHANGED <<objects, chunks, req>>
      /\ jobs' = SetJob(j, "done", jobs[j].due)
      /\ \/ WorkerBecomes(w, WorkerAt("idle"))
         \/ WorkerBecomes(w, [wk[w] EXCEPT !.pc = "cleaning", !.clean = files])
  BY DEF EndJob
<1>2. j \in Requests /\ wk[w].version \in Ids /\ wk[w] \in Worker /\ WorkerInv(w)
  BY <1>1 DEF JobInv, TypeInv, TypeOK, WorkerShape
<1>3. NoNewJob /\ \A q \in Requests : q # j => jobs'[q] = jobs[q]
  BY <1>1, <1>2, SetJobKeeps DEF JobInv, TypeInv
<1>4. KindsStay /\ NoNewPending /\ RequestsStayClosed /\ JobsOnlyShrink
  BY <1>1, <1>3, SameRequests, Shrink DEF KindsStay, NoNewPending, JobInv
<1>5. QueueInv'
  <2>1. NoForgottenChunk'
    <3> SUFFICES ASSUME NEW i \in Ids, NEW c \in Idx, chunks[i][c].state = "pending"
                 PROVE  \E r \in Requests : jobs'[r].version = i /\ jobs'[r].state \in Live
      BY <1>1 DEF NoForgottenChunk, Live
    <3>1. PICK r \in Requests : jobs[r].version = i /\ jobs[r].state \in Live
      BY DEF JobInv, QueueInv, NoForgottenChunk, Live
    <3>2. r # j
      BY <1>1, <1>2, <3>1 DEF WorkerInv, HoldsJob, CoversChunks, EndsClean, Held, Live
    <3> QED
      BY <1>3, <3>1, <3>2
  <2>2. JobsOwnLiveVersions'
    BY <1>3, <1>4 DEF JobInv, TypeInv, JobShape, QueueInv, JobsOwnLiveVersions, KindsStay, NoNewJob
  <2>3. JobsOfClosed'
    BY <1>3, <1>4 DEF JobInv, QueueInv, JobsOfClosed, RequestsStayClosed, NoNewJob
  <2> QED
    BY <2>1, <2>2, <2>3 DEF QueueInv
<1>6. WorkerInv(w)'
  <2>1. CASE WorkerBecomes(w, WorkerAt("idle"))
    BY <2>1, RestedInv DEF JobInv
  <2>2. CASE WorkerBecomes(w, [wk[w] EXCEPT !.pc = "cleaning", !.clean = files])
    <3>1. wk'[w] = [wk[w] EXCEPT !.pc = "cleaning", !.clean = files]
      BY <2>2 DEF WorkerBecomes, JobInv, TypeInv, TypeOK
    <3> HIDE DEF files
    <3>2. wk'[w].pc = "cleaning" /\ wk'[w].job = j /\ wk'[w].version = wk[w].version
      BY <1>2, <3>1 DEF Worker
    <3> QED
      BY <1>1, <1>2, <1>3, <3>2
         DEF WorkerInv, HoldsJob, Held, CoversChunks, EndsClean, NoNewJob
  <2> QED
    BY <1>1, <2>1, <2>2
<1>7. \A q \in Workers : WorkerInv(q)'
  BY <1>1, <1>4, <1>6, OthersWait
<1> QED
  BY <1>5, <1>7 DEF JobInv

LEMMA JobsExpireLease ==
  ASSUME JobInv, TypeInv', NEW r \in Requests, ExpireLease(r)
  PROVE  JobInv'
<1> DEFINE x == [jobs[r] EXCEPT !.leased = FALSE]
<1>1. jobs' = [jobs EXCEPT ![r] = x] /\ UNCHANGED <<objects, chunks, req, wk>>
  BY DEF ExpireLease
<1>2. x.state = jobs[r].state /\ x.version = jobs[r].version
  BY DEF JobInv, TypeInv, TypeOK, JobRow
<1>3. NoNewJob /\ LiveStays
  <2> HIDE DEF x
  <2> QED
    BY <1>1, <1>2 DEF NoNewJob, LiveStays, JobInv, TypeInv, TypeOK
<1> QED
  BY <1>1, <1>3, JobsChange, AllWait DEF JobInv

LEMMA JobsEndBackoff ==
  ASSUME JobInv, TypeInv', NEW r \in Requests, EndBackoff(r)
  PROVE  JobInv'
<1> DEFINE x == [jobs[r] EXCEPT !.due = TRUE]
<1>1. jobs' = [jobs EXCEPT ![r] = x] /\ UNCHANGED <<objects, chunks, req, wk>>
  BY DEF EndBackoff
<1>2. x.state = jobs[r].state /\ x.version = jobs[r].version
  BY DEF JobInv, TypeInv, TypeOK, JobRow
<1>3. NoNewJob /\ LiveStays
  <2> HIDE DEF x
  <2> QED
    BY <1>1, <1>2 DEF NoNewJob, LiveStays, JobInv, TypeInv, TypeOK
<1> QED
  BY <1>1, <1>3, JobsChange, AllWait DEF JobInv

-----------------------------------------------------------------------------
(* Writes and deletes *)

\* Dropping versions takes their chunks and jobs along.
LEMMA WithoutKeeps ==
  ASSUME JobInv, NEW S \in SUBSET Ids
  PROVE  /\ \A i \in Ids : i \notin S => ObjectsWithout(S)[i] = objects[i]
         /\ \A i \in Ids : i \notin S => ChunksWithout(S)[i] = chunks[i]
         /\ \A i \in S, c \in Idx : ChunksWithout(S)[i][c].state = "none"
         /\ \A r \in Requests : JobsWithout(S)[r].state # "none" =>
              JobsWithout(S)[r] = jobs[r] /\ jobs[r].version \in Ids \ S
         /\ \A r \in Requests : jobs[r].version \notin S => JobsWithout(S)[r] = jobs[r]
<1>1. NoChunk.state = "none" /\ NoJob.state = "none"
  BY DEF NoChunk, NoJob
<1> QED
  BY <1>1 DEF ObjectsWithout, ChunksWithout, JobsWithout, JobInv, TypeInv, JobShape

LEMMA JobsDropVersions ==
  ASSUME JobInv, NEW S \in SUBSET Ids, DropVersions(S), RequestsStayClosed
  PROVE  QueueInv' /\ JobsOnlyShrink
<1>1. /\ objects' = ObjectsWithout(S)
      /\ chunks' = ChunksWithout(S)
      /\ jobs' = JobsWithout(S)
  BY DEF DropVersions
<1>2. NoForgottenChunk'
  <2> SUFFICES ASSUME NEW i \in Ids, NEW c \in Idx, chunks'[i][c].state = "pending"
               PROVE  \E r \in Requests : jobs'[r].version = i /\ jobs'[r].state \in Live
    BY DEF NoForgottenChunk, Live
  <2>1. i \notin S /\ chunks[i][c].state = "pending"
    BY <1>1, WithoutKeeps
  <2>2. PICK r \in Requests : jobs[r].version = i /\ jobs[r].state \in Live
    BY <2>1 DEF JobInv, QueueInv, NoForgottenChunk, Live
  <2> QED
    BY <1>1, <2>1, <2>2, WithoutKeeps
<1>3. \A r \in Requests : jobs'[r].state # "none" =>
        /\ jobs'[r] = jobs[r]
        /\ objects'[jobs[r].version] = objects[jobs[r].version]
        /\ chunks'[jobs[r].version] = chunks[jobs[r].version]
  BY <1>1, WithoutKeeps
<1>4. JobsOwnLiveVersions' /\ JobsOfClosed'
  BY <1>3 DEF JobInv, QueueInv, JobsOwnLiveVersions, JobsOfClosed, RequestsStayClosed
<1>5. JobsOnlyShrink
  BY <1>3 DEF JobsOnlyShrink
<1> QED
  BY <1>2, <1>4, <1>5 DEF QueueInv

LEMMA JobsWriteVersion ==
  ASSUME JobInv, NEW r \in Requests, NEW i \in Ids, NEW k, NEW kind, NEW data, NEW rows, NEW queued,
         WriteVersion(r, i, k, kind, data, rows, queued),
         req[r].pc # "closed", req'[r].pc = "closed", RequestsStayClosed,
         queued => kind = "data",
         \A c \in Idx : rows[c].state = "pending" => queued
  PROVE  QueueInv' /\ JobsOnlyShrink
<1> DEFINE S == Replaced(k)
           row == [kind |-> kind, key |-> k, remote |-> FALSE, seq |-> clock + 1, data |-> data]
           job == [state |-> "pending", version |-> i, leased |-> FALSE, due |-> TRUE]
<1>1. S \in SUBSET Ids
  BY ReplacedType DEF JobInv, TypeInv
<1>2. /\ objects' = [ObjectsWithout(S) EXCEPT ![i] = row]
      /\ chunks' = [ChunksWithout(S) EXCEPT ![i] = rows]
      /\ objects[i].kind = "none" \/ i \in S
  BY DEF WriteVersion, IdTaken
<1>3. jobs' = IF queued THEN [JobsWithout(S) EXCEPT ![r] = job] ELSE JobsWithout(S)
  BY DEF WriteVersion
<1>4. /\ ObjectsWithout(S) \in [Ids -> ObjectRow]
      /\ ChunksWithout(S) \in [Ids -> [Idx -> ChunkRow]]
      /\ JobsWithout(S) \in [Requests -> JobRow]
  BY <1>1, WithoutType DEF JobInv, TypeInv
<1>5. row.kind = kind /\ job.state = "pending" /\ job.version = i
  OBVIOUS
<1> HIDE DEF S, row, job
<1>6. objects'[i] = row /\ chunks'[i] = rows
  BY <1>2, <1>4
<1>7. \A j \in Ids : j # i => /\ objects'[j] = ObjectsWithout(S)[j]
                              /\ chunks'[j] = ChunksWithout(S)[j]
  BY <1>2, <1>4
<1>8. /\ \A q \in Requests : q # r => jobs'[q] = JobsWithout(S)[q]
      /\ jobs'[r] = IF queued THEN job ELSE JobsWithout(S)[r]
  BY <1>3, <1>4
<1>9. jobs[r].state = "none"
  BY DEF JobInv, QueueInv, JobsOfClosed
\* The id of the new version is fresh or replaced: no older job has it.
<1>10. \A q \in Requests : JobsWithout(S)[q].state # "none" =>
         q # r /\ JobsWithout(S)[q] = jobs[q] /\ jobs[q].version \in Ids \ S /\ jobs[q].version # i
  BY <1>1, <1>2, <1>9, WithoutKeeps DEF JobInv, QueueInv, JobsOwnLiveVersions
<1>11. NoForgottenChunk'
  <2> SUFFICES ASSUME NEW j \in Ids, NEW c \in Idx, chunks'[j][c].state = "pending"
               PROVE  \E q \in Requests : jobs'[q].version = j /\ jobs'[q].state \in Live
    BY DEF NoForgottenChunk, Live
  <2>1. CASE j = i
    BY <1>5, <1>6, <1>8, <2>1 DEF Live
  <2>2. CASE j # i
    <3>1. j \notin S /\ chunks[j][c].state = "pending"
      BY <1>1, <1>7, <2>2, WithoutKeeps
    <3>2. PICK q \in Requests : jobs[q].version = j /\ jobs[q].state \in Live
      BY <3>1 DEF JobInv, QueueInv, NoForgottenChunk, Live
    <3>3. q # r
      BY <1>9, <3>2 DEF Live
    <3> QED
      BY <1>1, <1>8, <3>1, <3>2, <3>3, WithoutKeeps
  <2> QED
    BY <2>1, <2>2
<1>12. \A q \in Requests : q # r /\ jobs'[q].state # "none" =>
         /\ jobs'[q] = jobs[q]
         /\ objects'[jobs[q].version] = objects[jobs[q].version]
         /\ chunks'[jobs[q].version] = chunks[jobs[q].version]
  BY <1>1, <1>7, <1>8, <1>10, WithoutKeeps
<1>13. jobs'[r].state # "none" => queued /\ jobs'[r].version = i
  BY <1>5, <1>8, <1>10
<1>14. JobsOwnLiveVersions'
  <2> SUFFICES ASSUME NEW q \in Requests, jobs'[q].state # "none"
               PROVE  objects'[jobs'[q].version].kind = "data"
    BY DEF JobsOwnLiveVersions
  <2>1. CASE q = r
    BY <1>5, <1>6, <1>13, <2>1
  <2>2. CASE q # r
    BY <1>12, <2>2 DEF JobInv, QueueInv, JobsOwnLiveVersions
  <2> QED
    BY <2>1, <2>2
<1>15. JobsOfClosed'
  BY <1>12 DEF JobInv, QueueInv, JobsOfClosed, RequestsStayClosed
<1>16. JobsOnlyShrink
  BY <1>12 DEF JobsOnlyShrink
<1> QED
  BY <1>11, <1>14, <1>15, <1>16 DEF QueueInv

LEMMA LeaveCloses ==
  ASSUME TypeInv, NEW r \in Requests, NEW files, NEW locators, Leave(r, files, locators)
  PROVE  req'[r].pc = "closed" /\ RequestsStayClosed
<1>1. Closed.pc = "closed" /\ [Closed EXCEPT !.rm = files, !.rmBlobs = locators].pc = "closed"
  BY DEF Closed, NewRequest
<1>2. PICK x : RequestBecomes(r, x) /\ x.pc = "closed"
  BY <1>1 DEF Leave
<1> QED
  BY <1>2, OneRequest DEF RequestBecomes, TypeInv, TypeOK

LEMMA JobsCommitPut ==
  ASSUME JobInv, TypeInv', NEW r \in Requests, CommitPut(r)
  PROVE  JobInv'
<1> DEFINE rows == [c \in Idx |-> [state |-> "pending", path |-> <<r, c>>, loc |-> None]]
<1>1. /\ WriteVersion(r, FinalId(r, r), req[r].key, "data", r, rows, TRUE)
      /\ req[r].pc = "writing" /\ UNCHANGED wk
  BY DEF CommitPut
<1>2. req'[r].pc = "closed" /\ RequestsStayClosed
  BY LeaveCloses DEF CommitPut, JobInv
<1>3. FinalId(r, r) \in Ids
  BY FinalIdType DEF JobInv, TypeInv
<1> HIDE DEF rows
<1>4. QueueInv' /\ JobsOnlyShrink
  BY <1>1, <1>2, <1>3, JobsWriteVersion
<1> QED
  BY <1>1, <1>2, <1>4, AllWait DEF JobInv

LEMMA JobsCommitCopy ==
  ASSUME JobInv, TypeInv', NEW r \in Requests, CommitCopy(r)
  PROVE  JobInv'
<1> DEFINE rows == ChunksWithout(Replaced(req[r].key))[req[r].source]
           queued == \E c \in Idx : rows[c].state = "pending"
<1>1. /\ WriteVersion(r, FinalId(r, r), req[r].key, "data", req[r].data, rows, queued)
      /\ req[r].pc = "ready" /\ UNCHANGED wk
  BY DEF CommitCopy
<1>2. req'[r].pc = "closed" /\ RequestsStayClosed
  BY LeaveCloses DEF CommitCopy, JobInv
<1>3. FinalId(r, r) \in Ids
  BY FinalIdType DEF JobInv, TypeInv
<1>4. \A c \in Idx : rows[c].state = "pending" => queued
  OBVIOUS
<1> HIDE DEF rows, queued
<1>5. QueueInv' /\ JobsOnlyShrink
  BY <1>1, <1>2, <1>3, <1>4, JobsWriteVersion
<1> QED
  BY <1>1, <1>2, <1>5, AllWait DEF JobInv

LEMMA JobsCommitMarker ==
  ASSUME JobInv, TypeInv', NEW r \in Requests, CommitMarker(r)
  PROVE  JobInv'
<1> DEFINE rows == [c \in Idx |-> NoChunk]
<1>1. /\ WriteVersion(r, FinalId(r, Null), req[r].key, "marker", None, rows, FALSE)
      /\ req[r].pc = "ready" /\ UNCHANGED wk /\ RequestBecomes(r, Closed)
  BY DEF CommitMarker
<1>2. Closed.pc = "closed"
  BY DEF Closed, NewRequest
<1>3. req'[r].pc = "closed" /\ RequestsStayClosed
  BY <1>1, <1>2, OneRequest DEF RequestBecomes, JobInv, TypeInv, TypeOK
<1>4. FinalId(r, Null) \in Ids
  BY FinalIdType DEF JobInv, TypeInv
<1>5. \A c \in Idx : rows[c].state # "pending"
  BY DEF NoChunk
<1> HIDE DEF rows
<1>6. QueueInv' /\ JobsOnlyShrink
  BY <1>1, <1>3, <1>4, <1>5, JobsWriteVersion
<1> QED
  BY <1>1, <1>3, <1>6, AllWait DEF JobInv

LEMMA JobsDropKey ==
  ASSUME JobInv, TypeInv', NEW r \in Requests, NEW k, NEW locators, DropKey(r, k, locators)
  PROVE  JobInv'
<1>1. VersionsOf(k) \in SUBSET Ids
  BY DEF VersionsOf
<1>2. DropVersions(VersionsOf(k)) /\ UNCHANGED wk
  BY DEF DropKey
<1>3. RequestsStayClosed
  BY LeaveCloses DEF DropKey, JobInv
<1> QED
  BY <1>1, <1>2, <1>3, JobsDropVersions, AllWait DEF JobInv

LEMMA JobsDeleteVersion ==
  ASSUME JobInv, TypeInv', NEW r \in Requests, NEW i \in Ids, DeleteVersion(r, i)
  PROVE  JobInv'
<1>1. DropVersions({i}) /\ UNCHANGED wk
  BY DEF DeleteVersion
<1>2. RequestsStayClosed
  BY LeaveCloses DEF DeleteVersion, JobInv
<1> QED
  BY <1>1, <1>2, JobsDropVersions, AllWait DEF JobInv

\* The steps of a handler that touch no table.
LEMMA JobsQuietRequest ==
  ASSUME JobInv, TypeInv', NEW r \in Requests,
         \/ \E k \in Keys : BeginPut(r, k) \/ BeginCopy(r, k) \/ BeginDelete(r, k)
         \/ SpoolChunk(r) \/ AbandonPut(r) \/ RefuseWrite(r)
         \/ RemoveOldSpool(r) \/ RemoveOldBlob(r) \/ DropRequest(r)
  PROVE  JobInv'
<1> USE DEF tables
<1>1. Closed.pc = "closed" /\ req[r] \in Request
  BY DEF Closed, NewRequest, JobInv, TypeInv, TypeOK
<1>2. UNCHANGED <<objects, chunks, jobs, wk>>
  BY DEF BeginPut, BeginCopy, BeginDelete, SpoolChunk, AbandonPut, RefuseWrite, RemoveOldSpool,
         RemoveOldBlob, DropRequest
<1>3. \E x : RequestBecomes(r, x) /\ (req[r].pc = "closed" => x.pc = "closed")
  <2>1. CASE \E k \in Keys : BeginPut(r, k) \/ BeginCopy(r, k) \/ BeginDelete(r, k)
    BY <2>1 DEF BeginPut, BeginCopy, BeginDelete
  <2>2. CASE SpoolChunk(r)
    BY <2>2 DEF SpoolChunk
  <2>3. CASE AbandonPut(r) \/ RefuseWrite(r) \/ DropRequest(r)
    BY <1>1, <2>3 DEF AbandonPut, RefuseWrite, DropRequest
  <2>4. CASE RemoveOldSpool(r)
    <3>1. PICK p : RequestBecomes(r, [req[r] EXCEPT !.rm = @ \ {p}])
      BY <2>4 DEF RemoveOldSpool
    <3>2. [req[r] EXCEPT !.rm = @ \ {p}].pc = req[r].pc
      BY <1>1 DEF Request
    <3> QED
      BY <3>1, <3>2
  <2>5. CASE RemoveOldBlob(r)
    <3>1. PICK l : RequestBecomes(r, [req[r] EXCEPT !.rmBlobs = @ \ {l}])
      BY <2>5 DEF RemoveOldBlob
    <3>2. [req[r] EXCEPT !.rmBlobs = @ \ {l}].pc = req[r].pc
      BY <1>1 DEF Request
    <3> QED
      BY <3>1, <3>2
  <2> QED
    BY <2>1, <2>2, <2>3, <2>4, <2>5
<1>4. RequestsStayClosed
  BY <1>3, OneRequest DEF JobInv
<1> QED
  BY <1>2, <1>4, Quiet

-----------------------------------------------------------------------------
(* Every step *)

LEMMA JobsInit == Init => JobInv
<1> SUFFICES ASSUME Init
             PROVE  JobInv
  OBVIOUS
<1>1. TypeInv
  BY TypeInit
<1>2. \A i \in Ids, c \in Idx : chunks[i][c].state = "none"
  BY DEF Init, NoChunk
<1>3. \A r \in Requests : jobs[r].state = "none"
  BY DEF Init, NoJob
<1>4. \A w \in Workers : wk[w].pc = "boot"
  BY DEF Init, WorkerAt
<1> QED
  BY <1>1, <1>2, <1>3, <1>4
     DEF JobInv, QueueInv, NoForgottenChunk, JobsOwnLiveVersions, JobsOfClosed,
         WorkerInv, HoldsJob, CoversChunks, EndsClean

LEMMA JobsHandler ==
  ASSUME JobInv, TypeInv', NEW r \in Requests, Handler(r)
  PROVE  JobInv'
  BY JobsQuietRequest, JobsCommitPut, JobsCommitCopy, JobsCommitMarker, JobsDropKey,
     JobsDeleteVersion DEF Handler, CommitDelete, Purge

LEMMA JobsUploadWorker ==
  ASSUME JobInv, TypeInv', NEW w \in Workers, UploadWorker(w)
  PROVE  JobInv'
<1>1. CASE LoseClaim(w) \/ LackFile(w) \/ WorkerError(w) \/ ChangeCredentials(w)
  BY <1>1, WorkerStops DEF LoseClaim, LackFile, WorkerError, ChangeCredentials, GoIdle, tables
<1>2. CASE Boot(w) \/ Poll(w) \/ Claim(w) \/ LoadChunks(w) \/ SkipGone(w)
  BY <1>2, JobsBoot, JobsPoll, JobsClaim, JobsLoadChunks, JobsSkipGone
<1>3. CASE Upload(w) \/ FailUpload(w) \/ CommitLocator(w) \/ FindJob(w) \/ MarkRemote(w)
  BY <1>3, JobsUpload, JobsFailUpload, JobsCommitLocator, JobsFindJob, JobsMarkRemote
<1>4. CASE EndJob(w) \/ RemoveSpool(w) \/ ClearPath(w)
  BY <1>4, JobsEndJob, JobsRemoveSpool, JobsClearPath
<1> QED
  BY <1>1, <1>2, <1>3, <1>4 DEF UploadWorker, WorkerStep

LEMMA JobsGc ==
  ASSUME JobInv, TypeInv', Gc
  PROVE  JobInv'
<1>1. CASE StartGc \/ FreeFile \/ ReadActive \/ ListSpool \/ SweepFile \/ EndSweep
  BY <1>1, Quiet, SameRequests
     DEF StartGc, FreeFile, ReadActive, ListSpool, SweepFile, EndSweep, tables
<1> QED
  BY <1>1, JobsFreeRow, JobsCollectRemote DEF Gc

LEMMA JobsRestart ==
  ASSUME JobInv, TypeInv', Restart
  PROVE  JobInv'
<1>1. Closed.pc = "closed" /\ WorkerAt("boot").pc = "boot"
  BY DEF Closed, NewRequest, WorkerAt
<1>2. UNCHANGED <<objects, chunks, jobs>> /\ RequestsStayClosed
  BY <1>1 DEF Restart, tables, RequestsStayClosed
<1>3. QueueInv'
  BY <1>2, TablesRest, QueueKeeps
<1>4. \A w \in Workers : wk'[w].pc = "boot"
  BY <1>1 DEF Restart
<1> QED
  BY <1>3, <1>4 DEF JobInv, WorkerInv, HoldsJob, CoversChunks, EndsClean

LEMMA JobsStep == JobInv /\ [Next]_vars => JobInv'
<1> SUFFICES ASSUME JobInv, [Next]_vars
             PROVE  JobInv'
  OBVIOUS
<1>1. TypeInv'
  BY TypeStep DEF JobInv
<1>2. CASE Next
  <2>1. CASE \E m \in Modes : SetVersioning(m)
    BY <1>1, <2>1, Quiet, SameRequests DEF SetVersioning
  <2>2. CASE \E r \in Requests : Handler(r) \/ ExpireLease(r) \/ EndBackoff(r)
    BY <1>1, <2>2, JobsHandler, JobsExpireLease, JobsEndBackoff
  <2>3. CASE \E w \in Workers : UploadWorker(w)
    BY <1>1, <2>3, JobsUploadWorker
  <2>4. CASE Gc \/ Restart
    BY <1>1, <2>4, JobsGc, JobsRestart
  <2> QED
    BY <1>2, <2>1, <2>2, <2>3, <2>4 DEF Next
<1>3. CASE UNCHANGED vars
  BY <1>1, <1>3, Quiet, SameRequests DEF vars, tables
<1> QED
  BY <1>2, <1>3

THEOREM JobInvariant == Spec => []JobInv
  BY JobsInit, JobsStep, PTL DEF Spec

\* Whatever the interleaving of handlers, workers, GC, expired leases, crashes
\* and restarts: as long as a row of a version is pending, a job that has not
\* been finished (finish_upload_job) is there to upload it.
THEOREM ChunksNotForgotten == Spec => []NoForgottenChunk
<1>1. JobInv => NoForgottenChunk
  BY DEF JobInv, QueueInv
<1> QED
  BY <1>1, JobInvariant, PTL

\* No delete, overwrite or delete marker leaves a job behind that would upload
\* into a version that is gone, replaced or a marker.
THEOREM JobsOwnTheirVersions == Spec => []JobsOwnLiveVersions
<1>1. JobInv => JobsOwnLiveVersions
  BY DEF JobInv, QueueInv
<1> QED
  BY <1>1, JobInvariant, PTL
=============================================================================
