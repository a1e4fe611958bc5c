---------------------------- MODULE StoreProofs ----------------------------
(***************************************************************************)
(* Nothing that was acknowledged is lost: as long as no bucket is          *)
(* Suspended, nobody copies, GC does not overlap a PUT and the startup     *)
(* query succeeds, every chunk of every version of ObjectPipeline can be   *)
(* read.  If, moreover, no DELETE acts on a status that is not the         *)
(* bucket's and nobody purges versioned buckets, the pipeline implements   *)
(* VersionStore.  For every value of the other constants.                  *)
(***************************************************************************)
EXTENDS VersionProofs

SafeUse == /\ NeverSuspended
           /\ "copy" \notin Kinds
           /\ ~SweepWhileWriting
           /\ ~StartupQueryMayFail

\* What the abstract store asks for besides: whoever drops all versions of a key
\* does so in an unversioned bucket.
StrictUse == /\ SafeUse
             /\ ~StatusMayMislead
             /\ "purge" \in Kinds => Modes \subseteq {"Disabled"}

IsPending(i, c) == chunks[i][c].state = "pending"
Ended(i) == i \in Requests /\ req[i].pc = "closed"
Dead(i) == Ended(i) /\ objects[i].kind = "none"

\* Requests: there are no copies, and the first n chunks of a PUT are in the spool.
NoCopies == \A r \in Requests : req[r].pc = "ready" => req[r].kind # "copy"
FreshRequests == \A r \in Requests : req[r].pc = "idle" => req[r].written = 0
WrittenStored ==
  \A r \in Requests : req[r].pc = "writing" => \A c \in 1..req[r].written : <<r, c>> \in spool

\* Versions: a version has the bytes and the name of its own request, and a
\* chunk that is not uploaded yet has its file.
WholeData ==
  \A i \in Ids : objects[i].kind = "data" =>
    objects[i].data = i /\ \A c \in Idx : chunks[i][c].state # "none"
PendingStored ==
  \A i \in Ids, c \in Idx :
    IsPending(i, c) => <<i, c>> \in spool /\ chunks[i][c].path = <<i, c>>

\* Whoever removes a file or a message: a worker removes files of its own
\* version, all of it uploaded; a handler those of versions that are gone; GC
\* files of rows that are remote, and files no row that is pending names.
HasSnap(w) == wk[w].pc \notin {"boot", "idle", "selected", "claimed"}
SnapOwn ==
  \A w \in Workers, c \in Idx :
    HasSnap(w) => wk[w].snap[c] \in {None, <<wk[w].version, c>>}
SentStored ==
  \A w \in Workers : wk[w].pc = "sent" =>
    /\ wk[w].loc[1][1] = wk[w].version
    /\ objects[wk[w].version].kind # "none" => wk[w].loc \in blobs
CleansDone ==
  \A w \in Workers, c \in Idx :
    wk[w].pc \in {"cleaning", "removed"} => ~IsPending(wk[w].version, c)
RmDead ==
  \A r \in Requests : /\ \A p \in req[r].rm : Dead(p[1])
                      /\ \A l \in req[r].rmBlobs : Dead(l[1][1])
GcRowsOwn ==
  /\ \A x \in gc.rows : x[3] = <<x[1], x[2]>> /\ Ended(x[1]) /\ ~IsPending(x[1], x[2])
  /\ gc.pc = "freed" => Ended(gc.row[1]) /\ ~IsPending(gc.row[1], gc.row[2])
SweepSafe ==
  gc.pc \in {"listing", "sweeping"} =>
    /\ \A r \in Requests : req[r].pc # "writing"
    /\ \A i \in Ids, c \in Idx : IsPending(i, c) => (<<i, c>> \in gc.paths <=> gc.pc = "listing")

StoreInv == /\ NoCopies /\ FreshRequests /\ WrittenStored
            /\ WholeData /\ PendingStored /\ RemoteIsStored
            /\ SnapOwn /\ SentStored /\ CleansDone /\ RmDead /\ GcRowsOwn /\ SweepSafe

Inv == JobInv /\ VersionInv /\ StoreInv

-----------------------------------------------------------------------------
(* What a step may take from the spool and from the chat *)

FileGoes(p) ==
  \/ \E r \in Requests : p \in req[r].rm
  \/ \E w \in Workers : wk[w].pc = "cleaning" /\ \E c \in Idx : p = wk[w].snap[c]
  \/ \E x \in gc.rows : p = x[3]
  \/ gc.pc = "sweeping" /\ p \in gc.paths
  \/ /\ chunks' = chunks
     /\ \E r \in Requests, c \in Idx :
          req[r].pc = "writing" /\ req'[r].pc = "closed" /\ p = <<r, c>>
  \/ /\ chunks' = chunks
     /\ p \notin ActivePaths
     /\ \A r \in Requests : req'[r].pc # "writing"

FilesMove == \A p \in spool : p \in spool' \/ FileGoes(p)
BlobsMove == \A l \in blobs : l \in blobs' \/ \E r \in Requests : l \in req[r].rmBlobs

\* What a handler is left with when it ends: what the versions named that its
\* transaction dropped.
Ousted(r, i) == req[r].pc # "closed" /\ (objects'[i].kind = "none" \/ i = FinalId(r, r))
Leaves(r) ==
  /\ \A p \in req'[r].rm :
       \/ p \in req[r].rm
       \/ p # None /\ \E i \in Ids, c \in Idx : p = chunks[i][c].path /\ Ousted(r, i)
  /\ \A l \in req'[r].rmBlobs :
       \/ l \in req[r].rmBlobs
       \/ l # None /\ \E i \in Ids, c \in Idx : l = chunks[i][c].loc /\ Ousted(r, i)

StoreMoves == FilesMove /\ BlobsMove /\ \A r \in Requests : Leaves(r)

LEMMA SameFiles ==
  ASSUME spool \subseteq spool'
  PROVE  FilesMove
  BY DEF FilesMove

LEMMA RemovedFile ==
  ASSUME NEW p, RemoveFile(p), FileGoes(p)
  PROVE  FilesMove
  BY DEF RemoveFile, FilesMove

LEMMA AbandonFiles ==
  ASSUME TypeInv, NEW r \in Requests, AbandonPut(r)
  PROVE  FilesMove
<1>1. req'[r].pc = "closed" /\ chunks' = chunks /\ req[r].pc = "writing"
  BY DEF AbandonPut, RequestBecomes, Closed, NewRequest, TypeInv, TypeOK, tables
<1>2. spool' = spool \ {<<r, c>> : c \in 1..req[r].written}
  BY DEF AbandonPut
<1>3. 1..req[r].written \subseteq Idx
  BY PipelineAssumption DEF Idx, TypeInv, TypeOK, Request
<1>4. ASSUME NEW c \in 1..req[r].written
      PROVE  FileGoes(<<r, c>>)
  BY <1>1, <1>3 DEF FileGoes
<1> QED
  BY <1>2, <1>4 DEF FilesMove

LEMMA EveryFileMove ==
  ASSUME TypeInv, SafeUse, [Next]_vars
  PROVE  FilesMove
<1>1. CASE \E r \in Requests : Handler(r)
  <2> PICK r \in Requests : Handler(r)
    BY <1>1
  <2>1. CASE RemoveOldSpool(r)
    <3>1. \E p : RemoveFile(p) /\ p \in req[r].rm
      BY <2>1 DEF RemoveOldSpool
    <3> QED
      BY <3>1, RemovedFile DEF FileGoes
  <2>2. CASE \/ \E k \in Keys : BeginPut(r, k) \/ BeginCopy(r, k) \/ BeginDelete(r, k) \/ Purge(r, k)
             \/ SpoolChunk(r) \/ CommitPut(r) \/ CommitCopy(r) \/ CommitMarker(r)
             \/ RefuseWrite(r) \/ CommitDelete(r)
             \/ \E i \in Ids : DeleteVersion(r, i)
             \/ RemoveOldBlob(r) \/ DropRequest(r)
    BY <2>2, SameFiles DEF BeginPut, BeginCopy, BeginDelete, Purge, SpoolChunk, CommitPut, CommitCopy,
         CommitMarker, RefuseWrite, CommitDelete, DeleteVersion, RemoveOldBlob, DropRequest, DropKey,
         stores
  <2> QED
    BY <2>1, <2>2, AbandonFiles DEF Handler
<1>2. CASE \E w \in Workers : UploadWorker(w)
  <2> PICK w \in Workers : UploadWorker(w)
    BY <1>2
  <2>1. CASE RemoveSpool(w)
    <3>1. \E c \in Idx : RemoveFile(wk[w].snap[c])
      BY <2>1 DEF RemoveSpool, TypeInv, TypeOK, Worker
    <3> QED
      BY <2>1, <3>1, RemovedFile DEF RemoveSpool, FileGoes
  <2>2. CASE ~RemoveSpool(w)
    BY <2>2, SameFiles DEF UploadWorker, WorkerStep, Boot, Poll, Claim, LoseClaim, LoadChunks, SkipGone,
         Upload, LackFile, FailUpload, CommitLocator, FindJob, MarkRemote, EndJob, ClearPath,
         WorkerError, ChangeCredentials, stores
  <2> QED
    BY <2>1, <2>2
<1>3. CASE Gc
  <2>1. CASE FreeFile
    <3> PICK x \in gc.rows : spool' = spool \ {x[3]} \/ UNCHANGED spool
      BY <2>1 DEF FreeFile
    <3> QED
      BY DEF FilesMove, FileGoes
  <2>2. CASE SweepFile
    <3>1. PICK p \in gc.paths : RemoveFile(p) /\ gc.pc = "sweeping"
      BY <2>2 DEF SweepFile
    <3> QED
      BY <3>1, RemovedFile DEF FileGoes
  <2>3. CASE ~FreeFile /\ ~SweepFile
    BY <1>3, <2>3, SameFiles DEF Gc, StartGc, FreeRow, ReadActive, ListSpool, EndSweep,
         CollectRemote, stores
  <2> QED
    BY <2>1, <2>2, <2>3
<1>4. CASE Restart
  <2>1. spool' = spool \cap ActivePaths /\ chunks' = chunks
    BY <1>4 DEF Restart, SafeUse, tables
  <2>2. \A r \in Requests : req'[r].pc # "writing"
    BY <1>4 DEF Restart, Closed, NewRequest
  <2> QED
    BY <2>1, <2>2 DEF FilesMove, FileGoes
<1>5. CASE \/ \E m \in Modes : SetVersioning(m)
           \/ \E r \in Requests : ExpireLease(r) \/ EndBackoff(r)
           \/ UNCHANGED vars
  BY <1>5, SameFiles DEF SetVersioning, ExpireLease, EndBackoff, vars, stores
<1> QED
  BY <1>1, <1>2, <1>3, <1>4, <1>5 DEF Next

LEMMA EveryBlobMove ==
  ASSUME IdInv, [Next]_vars
  PROVE  BlobsMove
<1>1. CASE \E r \in Requests : Handler(r)
  <2> PICK r \in Requests : Handler(r)
    BY <1>1
  <2>1. CASE RemoveOldBlob(r)
    BY <2>1 DEF RemoveOldBlob, BlobsMove
  <2>2. CASE ~RemoveOldBlob(r)
    BY <2>2 DEF Handler, BeginPut, BeginCopy, BeginDelete, Purge, SpoolChunk, CommitPut, AbandonPut,
         CommitCopy, CommitMarker, RefuseWrite, CommitDelete, DeleteVersion, RemoveOldSpool,
         DropRequest, DropKey, stores, BlobsMove
  <2> QED
    BY <2>1, <2>2
<1>2. CASE \E w \in Workers : UploadWorker(w)
  BY <1>2 DEF UploadWorker, WorkerStep, Boot, Poll, Claim, LoseClaim, LoadChunks, SkipGone, Upload,
       LackFile, FailUpload, CommitLocator, FindJob, MarkRemote, EndJob, RemoveSpool, ClearPath,
       WorkerError, ChangeCredentials, StoreMessage, stores, BlobsMove
<1>3. CASE Gc
  <2>1. CASE CollectRemote
    <3>1. \A i \in Ids, c \in Idx : ~Deletable(i, c)
      BY DEF Deletable, IdInv, RowsOfData, EmptyRows
    <3>2. blobs' = blobs \ {chunks[x[1]][x[2]].loc : x \in {y \in Ids \X Idx : Deletable(y[1], y[2])}}
      BY <2>1 DEF CollectRemote
    <3> QED
      BY <3>1, <3>2 DEF BlobsMove
  <2>2. CASE ~CollectRemote
    BY <1>3, <2>2 DEF Gc, StartGc, FreeFile, FreeRow, ReadActive, ListSpool, SweepFile, EndSweep,
         stores, BlobsMove
  <2> QED
    BY <2>1, <2>2
<1>4. CASE \/ \E m \in Modes : SetVersioning(m)
           \/ \E r \in Requests : ExpireLease(r) \/ EndBackoff(r)
           \/ Restart
           \/ UNCHANGED vars
  BY <1>4 DEF SetVersioning, ExpireLease, EndBackoff, Restart, vars, stores, BlobsMove
<1> QED
  BY <1>1, <1>2, <1>3, <1>4 DEF Next

\* A handler that commits leaves with paths and locators of the versions S.
LEMMA CommitLeaves ==
  ASSUME TypeInv, NEW r \in Requests, req[r].pc # "closed", NEW S \in SUBSET Ids,
         \A i \in S : objects'[i].kind = "none" \/ i = FinalId(r, r),
         NEW locators, locators \in {{}, RemoteLocators(S)},
         Leave(r, SpoolPaths(S), locators)
  PROVE  \A q \in Requests : Leaves(q)
<1> DEFINE x == [Closed EXCEPT !.rm = SpoolPaths(S), !.rmBlobs = locators]
<1>1. /\ x.rm = SpoolPaths(S) /\ x.rmBlobs = locators
      /\ Closed.rm = {} /\ Closed.rmBlobs = {}
  BY DEF Closed, NewRequest
<1>2. PICK y \in {x, Closed} : RequestBecomes(r, y)
  BY DEF Leave
<1> HIDE DEF x
<1>3. req'[r] = y /\ \A q \in Requests : q # r => req'[q] = req[q]
  BY <1>2, RequestIs DEF TypeInv
<1>4. req'[r].rm \subseteq SpoolPaths(S) /\ req'[r].rmBlobs \subseteq RemoteLocators(S)
  BY <1>1, <1>2, <1>3
<1>5. \A i \in S : Ousted(r, i)
  BY DEF Ousted
<1>6. ASSUME NEW p \in SpoolPaths(S)
      PROVE  p # None /\ \E i \in Ids, c \in Idx : p = chunks[i][c].path /\ Ousted(r, i)
  BY <1>5, <1>6 DEF SpoolPaths
<1>7. ASSUME NEW l \in RemoteLocators(S)
      PROVE  l # None /\ \E i \in Ids, c \in Idx : l = chunks[i][c].loc /\ Ousted(r, i)
  BY <1>5, <1>7 DEF RemoteLocators
<1>8. Leaves(r)
  BY <1>4, <1>6, <1>7 DEF Leaves
<1> QED
  BY <1>3, <1>8 DEF Leaves

\* Every other step leaves no more than was left before.
LEMMA NothingLeft ==
  ASSUME \A q \in Requests : req'[q].rm \subseteq req[q].rm /\ req'[q].rmBlobs \subseteq req[q].rmBlobs
  PROVE  \A q \in Requests : Leaves(q)
  BY DEF Leaves

LEMMA LeavesLess ==
  ASSUME TypeInv, NEW r \in Requests, NEW x, RequestBecomes(r, x),
         x.rm \subseteq req[r].rm, x.rmBlobs \subseteq req[r].rmBlobs
  PROVE  \A q \in Requests : Leaves(q)
<1>1. req'[r] = x /\ \A q \in Requests : q # r => req'[q] = req[q]
  BY RequestIs DEF TypeInv
<1> QED
  BY <1>1, NothingLeft

\* A step of a handler that does not end its request.
GoesOn(r, x) == /\ RequestBecomes(r, x)
                /\ x.rm \subseteq req[r].rm /\ x.rmBlobs \subseteq req[r].rmBlobs
                /\ x.pc = "closed" <=> req[r].pc = "closed"

LEMMA HandlerGoesOn ==
  ASSUME TypeInv, NEW r \in Requests,
         \/ \E k \in Keys : BeginPut(r, k) \/ BeginCopy(r, k) \/ BeginDelete(r, k)
         \/ SpoolChunk(r) \/ RemoveOldSpool(r) \/ RemoveOldBlob(r)
  PROVE  \E x : GoesOn(r, x)
<1>1. req[r] \in Request
  BY DEF TypeInv, TypeOK
<1>2. ASSUME NEW k \in Keys, BeginPut(r, k)
      PROVE  \E x : GoesOn(r, x)
  <2> DEFINE x == [req[r] EXCEPT !.pc = "writing", !.kind = "put", !.key = k]
  <2>1. RequestBecomes(r, x) /\ req[r].pc # "closed"
    BY <1>2 DEF BeginPut
  <2>2. x.pc = "writing" /\ x.rm = req[r].rm /\ x.rmBlobs = req[r].rmBlobs
    BY <1>1 DEF Request
  <2> HIDE DEF x
  <2> QED
    BY <2>1, <2>2 DEF GoesOn
<1>3. ASSUME NEW k \in Keys, BeginCopy(r, k)
      PROVE  \E x : GoesOn(r, x)
  <2> PICK i \in Ids :
        RequestBecomes(r, [req[r] EXCEPT !.pc = "ready", !.kind = "copy", !.key = k,
                                         !.source = i, !.data = objects[i].data])
    BY <1>3 DEF BeginCopy
  <2> DEFINE d == objects[i].data
             x == [req[r] EXCEPT !.pc = "ready", !.kind = "copy", !.key = k,
                                 !.source = i, !.data = d]
  <2>1. RequestBecomes(r, x) /\ req[r].pc # "closed"
    BY <1>3 DEF BeginCopy
  <2> HIDE DEF d
  <2>2. x.pc = "ready" /\ x.rm = req[r].rm /\ x.rmBlobs = req[r].rmBlobs
    BY <1>1 DEF Request
  <2> HIDE DEF x
  <2> QED
    BY <2>1, <2>2 DEF GoesOn
<1>4. ASSUME NEW k \in Keys, BeginDelete(r, k)
      PROVE  \E x : GoesOn(r, x)
  <2> PICK m : RequestBecomes(r, [req[r] EXCEPT !.pc = "ready", !.kind = "delete", !.key = k,
                                                !.mode = m])
    BY <1>4 DEF BeginDelete
  <2> DEFINE x == [req[r] EXCEPT !.pc = "ready", !.kind = "delete", !.key = k, !.mode = m]
  <2>1. RequestBecomes(r, x) /\ req[r].pc # "closed"
    BY <1>4 DEF BeginDelete
  <2>2. x.pc = "ready" /\ x.rm = req[r].rm /\ x.rmBlobs = req[r].rmBlobs
    BY <1>1 DEF Request
  <2> HIDE DEF x
  <2> QED
    BY <2>1, <2>2 DEF GoesOn
<1>5. CASE SpoolChunk(r)
  <2> DEFINE x == [req[r] EXCEPT !.written = @ + 1]
  <2>1. RequestBecomes(r, x)
    BY <1>5 DEF SpoolChunk
  <2>2. x.pc = req[r].pc /\ x.rm = req[r].rm /\ x.rmBlobs = req[r].rmBlobs
    BY <1>1 DEF Request
  <2> HIDE DEF x
  <2> QED
    BY <2>1, <2>2 DEF GoesOn
<1>6. CASE RemoveOldSpool(r)
  <2> PICK p : RequestBecomes(r, [req[r] EXCEPT !.rm = @ \ {p}])
    BY <1>6 DEF RemoveOldSpool
  <2> DEFINE x == [req[r] EXCEPT !.rm = @ \ {p}]
  <2>1. RequestBecomes(r, x)
    OBVIOUS
  <2>2. x.pc = req[r].pc /\ x.rm \subseteq req[r].rm /\ x.rmBlobs = req[r].rmBlobs
    BY <1>1 DEF Request
  <2> HIDE DEF x
  <2> QED
    BY <2>1, <2>2 DEF GoesOn
<1>7. CASE RemoveOldBlob(r)
  <2> PICK l : RequestBecomes(r, [req[r] EXCEPT !.rmBlobs = @ \ {l}])
    BY <1>7 DEF RemoveOldBlob
  <2> DEFINE x == [req[r] EXCEPT !.rmBlobs = @ \ {l}]
  <2>1. RequestBecomes(r, x)
    OBVIOUS
  <2>2. x.pc = req[r].pc /\ x.rm = req[r].rm /\ x.rmBlobs \subseteq req[r].rmBlobs
    BY <1>1 DEF Request
  <2> HIDE DEF x
  <2> QED
    BY <2>1, <2>2 DEF GoesOn
<1> QED
  BY <1>2, <1>3, <1>4, <1>5, <1>6, <1>7

LEMMA HandlerLeaves ==
  ASSUME TypeInv, NEW r \in Requests, Handler(r)
  PROVE  \A q \in Requests : Leaves(q)
<1>1. /\ Closed.rm = {} /\ Closed.rmBlobs = {} /\ NoObject.kind = "none"
      /\ req[r] \in Request
  BY DEF Closed, NewRequest, NoObject, TypeInv, TypeOK
<1>2. CASE CommitPut(r) \/ CommitCopy(r)
  <2> DEFINE S == Replaced(req[r].key)
             i == FinalId(r, r)
  <2>1. PICK row : objects' = [ObjectsWithout(S) EXCEPT ![i] = row]
    BY <1>2 DEF CommitPut, CommitCopy, WriteVersion
  <2>2. S \in SUBSET Ids
    BY ReplacedType DEF TypeInv
  <2>3. \A j \in S : objects'[j].kind = "none" \/ j = i
    <3> HIDE DEF S, i
    <3> QED
      BY <1>1, <2>1, <2>2 DEF ObjectsWithout
  <2>4. req[r].pc # "closed" /\ Leave(r, SpoolPaths(S), {})
    BY <1>2 DEF CommitPut, CommitCopy
  <2> QED
    BY <2>2, <2>3, <2>4, CommitLeaves
<1>3. CASE CommitDelete(r) \/ \E k \in Keys : Purge(r, k)
  <2> PICK k, locators : /\ DropKey(r, k, locators) /\ req[r].pc # "closed"
                         /\ locators \in {{}, RemoteLocators(VersionsOf(k))}
    BY <1>3 DEF CommitDelete, Purge
  <2>1. VersionsOf(k) \in SUBSET Ids
    BY DEF VersionsOf
  <2>2. \A i \in VersionsOf(k) : objects'[i].kind = "none"
    BY <1>1, <2>1 DEF DropKey, DropVersions, ObjectsWithout
  <2> QED
    BY <2>1, <2>2, CommitLeaves DEF DropKey
<1>4. CASE \E i \in Ids : DeleteVersion(r, i)
  <2> PICK i \in Ids : DeleteVersion(r, i)
    BY <1>4
  <2>1. objects'[i].kind = "none"
    BY <1>1 DEF DeleteVersion, DropVersions, ObjectsWithout
  <2> QED
    BY <2>1, CommitLeaves DEF DeleteVersion
<1>5. CASE AbandonPut(r) \/ CommitMarker(r) \/ RefuseWrite(r) \/ DropRequest(r)
  <2>1. RequestBecomes(r, Closed)
    BY <1>5 DEF AbandonPut, CommitMarker, RefuseWrite, DropRequest
  <2> QED
    BY <1>1, <2>1, LeavesLess
<1>6. CASE \/ \E k \in Keys : BeginPut(r, k) \/ BeginCopy(r, k) \/ BeginDelete(r, k)
           \/ SpoolChunk(r) \/ RemoveOldSpool(r) \/ RemoveOldBlob(r)
  BY <1>6, HandlerGoesOn, LeavesLess DEF GoesOn
<1> QED
  BY <1>2, <1>3, <1>4, <1>5, <1>6 DEF Handler

LEMMA EveryLeave ==
  ASSUME TypeInv, [Next]_vars
  PROVE  \A r \in Requests : Leaves(r)
<1>1. CASE \E r \in Requests : Handler(r)
  BY <1>1, HandlerLeaves
<1>2. CASE Restart
  BY <1>2, NothingLeft DEF Restart, Closed, NewRequest
<1>3. CASE \/ \E m \in Modes : SetVersioning(m)
           \/ \E r \in Requests : ExpireLease(r) \/ EndBackoff(r)
           \/ UNCHANGED vars
  BY <1>3, NothingLeft DEF SetVersioning, ExpireLease, EndBackoff, vars
<1>4. CASE \E w \in Workers : UploadWorker(w)
  BY <1>4, NothingLeft
     DEF UploadWorker, WorkerStep, Boot, Poll, Claim, LoseClaim, LoadChunks, SkipGone, Upload,
         LackFile, FailUpload, CommitLocator, FindJob, MarkRemote, EndJob, RemoveSpool, ClearPath,
         WorkerError, ChangeCredentials
<1>5. CASE Gc
  BY <1>5, NothingLeft DEF Gc, StartGc, FreeFile, FreeRow, ReadActive, ListSpool, SweepFile,
                           EndSweep, CollectRemote
<1> QED
  BY <1>1, <1>2, <1>3, <1>4, <1>5 DEF Next

-----------------------------------------------------------------------------
(* What stays *)

LEMMA EndedKeeps ==
  ASSUME Inv, Moves, NEW r \in Requests, req[r].pc = "closed"
  PROVE  /\ req'[r].pc = "closed"
         /\ objects[r].kind = "none" => objects'[r].kind = "none"
         /\ \A c \in Idx : chunks'[r][c].state = "pending" => chunks[r][c].state = "pending"
<1>1. TypeInv /\ IdInv /\ r \in Ids
  BY DEF Inv, JobInv, VersionInv, Ids
<1>2. Keeps(r) \/ Drops(r)
  BY <1>1, OldVersion
<1> QED
  BY <1>1, <1>2, Left DEF Moves, RequestsStayClosed

LEMMA RowOwner ==
  ASSUME Inv, NEW i \in Ids, NEW c \in Idx
  PROVE  /\ chunks[i][c].state # "none" =>
              /\ i \in Requests /\ req[i].pc = "closed"
              /\ objects[i].kind = "data" /\ objects[i].data = i
         /\ chunks[i][c].path # None => chunks[i][c].state # "none" /\ chunks[i][c].path = <<i, c>>
         /\ chunks[i][c].loc # None => chunks[i][c].state # "none" /\ chunks[i][c].loc[1] = <<i, c>>
<1>1. chunks[i][c].state # "none" =>
        /\ i \in Requests /\ req[i].pc = "closed"
        /\ objects[i].kind = "data" /\ objects[i].data = i
  BY DEF Inv, VersionInv, StoreInv, IdInv, RowsOfData, NullIsMarker, IdsOfClosed, WholeData, Ids
<1>2. chunks[i][c].state = "none" => chunks[i][c].path = None /\ chunks[i][c].loc = None
  BY DEF Inv, VersionInv, IdInv, EmptyRows
<1>3. /\ chunks[i][c].path # None => chunks[i][c].path = <<objects[i].data, c>>
      /\ chunks[i][c].loc # None => chunks[i][c].loc[1] = <<objects[i].data, c>>
  BY DEF Inv, VersionInv, BytesInv, OwnBytes
<1> QED
  BY <1>1, <1>2, <1>3

\* The version of a worker beyond the poll: its request has ended.
LEMMA WorkerEnded ==
  ASSUME Inv, NEW w \in Workers, wk[w].pc \notin {"boot", "idle"}
  PROVE  wk[w].version \in Requests /\ wk[w].version \in Ids /\ req[wk[w].version].pc = "closed"
  BY DEF Inv, VersionInv, IdInv, WorkersOwnId, JobInv, TypeInv, WorkerShape, WorkerInv, HoldsJob

LEMMA KeptRow ==
  ASSUME Inv, NEW i \in Ids, Keeps(i), NEW c \in Idx
  PROVE  /\ chunks[i][c].state # "none" => chunks'[i][c].state # "none"
         /\ chunks'[i][c].state = "pending" =>
              chunks'[i][c].path = chunks[i][c].path \/ Clears(i, c)
         /\ chunks'[i][c].state = "remote" =>
              \/ chunks[i][c].state = "remote" /\ chunks'[i][c].loc = chunks[i][c].loc
              \/ /\ chunks[i][c].state # "none"
                 /\ \E w \in Workers : /\ wk[w].pc = "sent" /\ wk[w].version = i
                                       /\ chunks'[i][c].loc = wk[w].loc
<1>1. chunks[i][c] \in ChunkRow
  BY DEF Inv, JobInv, TypeInv, TypeOK
<1>2. CASE chunks'[i][c] = chunks[i][c]
  BY <1>2
<1>3. CASE HasRow(i, c) /\ Stores(i, c)
  <2>1. PICK w \in Workers :
          /\ wk[w].pc = "sent" /\ wk[w].version = i
          /\ chunks'[i][c] = [chunks[i][c] EXCEPT !.state = "remote", !.loc = wk[w].loc]
    BY <1>3 DEF Stores
  <2>2. chunks'[i][c].state = "remote" /\ chunks'[i][c].loc = wk[w].loc
    BY <1>1, <2>1 DEF ChunkRow
  <2> QED
    BY <1>3, <2>1, <2>2 DEF HasRow
<1>4. CASE HasRow(i, c) /\ Clears(i, c)
  <2>1. chunks'[i][c] = [chunks[i][c] EXCEPT !.path = None]
    BY <1>4 DEF Clears
  <2>2. chunks'[i][c].state = chunks[i][c].state /\ chunks'[i][c].loc = chunks[i][c].loc
    BY <1>1, <2>1 DEF ChunkRow
  <2> QED
    BY <1>4, <2>2
<1>5. CASE Blanks(i, c)
  <2>1. chunks[i][c].state = "none"
    BY <1>5, RowOwner DEF Blanks
  <2>2. chunks'[i][c] = [chunks[i][c] EXCEPT !.loc = None]
    BY <1>5 DEF Blanks
  <2>3. chunks'[i][c].state = "none"
    BY <1>1, <2>1, <2>2 DEF ChunkRow
  <2> QED
    BY <2>1, <2>3
<1> QED
  BY <1>2, <1>3, <1>4, <1>5 DEF Keeps, RowKeeps

\* Without copies, what is written is what a PUT has spooled, or a delete marker.
LEMMA WhatIsWritten ==
  ASSUME Inv, NEW r \in Requests, NEW i \in Ids, Writes(r, i)
  PROVE  \/ /\ i = r
            /\ req[r].pc = "writing" /\ req[r].written = NumChunks
            /\ objects'[i].data = r
            /\ \A c \in Idx : chunks'[i][c] = NewRow(r, c)
         \/ /\ objects'[i].kind = "marker"
            /\ \A c \in Idx : chunks'[i][c].state = "none"
<1>1. FinalId(r, r) = r
  BY DEF FinalId, Inv, VersionInv, IdInv, JobInv, TypeInv, TypeOK
<1>2. PutWrites(r, i) \/ MarkWrites(r, i)
  BY DEF Writes, CopyWrites, Inv, StoreInv, NoCopies
<1> QED
  BY <1>1, <1>2 DEF PutWrites, MarkWrites, Wrote, NoChunk

\* No one removes a file of a chunk that is still to be uploaded, nor of a PUT
\* that is under way.
LEMMA FileStays ==
  ASSUME SafeUse, Inv, StoreMoves, NEW i \in Requests, NEW c \in Idx, <<i, c>> \in spool,
         \/ IsPending(i, c)
         \/ req[i].pc = "writing" /\ (req'[i].pc = "writing" \/ chunks'[i][c].state = "pending")
  PROVE  <<i, c>> \in spool'
<1> SUFFICES ASSUME FileGoes(<<i, c>>)
             PROVE  FALSE
  BY DEF StoreMoves, FilesMove
<1>1. /\ i \in Ids
      /\ <<i, c>> # None
      /\ IsPending(i, c) => req[i].pc = "closed" /\ objects[i].kind = "data"
      /\ IsPending(i, c) \/ req[i].pc = "writing"
  BY RowOwner, PipelineAssumption DEF Ids, IsPending, Idx
<1>2. CASE \E r \in Requests : <<i, c>> \in req[r].rm
  <2>1. Dead(i)
    BY <1>2 DEF Inv, StoreInv, RmDead
  <2> QED
    BY <1>1, <2>1 DEF Dead, Ended
<1>3. CASE \E w \in Workers : wk[w].pc = "cleaning" /\ \E d \in Idx : <<i, c>> = wk[w].snap[d]
  <2> PICK w \in Workers, d \in Idx : wk[w].pc = "cleaning" /\ <<i, c>> = wk[w].snap[d]
    BY <1>3
  <2>1. wk[w].snap[d] = <<wk[w].version, d>>
    BY <1>1 DEF Inv, StoreInv, SnapOwn, HasSnap
  <2>2. wk[w].version = i /\ d = c
    BY <2>1
  <2>3. ~IsPending(i, c)
    BY <2>2 DEF Inv, StoreInv, CleansDone
  <2> QED
    BY <1>1, <2>2, <2>3, WorkerEnded
<1>4. CASE \E x \in gc.rows : <<i, c>> = x[3]
  <2>1. ~IsPending(i, c) /\ Ended(i)
    <3> PICK x \in gc.rows : <<i, c>> = x[3]
      BY <1>4
    <3>1. <<i, c>> = <<x[1], x[2]>> /\ Ended(x[1]) /\ ~IsPending(x[1], x[2])
      BY DEF Inv, StoreInv, GcRowsOwn
    <3>2. x[1] = i /\ x[2] = c
      BY <3>1
    <3> QED
      BY <3>1, <3>2
  <2> QED
    BY <1>1, <2>1 DEF Ended
<1>5. CASE gc.pc = "sweeping" /\ <<i, c>> \in gc.paths
  BY <1>1, <1>5 DEF Inv, StoreInv, SweepSafe
<1>6. CASE /\ chunks' = chunks
           /\ \E r \in Requests, d \in Idx :
                req[r].pc = "writing" /\ req'[r].pc = "closed" /\ <<i, c>> = <<r, d>>
  <2>1. req[i].pc = "writing" /\ req'[i].pc = "closed"
    BY <1>6
  <2> QED
    BY <1>1, <1>6, <2>1 DEF IsPending
<1>7. CASE /\ chunks' = chunks
           /\ <<i, c>> \notin ActivePaths
           /\ \A r \in Requests : req'[r].pc # "writing"
  <2>1. IsPending(i, c)
    BY <1>7 DEF IsPending
  <2>2. chunks[i][c].path = <<i, c>>
    BY <1>1, <2>1 DEF Inv, StoreInv, PendingStored
  <2> QED
    BY <1>1, <1>7, <2>2 DEF ActivePaths, SpoolPaths
<1> QED
  BY <1>2, <1>3, <1>4, <1>5, <1>6, <1>7 DEF FileGoes

\* No one removes a message of a version that is there.
LEMMA BlobStays ==
  ASSUME Inv, BlobsMove, NEW l \in blobs, objects[l[1][1]].kind # "none"
  PROVE  l \in blobs'
  BY DEF BlobsMove, Inv, StoreInv, RmDead, Dead

-----------------------------------------------------------------------------
(* Each part of the invariant *)

LEMMA RequestsStep ==
  ASSUME SafeUse, Inv, Moves, StoreMoves
  PROVE  NoCopies' /\ FreshRequests' /\ WrittenStored'
<1> SUFFICES ASSUME NEW r \in Requests
             PROVE  /\ req'[r].pc = "ready" => req'[r].kind # "copy"
                    /\ req'[r].pc = "idle" => req'[r].written = 0
                    /\ req'[r].pc = "writing" => \A c \in 1..req'[r].written : <<r, c>> \in spool'
  BY DEF NoCopies, FreshRequests, WrittenStored
<1>1. /\ RequestMoves(r) /\ req[r] \in Request
      /\ req[r].pc = "ready" => req[r].kind # "copy"
      /\ req[r].pc = "idle" => req[r].written = 0
      /\ req[r].pc = "writing" => \A c \in 1..req[r].written : <<r, c>> \in spool
  BY DEF Moves, Inv, JobInv, TypeInv, TypeOK, StoreInv, NoCopies, FreshRequests, WrittenStored
<1>2. req[r].written \in 0..NumChunks /\ NumChunks \in Nat
  BY <1>1, PipelineAssumption DEF Request
<1>3. ASSUME req[r].pc = "writing", req'[r].pc = "writing", NEW c \in 1..req[r].written
      PROVE  <<r, c>> \in spool'
  BY <1>1, <1>2, <1>3, FileStays DEF Idx
<1>4. CASE Stays(r)
  BY <1>1, <1>3, <1>4 DEF Stays
<1>5. CASE Closes(r) \/ StartsCopy(r) \/ StartsDelete(r)
  BY <1>1, <1>5 DEF Closes, StartsCopy, StartsDelete, Opens, SafeUse
<1>6. CASE StartsPut(r)
  BY <1>1, <1>6 DEF StartsPut, Opens
<1>7. CASE Spools(r)
  <2>1. \A c \in 1..(req[r].written + 1) : c \in 1..req[r].written \/ c = req[r].written + 1
    BY <1>2
  <2> QED
    BY <1>3, <1>7, <2>1 DEF Spools
<1> QED
  BY <1>1, <1>4, <1>5, <1>6, <1>7 DEF RequestMoves

LEMMA WholeStep ==
  ASSUME Inv, Moves
  PROVE  WholeData'
<1> SUFFICES ASSUME NEW i \in Ids, objects'[i].kind = "data", NEW c \in Idx
             PROVE  objects'[i].data = i /\ chunks'[i][c].state # "none"
  BY PipelineAssumption DEF WholeData, Idx
<1>1. CASE Keeps(i)
  <2>1. objects[i].kind = "data" /\ objects'[i].data = objects[i].data
    BY <1>1, Left DEF Inv, JobInv, VersionInv
  <2>2. objects[i].data = i /\ chunks[i][c].state # "none"
    BY <2>1 DEF Inv, StoreInv, WholeData
  <2> QED
    BY <1>1, <2>1, <2>2, KeptRow
<1>2. CASE Drops(i)
  BY <1>2 DEF Drops, NoObject
<1>3. CASE \E r \in Requests : Writes(r, i)
  BY <1>3, WhatIsWritten, NewRowIs
<1> QED
  BY <1>1, <1>2, <1>3 DEF Moves, TablesMove, VersionMoves

LEMMA PendingStep ==
  ASSUME SafeUse, Inv, Moves, StoreMoves
  PROVE  PendingStored'
<1> SUFFICES ASSUME NEW i \in Ids, NEW c \in Idx, chunks'[i][c].state = "pending"
             PROVE  <<i, c>> \in spool' /\ chunks'[i][c].path = <<i, c>>
  BY DEF PendingStored, IsPending
<1>1. CASE Keeps(i)
  <2>1. IsPending(i, c)
    BY <1>1, Left DEF Inv, JobInv, VersionInv, IsPending
  <2>2. <<i, c>> \in spool /\ chunks[i][c].path = <<i, c>> /\ i \in Requests
    BY <2>1, RowOwner DEF Inv, StoreInv, PendingStored, IsPending
  <2>3. ~Clears(i, c)
    BY <2>1 DEF Clears, Inv, StoreInv, CleansDone, GcRowsOwn
  <2> QED
    BY <1>1, <2>1, <2>2, <2>3, KeptRow, FileStays
<1>2. CASE Drops(i)
  BY <1>2 DEF Drops, NoChunk
<1>3. CASE \E r \in Requests : Writes(r, i)
  <2>1. /\ i \in Requests /\ req[i].pc = "writing" /\ req[i].written = NumChunks
        /\ chunks'[i][c].path = <<i, c>>
    BY <1>3, WhatIsWritten, NewRowIs
  <2>2. <<i, c>> \in spool
    BY <2>1 DEF Inv, StoreInv, WrittenStored, Idx
  <2> QED
    BY <2>1, <2>2, FileStays
<1> QED
  BY <1>1, <1>2, <1>3 DEF Moves, TablesMove, VersionMoves

LEMMA RemoteStep ==
  ASSUME Inv, Moves, StoreMoves
  PROVE  RemoteIsStored'
<1> SUFFICES ASSUME NEW i \in Ids, NEW c \in Idx, chunks'[i][c].state = "remote"
             PROVE  chunks'[i][c].loc \in blobs'
  BY DEF RemoteIsStored
<1>1. CASE Keeps(i)
  <2>1. CASE chunks[i][c].state = "remote" /\ chunks'[i][c].loc = chunks[i][c].loc
    <3>1. chunks[i][c].loc \in blobs
      BY <2>1 DEF Inv, StoreInv, RemoteIsStored
    <3>2. chunks[i][c].loc # None
      BY <3>1, PipelineAssumption DEF Inv, JobInv, TypeInv, TypeOK, Locators, Paths, Idx
    <3>3. chunks[i][c].loc[1][1] = i /\ objects[i].kind # "none"
      BY <3>2, RowOwner
    <3> QED
      BY <2>1, <3>1, <3>3, BlobStays DEF StoreMoves
  <2>2. CASE /\ chunks[i][c].state # "none"
             /\ \E w \in Workers : /\ wk[w].pc = "sent" /\ wk[w].version = i
                                   /\ chunks'[i][c].loc = wk[w].loc
    <3> PICK w \in Workers : wk[w].pc = "sent" /\ wk[w].version = i /\ chunks'[i][c].loc = wk[w].loc
      BY <2>2
    <3>1. objects[i].kind # "none"
      BY <2>2, RowOwner
    <3>2. wk[w].loc[1][1] = i /\ wk[w].loc \in blobs
      BY <3>1 DEF Inv, StoreInv, SentStored
    <3> QED
      BY <3>1, <3>2, BlobStays DEF StoreMoves
  <2> QED
    BY <1>1, <2>1, <2>2, KeptRow
<1>2. CASE Drops(i)
  BY <1>2 DEF Drops, NoChunk
<1>3. CASE \E r \in Requests : Writes(r, i)
  BY <1>3, WhatIsWritten, NewRowIs
<1> QED
  BY <1>1, <1>2, <1>3 DEF Moves, TablesMove, VersionMoves

LEMMA SnapStep ==
  ASSUME Inv, Moves
  PROVE  SnapOwn'
<1> SUFFICES ASSUME NEW w \in Workers, NEW c \in Idx,
                    wk'[w].pc \notin {"boot", "idle", "selected", "claimed"}
             PROVE  wk'[w].snap[c] \in {None, <<wk'[w].version, c>>}
  BY DEF SnapOwn, HasSnap
<1>1. CASE Loads(w)
  <2>1. wk[w].version \in Ids
    BY <1>1, WorkerEnded DEF Loads, Goes
  <2>2. wk'[w].version = wk[w].version /\ wk'[w].snap[c] = chunks[wk[w].version][c].path
    BY <1>1 DEF Loads, SameJob
  <2>3. chunks[wk[w].version][c].path \in {None, <<wk[w].version, c>>}
    BY <2>1, RowOwner
  <2> QED
    BY <2>2, <2>3
<1>2. CASE wk'[w] = wk[w] \/ (SameSnap(w) /\ HasSnap(w))
  BY <1>2 DEF Inv, StoreInv, SnapOwn, HasSnap, SameSnap, SameJob
<1> QED
  BY <1>1, <1>2 DEF Moves, WorkerMoves, Rests, Polls, Claims, Sends, Commits, Finds, Finishes,
                    StartsCleaning, Cleans, Goes, HasSnap

LEMMA SentStep ==
  ASSUME Inv, Moves, StoreMoves
  PROVE  SentStored'
<1> SUFFICES ASSUME NEW w \in Workers, wk'[w].pc = "sent"
             PROVE  /\ wk'[w].loc[1][1] = wk'[w].version
                    /\ objects'[wk'[w].version].kind # "none" => wk'[w].loc \in blobs'
  BY DEF SentStored
<1>1. CASE wk'[w] = wk[w]
  <2>1. /\ wk[w].loc[1][1] = wk[w].version
        /\ objects[wk[w].version].kind # "none" => wk[w].loc \in blobs
    BY <1>1 DEF Inv, StoreInv, SentStored
  <2>2. objects[wk[w].version].kind = "none" => objects'[wk[w].version].kind = "none"
    BY <1>1, WorkerEnded, EndedKeeps
  <2> QED
    BY <1>1, <2>1, <2>2, BlobStays DEF StoreMoves
<1>2. CASE Sends(w)
  <2>1. PICK c \in Idx : wk[w].snap[c] \in spool /\ wk'[w].loc[1] = wk[w].snap[c]
    BY <1>2 DEF Sends, Inv, JobInv, TypeInv, TypeOK, Worker
  <2>2. wk[w].snap[c] # None
    BY <2>1, PipelineAssumption DEF Inv, JobInv, TypeInv, TypeOK, Paths, Idx
  <2>3. wk[w].snap[c] = <<wk[w].version, c>>
    BY <1>2, <2>2 DEF Sends, Goes, Inv, StoreInv, SnapOwn, HasSnap
  <2> QED
    BY <1>2, <2>1, <2>3 DEF Sends, SameSnap, SameJob
<1> QED
  BY <1>1, <1>2 DEF Moves, WorkerMoves, Rests, Polls, Claims, Loads, Commits, Finds, Finishes,
                    StartsCleaning, Cleans, Goes

LEMMA CleansStep ==
  ASSUME Inv, Moves
  PROVE  CleansDone'
<1> SUFFICES ASSUME NEW w \in Workers, NEW c \in Idx, wk'[w].pc \in {"cleaning", "removed"}
             PROVE  chunks'[wk'[w].version][c].state # "pending"
  BY DEF CleansDone, IsPending
<1>1. /\ wk'[w].version = wk[w].version
      /\ wk[w].pc \in {"marked", "cleaning", "removed"}
  BY DEF Moves, WorkerMoves, Rests, Polls, Claims, Loads, Sends, Commits, Finds, Finishes,
         StartsCleaning, Cleans, SameSnap, SameJob, Goes
<1>2. chunks[wk[w].version][c].state # "pending"
  BY <1>1, FoundIsRemote DEF Inv, VersionInv, StoreInv, CleansDone, IsPending
<1> QED
  BY <1>1, <1>2, WorkerEnded, EndedKeeps

LEMMA RmStep ==
  ASSUME Inv, Moves, StoreMoves
  PROVE  RmDead'
<1>1. ASSUME NEW i, Dead(i)
      PROVE  i \in Requests /\ req'[i].pc = "closed" /\ objects'[i].kind = "none"
  BY <1>1, EndedKeeps DEF Dead, Ended
<1>2. ASSUME NEW r \in Requests, NEW i \in Ids, NEW c \in Idx, chunks[i][c].state # "none", Ousted(r, i)
      PROVE  i \in Requests /\ req'[i].pc = "closed" /\ objects'[i].kind = "none"
  <2>1. i \in Requests /\ req[i].pc = "closed"
    BY <1>2, RowOwner
  <2>2. FinalId(r, r) = r
    BY DEF FinalId, Inv, VersionInv, IdInv, JobInv, TypeInv, TypeOK
  <2> QED
    BY <1>2, <2>1, <2>2, EndedKeeps DEF Ousted
<1>3. ASSUME NEW r \in Requests, NEW p \in req'[r].rm
      PROVE  p[1] \in Requests /\ req'[p[1]].pc = "closed" /\ objects'[p[1]].kind = "none"
  <2>1. CASE p \in req[r].rm
    BY <1>1, <2>1 DEF Inv, StoreInv, RmDead
  <2>2. CASE p # None /\ \E i \in Ids, c \in Idx : p = chunks[i][c].path /\ Ousted(r, i)
    <3> PICK i \in Ids, c \in Idx : p = chunks[i][c].path /\ Ousted(r, i)
      BY <2>2
    <3>1. chunks[i][c].state # "none" /\ p = <<i, c>>
      BY <2>2, RowOwner
    <3>2. p[1] = i
      BY <3>1
    <3> QED
      BY <1>2, <3>1, <3>2
  <2> QED
    BY <1>3, <2>1, <2>2 DEF StoreMoves, Leaves
<1>4. ASSUME NEW r \in Requests, NEW l \in req'[r].rmBlobs
      PROVE  l[1][1] \in Requests /\ req'[l[1][1]].pc = "closed" /\ objects'[l[1][1]].kind = "none"
  <2>1. CASE l \in req[r].rmBlobs
    BY <1>1, <2>1 DEF Inv, StoreInv, RmDead
  <2>2. CASE l # None /\ \E i \in Ids, c \in Idx : l = chunks[i][c].loc /\ Ousted(r, i)
    <3> PICK i \in Ids, c \in Idx : l = chunks[i][c].loc /\ Ousted(r, i)
      BY <2>2
    <3>1. chunks[i][c].state # "none" /\ l[1] = <<i, c>>
      BY <2>2, RowOwner
    <3>2. l[1][1] = i
      BY <3>1
    <3> QED
      BY <1>2, <3>1, <3>2
  <2> QED
    BY <1>4, <2>1, <2>2 DEF StoreMoves, Leaves
<1> QED
  BY <1>3, <1>4 DEF RmDead, Dead, Ended

(* The run of GC *)

StartsRows == /\ gc'.pc = "rows"
              /\ chunks' = chunks
              /\ \A x \in gc'.rows : /\ x \in Ids \X Idx \X Paths
                                     /\ chunks[x[1]][x[2]].state = "remote"
                                     /\ chunks[x[1]][x[2]].path = x[3]
TakesRow == /\ gc'.pc = "freed"
            /\ gc'.rows \subseteq gc.rows
            /\ \E x \in gc.rows : gc'.row = <<x[1], x[2]>>
Lists == /\ gc'.pc = "listing"
         /\ gc'.rows = {}
         /\ gc'.paths = ActivePaths
         /\ chunks' = chunks
         /\ \A r \in Requests : req'[r].pc # "writing"
StartsSweep == /\ gc.pc = "listing" /\ gc'.pc = "sweeping"
               /\ gc'.rows = gc.rows
               /\ gc'.paths = spool \ gc.paths
Sweeps == /\ gc.pc = "sweeping" /\ gc'.pc = "sweeping"
          /\ gc'.rows = gc.rows
          /\ gc'.paths \subseteq gc.paths
Rows == gc'.pc \in {"idle", "rows", "remote"} /\ gc'.rows \subseteq gc.rows

GcTurns == gc' = gc \/ StartsRows \/ TakesRow \/ Lists \/ StartsSweep \/ Sweeps \/ Rows

LEMMA EveryGcTurn ==
  ASSUME TypeInv, SafeUse, [Next]_vars
  PROVE  GcTurns
<1>1. gc \in Collector /\ \A pc : GcAt(pc).rows = {} /\ GcAt(pc).pc = pc
  BY DEF TypeInv, TypeOK, GcAt
<1>2. CASE StartGc
  <2> DEFINE R == {x \in Ids \X Idx \X Paths : /\ chunks[x[1]][x[2]].state = "remote"
                                             /\ chunks[x[1]][x[2]].path = x[3]}
             y == [GcAt("rows") EXCEPT !.rows = R]
  <2>1. gc' = y /\ chunks' = chunks
    BY <1>2 DEF StartGc, tables
  <2>2. y.rows = R /\ y.pc = "rows"
    BY DEF GcAt
  <2> HIDE DEF y
  <2>3. StartsRows
    BY <2>1, <2>2 DEF StartsRows
  <2> QED
    BY <2>3 DEF GcTurns
<1>3. CASE FreeFile
  <2> PICK x \in gc.rows :
         \/ gc' = [gc EXCEPT !.pc = "freed", !.rows = @ \ {x}, !.row = <<x[1], x[2]>>]
         \/ gc' = [gc EXCEPT !.rows = @ \ {x}] /\ gc.pc = "rows"
    BY <1>3 DEF FreeFile
  <2> DEFINE t == <<x[1], x[2]>>
             R == gc.rows \ {x}
  <2>1. \/ gc' = [gc EXCEPT !.pc = "freed", !.rows = R, !.row = t]
        \/ gc' = [gc EXCEPT !.rows = R] /\ gc.pc = "rows"
    OBVIOUS
  <2>2. R \subseteq gc.rows
    OBVIOUS
  <2> HIDE DEF R
  <2>3. CASE gc' = [gc EXCEPT !.pc = "freed", !.rows = R, !.row = t]
    <3> HIDE DEF t
    <3>1. gc'.pc = "freed" /\ gc'.rows = R /\ gc'.row = t
      BY <1>1, <2>3 DEF Collector
    <3> USE DEF t
    <3> QED
      BY <2>2, <3>1 DEF TakesRow, GcTurns
  <2>4. CASE gc' = [gc EXCEPT !.rows = R] /\ gc.pc = "rows"
    BY <1>1, <2>2, <2>4 DEF Collector, Rows, GcTurns
  <2> QED
    BY <2>1, <2>3, <2>4
<1>4. CASE FreeRow
  BY <1>1, <1>4 DEF FreeRow, Collector, Rows, GcTurns
<1>5. CASE ReadActive
  <2> DEFINE y == [gc EXCEPT !.pc = "listing", !.paths = ActivePaths]
  <2>1. y.pc = "listing" /\ y.rows = gc.rows /\ y.paths = ActivePaths
    BY <1>1 DEF Collector
  <2>2. gc' = y /\ gc.rows = {} /\ chunks' = chunks /\ \A r \in Requests : req'[r].pc # "writing"
    BY <1>5 DEF ReadActive, SafeUse, tables
  <2> HIDE DEF y
  <2> QED
    BY <2>1, <2>2 DEF Lists, GcTurns
<1>6. CASE ListSpool
  <2> DEFINE y == [gc EXCEPT !.pc = "sweeping", !.paths = spool \ @]
  <2>1. y.pc = "sweeping" /\ y.rows = gc.rows /\ y.paths = spool \ gc.paths
    BY <1>1 DEF Collector
  <2>2. gc' = y /\ gc.pc = "listing"
    BY <1>6 DEF ListSpool
  <2> HIDE DEF y
  <2> QED
    BY <2>1, <2>2 DEF StartsSweep, GcTurns
<1>7. CASE SweepFile
  <2> PICK p : gc' = [gc EXCEPT !.paths = @ \ {p}] /\ gc.pc = "sweeping"
    BY <1>7 DEF SweepFile
  <2> DEFINE y == [gc EXCEPT !.paths = @ \ {p}]
  <2>1. y.pc = gc.pc /\ y.rows = gc.rows /\ y.paths = gc.paths \ {p}
    BY <1>1 DEF Collector
  <2>2. gc' = y
    OBVIOUS
  <2> HIDE DEF y
  <2> QED
    BY <2>1, <2>2 DEF Sweeps, GcTurns
<1>8. CASE EndSweep \/ CollectRemote \/ Restart
  BY <1>1, <1>8 DEF EndSweep, CollectRemote, Restart, Rows, GcTurns
<1>9. CASE \/ \E m \in Modes : SetVersioning(m)
           \/ \E r \in Requests : Handler(r) \/ ExpireLease(r) \/ EndBackoff(r)
           \/ \E w \in Workers : UploadWorker(w)
           \/ UNCHANGED vars
  <2>1. gc' = gc
    BY <1>9
       DEF SetVersioning, ExpireLease, EndBackoff, vars, Handler, BeginPut, BeginCopy, BeginDelete,
           Purge, SpoolChunk, CommitPut, AbandonPut, CommitCopy, CommitMarker, RefuseWrite,
           CommitDelete, DeleteVersion, RemoveOldSpool, RemoveOldBlob, DropRequest, DropKey,
           UploadWorker, WorkerStep, Boot, Poll, Claim, LoseClaim, LoadChunks, SkipGone, Upload,
           LackFile, FailUpload, CommitLocator, FindJob, MarkRemote, EndJob, RemoveSpool, ClearPath,
           WorkerError, ChangeCredentials
  <2> QED
    BY <2>1 DEF GcTurns
<1> QED
  BY <1>2, <1>3, <1>4, <1>5, <1>6, <1>7, <1>8, <1>9 DEF Next, Gc

LEMMA GcRowsStep ==
  ASSUME Inv, Moves, GcTurns
  PROVE  GcRowsOwn'
<1>1. ASSUME NEW i, NEW c, c \in Idx, Ended(i), ~IsPending(i, c)
      PROVE  i \in Requests /\ req'[i].pc = "closed" /\ chunks'[i][c].state # "pending"
  BY <1>1, EndedKeeps DEF Ended, IsPending
<1>2. ASSUME NEW x \in gc.rows
      PROVE  /\ x[2] \in Idx /\ x[3] = <<x[1], x[2]>>
             /\ x[1] \in Requests /\ req'[x[1]].pc = "closed" /\ chunks'[x[1]][x[2]].state # "pending"
  <2>1. x[2] \in Idx
    BY DEF Inv, JobInv, TypeInv, TypeOK, Collector
  <2> QED
    BY <1>1, <2>1 DEF Inv, StoreInv, GcRowsOwn
<1>3. ASSUME NEW x \in gc'.rows
      PROVE  /\ x[3] = <<x[1], x[2]>>
             /\ x[1] \in Requests /\ req'[x[1]].pc = "closed" /\ chunks'[x[1]][x[2]].state # "pending"
  <2>1. CASE x \in gc.rows
    BY <1>2, <2>1
  <2>2. CASE StartsRows
    <3>1. /\ x[1] \in Ids /\ x[2] \in Idx /\ x[3] \in Paths
          /\ chunks[x[1]][x[2]].state = "remote" /\ chunks[x[1]][x[2]].path = x[3]
          /\ chunks' = chunks
      BY <1>3, <2>2 DEF StartsRows
    <3>2. x[3] # None
      BY <3>1, PipelineAssumption DEF Paths, Idx
    <3>3. x[3] = <<x[1], x[2]>> /\ Ended(x[1])
      BY <3>1, <3>2, RowOwner DEF Ended
    <3> QED
      BY <1>1, <3>1, <3>3 DEF IsPending
  <2> QED
    BY <1>3, <2>1, <2>2 DEF GcTurns, TakesRow, Lists, StartsSweep, Sweeps, Rows
<1>4. ASSUME gc'.pc = "freed"
      PROVE  /\ gc'.row[1] \in Requests /\ req'[gc'.row[1]].pc = "closed"
             /\ chunks'[gc'.row[1]][gc'.row[2]].state # "pending"
  <2>1. CASE gc' = gc
    <3>1. gc.row[2] \in Idx
      BY <1>4, <2>1 DEF Inv, JobInv, TypeInv, GcShape
    <3> QED
      BY <1>1, <1>4, <2>1, <3>1 DEF Inv, StoreInv, GcRowsOwn
  <2>2. CASE TakesRow
    <3> PICK x \in gc.rows : gc'.row = <<x[1], x[2]>>
      BY <2>2 DEF TakesRow
    <3>1. gc'.row[1] = x[1] /\ gc'.row[2] = x[2]
      OBVIOUS
    <3> QED
      BY <1>2, <3>1
  <2> QED
    BY <1>4, <2>1, <2>2 DEF GcTurns, StartsRows, Lists, StartsSweep, Sweeps, Rows
<1> QED
  BY <1>3, <1>4 DEF GcRowsOwn, Ended, IsPending

LEMMA SweepStep ==
  ASSUME SafeUse, Inv, Moves, GcTurns
  PROVE  SweepSafe'
<1>1. ASSUME gc.pc \in {"listing", "sweeping"}
      PROVE  /\ \A r \in Requests : req'[r].pc # "writing"
             /\ \A i \in Ids, c \in Idx :
                  chunks'[i][c].state = "pending" =>
                    IsPending(i, c) /\ (<<i, c>> \in gc.paths <=> gc.pc = "listing")
  <2>1. \A r \in Requests : req[r].pc # "writing"
    BY <1>1 DEF Inv, StoreInv, SweepSafe
  <2>2. \A r \in Requests : req'[r].pc # "writing"
    BY <1>1, <2>1 DEF SafeUse, Moves, RequestMoves, Stays, Closes, StartsPut, Spools, StartsCopy,
                      StartsDelete, Opens
  <2>3. ASSUME NEW i \in Ids, NEW c \in Idx, chunks'[i][c].state = "pending"
        PROVE  IsPending(i, c)
    <3>1. CASE Keeps(i) \/ Drops(i)
      BY <2>3, <3>1, Left DEF Inv, JobInv, VersionInv, IsPending
    <3>2. CASE \E r \in Requests : Writes(r, i)
      BY <2>1, <2>3, <3>2, WhatIsWritten
    <3> QED
      BY <3>1, <3>2 DEF Moves, TablesMove, VersionMoves
  <2> QED
    BY <1>1, <2>2, <2>3 DEF Inv, StoreInv, SweepSafe
<1>2. SUFFICES ASSUME gc'.pc \in {"listing", "sweeping"}
               PROVE  /\ \A r \in Requests : req'[r].pc # "writing"
                      /\ \A i \in Ids, c \in Idx :
                           chunks'[i][c].state = "pending" =>
                             (<<i, c>> \in gc'.paths <=> gc'.pc = "listing")
  BY DEF SweepSafe, IsPending
<1>3. CASE gc' = gc
  BY <1>1, <1>2, <1>3
<1>4. CASE Lists
  <2>1. ASSUME NEW i \in Ids, NEW c \in Idx, chunks'[i][c].state = "pending"
        PROVE  <<i, c>> \in ActivePaths
    <3>1. chunks[i][c].path = <<i, c>> /\ <<i, c>> \in spool
      BY <1>4, <2>1 DEF Lists, Inv, StoreInv, PendingStored, IsPending
    <3>2. <<i, c>> # None
      BY <3>1, PipelineAssumption DEF Inv, JobInv, TypeInv, TypeOK, Paths, Idx
    <3> QED
      BY <3>1, <3>2 DEF ActivePaths, SpoolPaths
  <2> QED
    BY <1>4, <2>1 DEF Lists
<1>5. CASE StartsSweep
  BY <1>1, <1>5 DEF StartsSweep
<1>6. CASE Sweeps
  BY <1>1, <1>6 DEF Sweeps
<1> QED
  BY <1>2, <1>3, <1>4, <1>5, <1>6 DEF GcTurns, StartsRows, TakesRow, Rows

-----------------------------------------------------------------------------
(* The invariant *)

LEMMA StoreInit ==
  ASSUME Init
  PROVE  StoreInv
<1>1. \A i \in Ids, c \in Idx : chunks[i][c] = NoChunk
  BY DEF Init
<1>2. NoChunk.state = "none" /\ NoObject.kind = "none" /\ GcAt("idle").rows = {} /\ GcAt("idle").pc = "idle"
  BY DEF NoChunk, NoObject, GcAt
<1>3. \A r \in Requests : /\ req[r].pc = "idle" /\ req[r].written = 0
                          /\ req[r].rm = {} /\ req[r].rmBlobs = {}
  BY DEF Init, NewRequest
<1>4. \A w \in Workers : wk[w].pc = "boot"
  BY DEF Init, WorkerAt
<1>5. NoCopies /\ FreshRequests /\ WrittenStored /\ RmDead
  BY <1>3 DEF NoCopies, FreshRequests, WrittenStored, RmDead
<1>6. WholeData /\ PendingStored /\ RemoteIsStored
  BY <1>1, <1>2 DEF Init, WholeData, PendingStored, RemoteIsStored, IsPending
<1>7. SnapOwn /\ SentStored /\ CleansDone
  BY <1>4 DEF SnapOwn, SentStored, CleansDone, HasSnap
<1>8. GcRowsOwn /\ SweepSafe
  BY <1>2 DEF Init, GcRowsOwn, SweepSafe
<1> QED
  BY <1>5, <1>6, <1>7, <1>8 DEF StoreInv

LEMMA StoreStep ==
  ASSUME SafeUse, Inv, [Next]_vars
  PROVE  StoreInv'
<1>1. TypeInv /\ IdInv
  BY DEF Inv, JobInv, VersionInv
<1>2. Moves /\ GcTurns
  BY <1>1, EveryMove, EveryGcTurn
<1>3. StoreMoves
  BY <1>1, EveryFileMove, EveryBlobMove, EveryLeave DEF StoreMoves
<1>4. NoCopies' /\ FreshRequests' /\ WrittenStored'
  BY <1>2, <1>3, RequestsStep
<1>5. WholeData' /\ PendingStored' /\ RemoteIsStored'
  BY <1>2, <1>3, WholeStep, PendingStep, RemoteStep
<1>6. SnapOwn' /\ SentStored' /\ CleansDone'
  BY <1>2, <1>3, SnapStep, SentStep, CleansStep
<1>7. RmDead' /\ GcRowsOwn' /\ SweepSafe'
  BY <1>2, <1>3, RmStep, GcRowsStep, SweepStep
<1> QED
  BY <1>4, <1>5, <1>6, <1>7 DEF StoreInv

\* Under SafeUse every file and every message that a version needs is there,
\* and whoever is about to remove one holds the name of one that none needs.
THEOREM StoreInvariant ==
  ASSUME SafeUse
  PROVE  Spec => []Inv
<1>1. NeverSuspended
  BY DEF SafeUse
<1>2. Init => StoreInv
  BY StoreInit
<1>3. JobInv /\ VersionInv /\ StoreInv /\ [Next]_vars => StoreInv'
  BY StoreStep DEF Inv
<1>4. JobInv /\ VersionInv /\ StoreInv => Inv
  BY DEF Inv
<1>5. Spec => []VersionInv
  BY <1>1, VersionInvariant
<1> QED
  BY <1>2, <1>3, <1>4, <1>5, JobInvariant, PTL DEF Spec

\* commit_chunk_locator stores the locator of a message that has arrived, and
\* neither a delete, nor GC, nor a late worker removes it while the row is there.
THEOREM RemoteRowsAreStored ==
  ASSUME SafeUse
  PROVE  Spec => []RemoteIsStored
<1>1. Inv => RemoteIsStored
  BY DEF Inv, StoreInv
<1> QED
  BY <1>1, StoreInvariant, PTL

\* What a GET finds of a chunk of a version that exists.
LEMMA FetchOwn ==
  ASSUME Inv, NEW i \in Ids, objects[i].kind = "data", NEW c \in Idx
  PROVE  Fetch(i, c) = <<i, c>> /\ <<i, c>> # None
<1>1. chunks[i][c].state # "none" /\ i \in Requests
  BY RowOwner, PipelineAssumption DEF Inv, StoreInv, WholeData, VersionInv, IdInv, NullIsMarker, Ids
<1>2. <<i, c>> # None
  BY <1>1, PipelineAssumption DEF Idx
<1>3. CASE chunks[i][c].path \in spool
  <2>1. chunks[i][c].path # None
    BY <1>3, PipelineAssumption DEF Inv, JobInv, TypeInv, TypeOK, Paths, Idx
  <2> QED
    BY <1>2, <1>3, <2>1, RowOwner DEF Fetch
<1>4. CASE chunks[i][c].path \notin spool
  <2>1. chunks[i][c].state \in {"none", "pending", "remote"}
    BY DEF Inv, JobInv, TypeInv, TypeOK, ChunkRow
  <2>2. chunks[i][c].state # "pending"
    BY <1>4 DEF Inv, StoreInv, PendingStored, IsPending
  <2>3. chunks[i][c].state = "remote"
    BY <1>1, <2>1, <2>2
  <2>4. chunks[i][c].loc \in blobs
    BY <2>3 DEF Inv, StoreInv, RemoteIsStored
  <2>5. chunks[i][c].loc # None
    BY <2>4, PipelineAssumption DEF Inv, JobInv, TypeInv, TypeOK, Locators, Paths, Idx
  <2>6. chunks[i][c].loc[1] = <<i, c>>
    BY <2>5, RowOwner
  <2>7. Fetch(i, c) = chunks[i][c].loc[1]
    BY <1>4, <2>3, <2>4 DEF Fetch
  <2> QED
    BY <1>2, <2>6, <2>7
<1> QED
  BY <1>3, <1>4

\* accepted-local: from the commit of its transaction to its deletion, every
\* chunk of a version can be read from the spool or from Telegram, through
\* uploads, GC, crashes and restarts.
THEOREM AcceptedIsReadable ==
  ASSUME SafeUse
  PROVE  Spec => []Readable
<1>1. Inv => Readable
  BY FetchOwn DEF Readable
<1> QED
  BY <1>1, StoreInvariant, PTL

-----------------------------------------------------------------------------
(* The pipeline implements VersionStore *)

\* What clients see of version i, if its row is o.
View(i, o) == [kind |-> o.kind, key |-> o.key, seq |-> o.seq,
               body |-> IF o.kind = "data" THEN Abstract!Sent(i) ELSE None]
ViewsOf(rows) == [i \in Ids |-> View(i, rows[i])]
ContentsAreViews == Contents = ViewsOf(objects)
Done == {r \in Requests : req[r].pc = "closed"}

LEMMA ContentsView == Inv => ContentsAreViews
<1> SUFFICES ASSUME Inv
             PROVE  Contents = ViewsOf(objects)
  BY DEF ContentsAreViews
<1>1. ASSUME NEW i \in Ids, objects[i].kind = "data"
      PROVE  [c \in Idx |-> Fetch(i, c)] = Abstract!Sent(i)
  BY <1>1, FetchOwn DEF Abstract!Sent, Idx
<1> QED
  BY <1>1 DEF Contents, ViewsOf, View

LEMMA ContentsViewNext == Inv' => ContentsAreViews'
  BY ContentsView, PTL

\* The two sides replace the same versions.
LEMMA SameReplaced ==
  ASSUME Inv, NEW k
  PROVE  Abstract!VersionsOf(k) = VersionsOf(k) /\ Abstract!Replaced(k) = Replaced(k)
<1>1. \A i \in Ids : Contents[i].kind = objects[i].kind /\ Contents[i].key = objects[i].key
  BY DEF Contents
<1>2. Abstract!VersionsOf(k) = VersionsOf(k)
  BY <1>1 DEF Abstract!VersionsOf, VersionsOf, Abstract!Ids, Ids
<1>3. mode \in {"Disabled", "Enabled"}
  BY DEF Inv, VersionInv, IdInv, JobInv, TypeInv, TypeOK
<1> QED
  BY <1>2, <1>3 DEF Abstract!Replaced, Replaced

LEMMA ViewsWithout ==
  ASSUME Inv, NEW S \in SUBSET Ids
  PROVE  ViewsOf(ObjectsWithout(S)) = Abstract!Without(S)
<1>1. \A i \in Ids : View(i, NoObject) = Abstract!NoVersion
  BY DEF View, NoObject, Abstract!NoVersion
<1>2. \A i \in Ids : Contents[i] = View(i, objects[i])
  BY ContentsView DEF ContentsAreViews, ViewsOf
<1> QED
  BY <1>1, <1>2 DEF ViewsOf, ObjectsWithout, Abstract!Without, Abstract!Ids, Ids

LEMMA DoneWith ==
  ASSUME TypeInv, NEW r \in Requests, NEW x, RequestBecomes(r, x), x.pc = "closed"
  PROVE  Done' = Done \cup {r}
<1>1. req'[r] = x /\ \A q \in Requests : q # r => req'[q] = req[q]
  BY RequestIs DEF TypeInv
<1> QED
  BY <1>1 DEF Done

LEMMA LeaveDone ==
  ASSUME TypeInv, NEW r \in Requests, NEW files, NEW locators, Leave(r, files, locators)
  PROVE  Done' = Done \cup {r}
<1> DEFINE y == [Closed EXCEPT !.rm = files, !.rmBlobs = locators]
<1>1. y.pc = "closed" /\ Closed.pc = "closed"
  BY DEF Closed, NewRequest
<1>2. PICK x \in {y, Closed} : RequestBecomes(r, x)
  BY DEF Leave
<1> HIDE DEF y
<1> QED
  BY <1>1, <1>2, DoneWith

\* A write of this pipeline is a write of the abstract store.
LEMMA WriteRefines ==
  ASSUME Inv, Inv', NEW r \in Requests, req[r].pc # "closed", Done' = Done \cup {r},
         NEW i \in Ids, NEW k, NEW kind, NEW data, NEW rows, NEW queued,
         WriteVersion(r, i, k, kind, data, rows, queued), NEW body,
         body = (IF kind = "data" THEN Abstract!Sent(i) ELSE None)
  PROVE  Abstract!Write(r, i, k, kind, body)
<1> DEFINE S == Replaced(k)
           row == [kind |-> kind, key |-> k, remote |-> FALSE, seq |-> clock + 1, data |-> data]
           new == [kind |-> kind, key |-> k, seq |-> clock + 1, body |-> body]
<1>1. /\ ~IdTaken(i, k) /\ clock' = clock + 1 /\ mode' = mode
      /\ objects' = [ObjectsWithout(S) EXCEPT ![i] = row]
  BY DEF WriteVersion
<1>2. S \in SUBSET Ids
  BY ReplacedType DEF Inv, JobInv, TypeInv
<1>3. View(i, row) = new
  BY DEF View
<1> HIDE DEF row, new
<1>4. ViewsOf(objects') = [ViewsOf(ObjectsWithout(S)) EXCEPT ![i] = new]
  BY <1>1, <1>3 DEF ViewsOf, ObjectsWithout
<1>5. Contents' = [Abstract!Without(S) EXCEPT ![i] = new]
  BY <1>2, <1>4, ViewsWithout, ContentsViewNext DEF ContentsAreViews
<1>6. Contents[i].kind = "none" \/ i \in S
  BY <1>1 DEF IdTaken, Contents
<1>7. r \notin Done
  BY DEF Done
<1> QED
  BY <1>1, <1>5, <1>6, <1>7, SameReplaced DEF Abstract!Write, Done, new

LEMMA DropRefines ==
  ASSUME Inv, Inv', NEW S \in SUBSET Ids, DropVersions(S)
  PROVE  Contents' = Abstract!Without(S) /\ mode' = mode /\ clock' = clock
<1>1. objects' = ObjectsWithout(S) /\ mode' = mode /\ clock' = clock
  BY DEF DropVersions
<1> QED
  BY <1>1, ViewsWithout, ContentsViewNext DEF ContentsAreViews

LEMMA SameViews ==
  ASSUME Inv, Inv', \A i \in Ids : /\ objects'[i].kind = objects[i].kind
                                /\ objects'[i].key = objects[i].key
                                /\ objects'[i].seq = objects[i].seq
  PROVE  Contents' = Contents
<1>1. ViewsOf(objects') = ViewsOf(objects)
  BY DEF ViewsOf, View
<1> QED
  BY <1>1, ContentsView, ContentsViewNext DEF ContentsAreViews

LEMMA FailRefines ==
  ASSUME Inv, Inv', UNCHANGED tables, NEW R \in SUBSET Requests, Done' = Done \cup R
  PROVE  Abstract!Fail(R)
<1>1. mode' = mode /\ clock' = clock /\ objects' = objects
  BY DEF tables
<1> QED
  BY <1>1, SameViews DEF Abstract!Fail, Done

LEMMA Stutters ==
  ASSUME Inv, Inv', mode' = mode, clock' = clock, Done' = Done,
         \A i \in Ids : /\ objects'[i].kind = objects[i].kind
                       /\ objects'[i].key = objects[i].key
                       /\ objects'[i].seq = objects[i].seq
  PROVE  UNCHANGED Abstract!vars
  BY SameViews DEF Abstract!vars, Done

\* The status a DELETE has read is the bucket's, and a bucket that is never
\* versioned stays so.
StatusHolds == \A r \in Requests : Deleting(r) => req[r].mode = mode
StatusInv == /\ StatusHolds
             /\ Modes \subseteq {"Disabled"} => mode = "Disabled"

LEMMA SameStatus ==
  ASSUME TypeInv, StatusInv, mode' = mode, NEW r \in Requests, NEW x, RequestBecomes(r, x),
         x.pc = "ready" /\ x.kind = "delete" => x.mode = mode
  PROVE  StatusInv'
<1>1. req'[r] = x /\ \A q \in Requests : q # r => req'[q] = req[q]
  BY RequestIs DEF TypeInv
<1> QED
  BY <1>1 DEF StatusInv, StatusHolds, Deleting

LEMMA LeaveStatus ==
  ASSUME TypeInv, StatusInv, mode' = mode, NEW r \in Requests, NEW files, NEW locators,
         Leave(r, files, locators)
  PROVE  StatusInv'
<1> DEFINE y == [Closed EXCEPT !.rm = files, !.rmBlobs = locators]
<1>1. y.pc = "closed" /\ Closed.pc = "closed"
  BY DEF Closed, NewRequest
<1>2. PICK x \in {y, Closed} : RequestBecomes(r, x)
  BY DEF Leave
<1> HIDE DEF y
<1> QED
  BY <1>1, <1>2, SameStatus

LEMMA StatusStep ==
  ASSUME TypeInv, ~StatusMayMislead, StatusInv, [Next]_vars
  PROVE  StatusInv'
<1>1. ASSUME NEW r \in Requests, Handler(r)
      PROVE  StatusInv'
  <2>1. req[r] \in Request /\ Closed.pc = "closed"
    BY DEF TypeInv, TypeOK, Closed, NewRequest
  <2>2. CASE CommitPut(r) \/ CommitCopy(r) \/ CommitDelete(r) \/ (\E k \in Keys : Purge(r, k))
             \/ \E i \in Ids : DeleteVersion(r, i)
    <3>1. mode' = mode /\ \E files, locators : Leave(r, files, locators)
      BY <2>2 DEF CommitPut, CommitCopy, CommitDelete, Purge, DeleteVersion, DropKey, DropVersions,
                  WriteVersion
    <3> QED
      BY <3>1, LeaveStatus
  <2>3. CASE AbandonPut(r) \/ CommitMarker(r) \/ RefuseWrite(r) \/ DropRequest(r)
    <3>1. mode' = mode /\ RequestBecomes(r, Closed)
      BY <2>3 DEF AbandonPut, CommitMarker, RefuseWrite, DropRequest, WriteVersion, tables
    <3> QED
      BY <2>1, <3>1, SameStatus
  <2>4. ASSUME NEW k \in Keys, BeginDelete(r, k)
        PROVE  StatusInv'
    <3> DEFINE x == [req[r] EXCEPT !.pc = "ready", !.kind = "delete", !.key = k, !.mode = mode]
    <3>1. mode' = mode /\ RequestBecomes(r, x)
      BY <2>4 DEF BeginDelete, tables
    <3>2. x.mode = mode
      BY <2>1 DEF Request
    <3> HIDE DEF x
    <3> QED
      BY <3>1, <3>2, SameStatus
  <2>5. ASSUME NEW k \in Keys, BeginPut(r, k)
        PROVE  StatusInv'
    <3> DEFINE x == [req[r] EXCEPT !.pc = "writing", !.kind = "put", !.key = k]
    <3>1. mode' = mode /\ RequestBecomes(r, x)
      BY <2>5 DEF BeginPut, tables
    <3>2. x.pc = "writing"
      BY <2>1 DEF Request
    <3> HIDE DEF x
    <3> QED
      BY <3>1, <3>2, SameStatus
  <2>6. ASSUME NEW k \in Keys, BeginCopy(r, k)
        PROVE  StatusInv'
    <3> PICK i \in Ids :
          RequestBecomes(r, [req[r] EXCEPT !.pc = "ready", !.kind = "copy", !.key = k,
                                           !.source = i, !.data = objects[i].data])
      BY <2>6 DEF BeginCopy
    <3> DEFINE d == objects[i].data
               x == [req[r] EXCEPT !.pc = "ready", !.kind = "copy", !.key = k,
                                   !.source = i, !.data = d]
    <3>1. mode' = mode /\ RequestBecomes(r, x)
      BY <2>6 DEF BeginCopy, tables
    <3> HIDE DEF d
    <3>2. x.kind = "copy"
      BY <2>1 DEF Request
    <3> HIDE DEF x
    <3> QED
      BY <3>1, <3>2, SameStatus
  <2>7. CASE SpoolChunk(r)
    <3> DEFINE x == [req[r] EXCEPT !.written = @ + 1]
    <3>1. mode' = mode /\ RequestBecomes(r, x) /\ req[r].pc = "writing"
      BY <2>7 DEF SpoolChunk, tables
    <3>2. x.pc = "writing"
      BY <2>1, <3>1 DEF Request
    <3> HIDE DEF x
    <3> QED
      BY <3>1, <3>2, SameStatus
  <2>8. CASE RemoveOldSpool(r)
    <3> PICK p : RequestBecomes(r, [req[r] EXCEPT !.rm = @ \ {p}])
      BY <2>8 DEF RemoveOldSpool
    <3> DEFINE x == [req[r] EXCEPT !.rm = @ \ {p}]
    <3>1. mode' = mode /\ RequestBecomes(r, x)
      BY <2>8 DEF RemoveOldSpool, tables
    <3>2. x.pc = req[r].pc /\ x.kind = req[r].kind /\ x.mode = req[r].mode
      BY <2>1 DEF Request
    <3> HIDE DEF x
    <3> QED
      BY <3>1, <3>2, SameStatus DEF StatusInv, StatusHolds, Deleting
  <2>9. CASE RemoveOldBlob(r)
    <3> PICK l : RequestBecomes(r, [req[r] EXCEPT !.rmBlobs = @ \ {l}])
      BY <2>9 DEF RemoveOldBlob
    <3> DEFINE x == [req[r] EXCEPT !.rmBlobs = @ \ {l}]
    <3>1. mode' = mode /\ RequestBecomes(r, x)
      BY <2>9 DEF RemoveOldBlob, tables
    <3>2. x.pc = req[r].pc /\ x.kind = req[r].kind /\ x.mode = req[r].mode
      BY <2>1 DEF Request
    <3> HIDE DEF x
    <3> QED
      BY <3>1, <3>2, SameStatus DEF StatusInv, StatusHolds, Deleting
  <2> QED
    BY <1>1, <2>2, <2>3, <2>4, <2>5, <2>6, <2>7, <2>8, <2>9 DEF Handler
<1>2. CASE \E m \in Modes : SetVersioning(m)
  BY <1>2 DEF SetVersioning, StatusInv, StatusHolds, Deleting
<1>3. CASE Restart
  BY <1>3 DEF Restart, tables, StatusInv, StatusHolds, Deleting, Closed, NewRequest
<1>4. CASE \/ \E w \in Workers : UploadWorker(w)
           \/ Gc
           \/ \E r \in Requests : ExpireLease(r) \/ EndBackoff(r)
           \/ UNCHANGED vars
  <2>1. ASSUME NEW w \in Workers, UploadWorker(w)
        PROVE  mode' = mode /\ req' = req
    BY <2>1 DEF UploadWorker, WorkerStep, Boot, Poll, Claim, LoseClaim, LoadChunks, SkipGone, Upload,
                LackFile, FailUpload, CommitLocator, FindJob, MarkRemote, EndJob, RemoveSpool, ClearPath,
                WorkerError, ChangeCredentials, tables
  <2>2. Gc => mode' = mode /\ req' = req
    BY DEF Gc, StartGc, FreeFile, FreeRow, ReadActive, ListSpool, SweepFile, EndSweep, CollectRemote,
           tables
  <2>3. mode' = mode /\ req' = req
    BY <1>4, <2>1, <2>2 DEF ExpireLease, EndBackoff, vars, tables
  <2> QED
    BY <2>3 DEF StatusInv, StatusHolds, Deleting
<1> QED
  BY <1>1, <1>2, <1>3, <1>4 DEF Next

LEMMA HandlerRefines ==
  ASSUME StrictUse, Inv, StatusInv, Inv', NEW r \in Requests, Handler(r)
  PROVE  Abstract!Next \/ UNCHANGED Abstract!vars
<1>1. /\ TypeInv /\ req[r] \in Request
      /\ FinalId(r, r) = r
      /\ FinalId(r, Null) = IF mode = "Enabled" THEN r ELSE Null
      /\ mode \in {"Disabled", "Enabled"}
  BY DEF FinalId, Inv, VersionInv, IdInv, JobInv, TypeInv, TypeOK
<1>2. r \in Ids /\ Null \in Ids /\ \A k : VersionsOf(k) \in SUBSET Ids
  BY DEF Ids, VersionsOf
<1>3. CASE CommitPut(r)
  <2> DEFINE k == req[r].key
             rows == [c \in Idx |-> [state |-> "pending", path |-> <<r, c>>, loc |-> None]]
  <2>1. /\ req[r].pc = "writing" /\ k \in Keys /\ Done' = Done \cup {r}
        /\ WriteVersion(r, r, k, "data", r, rows, TRUE)
    BY <1>1, <1>3, LeaveDone DEF CommitPut, TypeInv, RequestShape
  <2>2. Abstract!Sent(r) = (IF "data" = "data" THEN Abstract!Sent(r) ELSE None)
    OBVIOUS
  <2> HIDE DEF rows, k
  <2>3. Abstract!Write(r, r, k, "data", Abstract!Sent(r))
    BY <1>2, <2>1, <2>2, WriteRefines
  <2>4. Abstract!Put(r, k)
    BY <1>1, <2>3 DEF Abstract!Put
  <2> QED
    BY <2>1, <2>4 DEF Abstract!Next
<1>4. CASE CommitMarker(r)
  <2> DEFINE k == req[r].key
             i == FinalId(r, Null)
             rows == [c \in Idx |-> NoChunk]
  <2>1. /\ req[r].pc = "ready" /\ RequestBecomes(r, Closed)
        /\ WriteVersion(r, i, k, "marker", None, rows, FALSE)
    BY <1>4 DEF CommitMarker
  <2>2. Done' = Done \cup {r} /\ k \in Keys /\ i \in Ids
    BY <1>1, <1>2, <2>1, DoneWith DEF Closed, NewRequest, TypeInv, RequestShape
  <2>3. None = (IF "marker" = "data" THEN Abstract!Sent(i) ELSE None)
    OBVIOUS
  <2> HIDE DEF rows, k, i
  <2>4. Abstract!Write(r, i, k, "marker", None)
    BY <2>1, <2>2, <2>3, WriteRefines
  <2>5. Abstract!Mark(r, k)
    BY <1>1, <2>4 DEF Abstract!Mark, i
  <2> QED
    BY <2>2, <2>5 DEF Abstract!Next
<1>5. CASE CommitDelete(r) \/ \E k \in Keys : Purge(r, k)
  <2>1. PICK k \in Keys : req[r].pc # "closed" /\ \E locators : DropKey(r, k, locators)
    BY <1>1, <1>5 DEF CommitDelete, Purge, TypeInv, RequestShape
  <2>2. Done' = Done \cup {r} /\ DropVersions(VersionsOf(k))
    BY <1>1, <2>1, LeaveDone DEF DropKey
  <2>3. Contents' = Abstract!Without(VersionsOf(k)) /\ mode' = mode /\ clock' = clock
    BY <1>2, <2>2, DropRefines
  <2>4. Abstract!Drop(r, Abstract!VersionsOf(k))
    BY <2>1, <2>2, <2>3, SameReplaced DEF Abstract!Drop, Done
  <2>5. mode = "Disabled"
    BY <1>5 DEF CommitDelete, Purge, StrictUse, StatusInv, StatusHolds, Deleting
  <2> QED
    BY <2>1, <2>4, <2>5 DEF Abstract!DropAll, Abstract!Next
<1>6. CASE \E i \in Ids : DeleteVersion(r, i)
  <2> PICK i \in Ids : DeleteVersion(r, i)
    BY <1>6
  <2>1. Done' = Done \cup {r} /\ DropVersions({i}) /\ req[r].pc # "closed"
    BY <1>1, LeaveDone DEF DeleteVersion
  <2>2. Abstract!Drop(r, {i})
    BY <2>1, DropRefines DEF Abstract!Drop, Done
  <2> QED
    BY <2>2 DEF Abstract!Next, Abstract!Ids, Ids
<1>7. CASE AbandonPut(r) \/ RefuseWrite(r) \/ DropRequest(r)
  <2>1. RequestBecomes(r, Closed) /\ UNCHANGED tables
    BY <1>7 DEF AbandonPut, RefuseWrite, DropRequest
  <2>2. Done' = Done \cup {r}
    BY <1>1, <2>1, DoneWith DEF Closed, NewRequest
  <2>3. Abstract!Fail({r})
    BY <2>1, <2>2, FailRefines
  <2> QED
    BY <2>3 DEF Abstract!Next
<1>8. CASE \/ \E k \in Keys : BeginPut(r, k) \/ BeginDelete(r, k)
           \/ SpoolChunk(r) \/ RemoveOldSpool(r) \/ RemoveOldBlob(r)
  <2>1. UNCHANGED tables
    BY <1>8 DEF BeginPut, BeginDelete, SpoolChunk, RemoveOldSpool, RemoveOldBlob
  <2>2. \E x : RequestBecomes(r, x) /\ (x.pc = "closed" <=> req[r].pc = "closed")
    BY <1>1, <1>8, HandlerGoesOn DEF GoesOn
  <2>3. Done' = Done
    BY <1>1, <2>2, RequestIs DEF Done, TypeInv
  <2> QED
    BY <2>1, <2>3, Stutters DEF tables
<1>9. ~CommitCopy(r) /\ \A k \in Keys : ~BeginCopy(r, k)
  BY DEF CommitCopy, BeginCopy, StrictUse, SafeUse, Inv, StoreInv, NoCopies
<1> QED
  BY <1>3, <1>4, <1>5, <1>6, <1>7, <1>8, <1>9 DEF Handler

LEMMA UploadWorkerRefines ==
  ASSUME Inv, Inv', NEW w \in Workers, UploadWorker(w)
  PROVE  UNCHANGED Abstract!vars
<1>1. mode' = mode /\ clock' = clock /\ req' = req
  BY DEF UploadWorker, WorkerStep, Boot, Poll, Claim, LoseClaim, LoadChunks, SkipGone, Upload,
         LackFile, FailUpload, CommitLocator, FindJob, MarkRemote, EndJob, RemoveSpool, ClearPath,
         WorkerError, ChangeCredentials, tables
<1>2. CASE MarkRemote(w)
  <2> DEFINE i == wk[w].version
             x == [objects[i] EXCEPT !.remote = TRUE]
  <2>1. objects' = objects \/ objects' = [objects EXCEPT ![i] = x]
    BY <1>2 DEF MarkRemote
  <2>3. i \in Ids /\ objects[i] \in ObjectRow /\ objects \in [Ids -> ObjectRow]
    BY <1>2 DEF MarkRemote, Inv, JobInv, TypeInv, TypeOK, WorkerShape
  <2>4. x.kind = objects[i].kind /\ x.key = objects[i].key /\ x.seq = objects[i].seq
    BY <2>3 DEF ObjectRow
  <2> HIDE DEF x, i
  <2>2. \A j \in Ids : /\ objects'[j].kind = objects[j].kind
                       /\ objects'[j].key = objects[j].key
                       /\ objects'[j].seq = objects[j].seq
    BY <2>1, <2>3, <2>4
  <2> QED
    BY <1>1, <2>2, Stutters DEF Done
<1>3. CASE ~MarkRemote(w)
  <2>1. objects' = objects
    BY <1>3 DEF UploadWorker, WorkerStep, Boot, Poll, Claim, LoseClaim, LoadChunks, SkipGone, Upload,
         LackFile, FailUpload, CommitLocator, FindJob, EndJob, RemoveSpool, ClearPath,
         WorkerError, ChangeCredentials, tables
  <2> QED
    BY <1>1, <2>1, Stutters DEF Done
<1> QED
  BY <1>2, <1>3

LEMMA StepRefines ==
  ASSUME StrictUse, Inv, StatusInv, Inv', [Next]_vars
  PROVE  [Abstract!Next]_(Abstract!vars)
<1>1. CASE \E r \in Requests : Handler(r)
  BY <1>1, HandlerRefines
<1>2. CASE \E w \in Workers : UploadWorker(w)
  BY <1>2, UploadWorkerRefines
<1>3. CASE \E m \in Modes : SetVersioning(m)
  <2> PICK m \in Modes : SetVersioning(m)
    BY <1>3
  <2>1. mode' = m /\ clock' = clock /\ objects' = objects /\ req' = req
    BY DEF SetVersioning
  <2>2. Abstract!SetVersioning(m)
    BY <2>1, SameViews DEF Abstract!SetVersioning
  <2> QED
    BY <2>2 DEF Abstract!Next
<1>4. CASE \/ \E r \in Requests : ExpireLease(r) \/ EndBackoff(r)
           \/ Gc
           \/ UNCHANGED vars
  <2>1. mode' = mode /\ clock' = clock /\ objects' = objects /\ req' = req
    BY <1>4 DEF ExpireLease, EndBackoff, vars, tables, Gc, StartGc, FreeFile, FreeRow, ReadActive,
                ListSpool, SweepFile, EndSweep, CollectRemote
  <2> QED
    BY <2>1, Stutters DEF Done
<1>5. CASE Restart
  <2> DEFINE R == {r \in Requests : req[r].pc # "idle"}
  <2>1. UNCHANGED tables /\ R \in SUBSET Requests
    BY <1>5 DEF Restart
  <2>2. Done' = Done \cup R
    BY <1>5 DEF Restart, Done, Closed, NewRequest
  <2> HIDE DEF R
  <2>3. mode' = mode /\ clock' = clock /\ Contents' = Contents
    BY <2>1, SameViews DEF tables
  <2> QED
    BY <2>1, <2>2, <2>3 DEF Abstract!Next, Abstract!Fail, Done
<1> QED
  BY <1>1, <1>2, <1>3, <1>4, <1>5 DEF Next

LEMMA InitRefines ==
  ASSUME Init
  PROVE  Abstract!Init
<1>1. Contents = [i \in Ids |-> Abstract!NoVersion]
  BY DEF Init, NoObject, Contents, Abstract!NoVersion
<1>2. {r \in Requests : req[r].pc = "closed"} = {}
  BY DEF Init, NewRequest
<1> QED
  BY <1>1, <1>2 DEF Init, Abstract!Init, Abstract!Ids, Ids

\* To its clients the whole pipeline (spool, jobs, workers, messages, GC,
\* crashes, restarts) is a store that keeps what was put and forgets what was
\* deleted, each request taking effect at most once and at one moment; in a
\* versioned bucket only a DELETE that names a version forgets one.
THEOREM PipelineIsVersionStore ==
  ASSUME StrictUse
  PROVE  Spec => ImplementsVersionStore
<1>1. Init => Abstract!Init /\ StatusInv
  <2>1. Init => StatusInv
    BY DEF Init, NewRequest, StatusInv, StatusHolds, Deleting
  <2> QED
    BY <2>1, InitRefines
<1>2. Inv /\ StatusInv /\ [Next]_vars => StatusInv'
  BY StatusStep DEF StrictUse, Inv, JobInv
<1>3. Inv /\ StatusInv /\ Inv' /\ [Next]_vars => [Abstract!Next]_(Abstract!vars)
  BY StepRefines
<1>4. SafeUse
  BY DEF StrictUse
<1>5. Spec => []Inv
  BY <1>4, StoreInvariant
<1> QED
  BY <1>1, <1>2, <1>3, <1>5, PTL DEF Spec, ImplementsVersionStore, Abstract!Spec
=============================================================================
