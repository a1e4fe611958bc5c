----------------------------- MODULE Multipart -----------------------------
(***************************************************************************)
(* Multipart uploads of one key: the handlers that initiate an upload,     *)
(* send a part, complete and abort (app.rs), their queries and transactions *)
(* (db/mod.rs), the durable write of a part file (spool.rs), and the       *)
(* garbage collector and the restart that remove part files nobody refers  *)
(* to.                                                                     *)
(*                                                                         *)
(* A part file is named after its upload and its number alone, so requests *)
(* of one upload share files: what `clashed` and `rewritten` remember tells *)
(* well-behaved uploads from those whose client (or a sweep of the garbage *)
(* collector) got in its own way, and `wiped` tells the files a startup    *)
(* removed because it could not ask which are needed.  The life of the     *)
(* committed object in the workers is ObjectPipeline's; here a worker just *)
(* stores a chunk and then removes its file.                               *)
(***************************************************************************)
EXTENDS Naturals, Sequences, FiniteSets

CONSTANTS
  Uploads,         \* upload ids, drawn by CreateMultipartUpload
  Requests,        \* handlers; one names the uuid or the inode it creates
  NumParts,        \* part numbers in use (the code allows 10000)
  Bodies,          \* contents of parts; a body stands for its size, ETag and sha256
  None,
  Modes,           \* versioning states of the bucket
  MaxDisruptions   \* bound: crashes, errors and clients that hang up

ASSUME MultipartAssumption ==
  /\ NumParts \in Nat \ {0}
  /\ MaxDisruptions \in Nat
  /\ None \notin Requests \cup Uploads \cup Bodies
  /\ Modes \subseteq {"Disabled", "Enabled", "Suspended"}

Nums == 1..NumParts
AskedNums == 0..(NumParts + 1)   \* numbers clients ask for
Files == Uploads \X Nums

VARIABLES
  mode,        \* buckets.versioning_status
  uploads,     \* multipart_uploads: not initiated yet, a row, or deleted
  parts,       \* multipart_parts, by upload and number: the body the row describes
  objects,     \* the versions made by CompleteMultipartUpload, with their chunk rows
  file,        \* {upload_id}_p{n}.chunk: the inode of that name
  tmp,         \* {upload_id}_p{n}.tmp: likewise
  data,        \* contents of the inodes
  req,         \* request handlers
  gc,          \* the orphan sweep of run_gc
  disruptions, \* how much of MaxDisruptions is used up
  clashed,     \* history: uploads whose requests overlapped each other or a sweep
  rewritten,   \* history: first body sent for each part, and uploads that sent two
               \* (kept for uploads that did not clash)
  wiped        \* history: files that a startup removed without having asked the database

tables == <<mode, uploads, parts, objects>>
disk == <<file, tmp, data>>
history == <<clashed, rewritten, wiped>>
vars == <<tables, disk, req, gc, disruptions, history>>

Part == Nums \X Bodies
Listings == UNION {[1..n -> Part] : n \in Nums}
PartRows == [Nums -> Bodies \cup {None}]
ChunkRow == [state : {"none", "pending", "remote"}, body : Bodies \cup {None},
             path : BOOLEAN, stored : Bodies \cup {None}]
ObjectRow == [live : BOOLEAN, null : BOOLEAN, upload : Uploads \cup {None},
              listing : Listings \cup {<<>>}, chunks : [Nums -> ChunkRow]]
Request == [pc : {"idle", "checked", "opened", "written", "renamed", "ready",
                  "removing", "closed"},
            kind : {"part", "complete", "abort"} \cup {None},
            upload : Uploads \cup {None}, num : Nums \cup {None},
            body : Bodies \cup {None}, inode : Requests \cup {None},
            listing : Listings \cup {<<>>}, snap : PartRows,
            rm : SUBSET Files]
Sweep == [pc : {"idle", "chunks", "parts", "sweeping"}, paths : SUBSET Files]

\* Every variable holds what its table, file or handler can hold.
TypeOK ==
  /\ mode \in {"Disabled", "Enabled", "Suspended"}
  /\ uploads \in [Uploads -> {"new", "open", "ended"}]
  /\ parts \in [Uploads -> PartRows]
  /\ DOMAIN objects = Requests /\ \A r \in Requests : objects[r] \in ObjectRow
  /\ file \in [Files -> Requests \cup {None}]
  /\ tmp \in [Files -> Requests \cup {None}]
  /\ data \in [Requests -> Bodies \cup {None}]
  /\ DOMAIN req = Requests /\ \A r \in Requests : req[r] \in Request
  /\ gc \in Sweep
  /\ disruptions \in 0..MaxDisruptions
  /\ clashed \subseteq Uploads
  /\ rewritten.first \in [Uploads -> [AskedNums -> Bodies \cup {None}]] /\ rewritten.twice \subseteq Uploads
  /\ wiped \subseteq Files

NoParts == [n \in Nums |-> None]
NothingSent == [n \in AskedNums |-> None]
NoChunk == [state |-> "none", body |-> None, path |-> FALSE, stored |-> None]
NoObject == [live |-> FALSE, null |-> FALSE, upload |-> None, listing |-> <<>>,
             chunks |-> [n \in Nums |-> NoChunk]]
\* One pending chunk row per part row, over the part's file.  The rows are kept
\* here by part number; their idx is its rank among the parts.
ChunksOf(snap) == [n \in Nums |-> IF snap[n] = None THEN NoChunk
                                  ELSE [state |-> "pending", body |-> snap[n],
                                        path |-> TRUE, stored |-> None]]
RequestAt(pc, kind, u) ==
  [pc |-> pc, kind |-> kind, upload |-> u, num |-> None, body |-> None, inode |-> None,
   listing |-> <<>>, snap |-> NoParts, rm |-> {}]
Closed == RequestAt("closed", None, None)

\* The key has no version, or (past) one of one part, from an upload u that
\* request r completed: the state Respond(r) leaves when nothing has happened
\* to it yet.
InitAfter(past, u, r, b) ==
  LET first == [n \in Nums |-> IF n = 1 THEN b ELSE None]
      isPast(v, q) == past /\ v = u /\ q = r
  IN
  /\ mode \in Modes
  /\ uploads = [v \in Uploads |-> IF isPast(v, r) THEN "ended" ELSE "new"]
  /\ parts = [v \in Uploads |-> NoParts]
  /\ objects = [q \in Requests |->
                  IF isPast(u, q)
                  THEN [live |-> TRUE, null |-> mode = "Suspended", upload |-> u,
                        listing |-> << <<1, b>> >>, chunks |-> ChunksOf(first)]
                  ELSE NoObject]
  /\ file = [f \in Files |-> IF isPast(f[1], r) /\ f[2] = 1 THEN r ELSE None]
  /\ tmp = [f \in Files |-> None]
  /\ data = [q \in Requests |-> IF isPast(u, q) THEN b ELSE None]
  /\ req = [q \in Requests |-> IF isPast(u, q) THEN Closed ELSE RequestAt("idle", None, None)]
  /\ gc = [pc |-> "idle", paths |-> {}]
  /\ disruptions = 0
  /\ clashed = {}
  /\ rewritten = [first |-> [v \in Uploads |-> [n \in AskedNums |->
                              IF isPast(v, r) /\ n = 1 THEN b ELSE None]],
                  twice |-> {}]
  /\ wiped = {}

Init == \E past \in BOOLEAN, u \in Uploads, r \in Requests, b \in Bodies :
          InitAfter(past, u, r, b)

Disrupt == /\ disruptions < MaxDisruptions
           /\ disruptions' = disruptions + 1

Become(r, x) == req' = [req EXCEPT ![r] = x]

-----------------------------------------------------------------------------
(* What clients are told not to do; history only, it restrains nobody *)

InFlight(r) == req[r].pc \notin {"idle", "closed"}

\* Parts of different numbers may be sent side by side; anything else that
\* overlaps a request of the same upload is a clash, and so is a sweep.
Overlaps(r, kind, u, n) ==
  \/ gc.pc # "idle"
  \/ \E q \in Requests \ {r} :
       /\ InFlight(q) /\ req[q].upload = u
       /\ ~(kind = "part" /\ req[q].kind = "part" /\ req[q].num # n)

Clash(r, kind, u, n) == IF Overlaps(r, kind, u, n) THEN {u} ELSE {}

\* The uploads in clash overlap; first and twice are what has been sent by now,
\* which matters no more for uploads that clashed.
Remember(clash, first, twice) ==
  /\ clashed' = clashed \cup clash
  /\ rewritten' = [first |-> [u \in Uploads |-> IF u \in clashed' \cup twice THEN NothingSent
                                                ELSE first[u]],
                   twice |-> twice \ clashed']
  /\ UNCHANGED wiped

Notice(clash) == Remember(clash, rewritten.first, rewritten.twice)

NoticeBody(clash, u, n, b) ==
  Remember(clash, [rewritten.first EXCEPT ![u][n] = IF @ = None THEN b ELSE @],
           rewritten.twice \cup (IF rewritten.first[u][n] \in {None, b} THEN {} ELSE {u}))

-----------------------------------------------------------------------------
(* CreateMultipartUpload and UploadPart *)

\* create_multipart_upload; the bucket exists throughout.
Initiate(u) ==
  /\ uploads[u] = "new"
  /\ uploads' = [uploads EXCEPT ![u] = "open"]
  /\ UNCHANGED <<mode, parts, objects, disk, req, gc, disruptions, history>>

\* Mutant of BeginPart: the part number is not checked.
BeginPartUnchecked(r, u, n, b) ==
  /\ req[r].pc = "idle"
  /\ \/ uploads[u] = "open" /\ UNCHANGED disruptions
     \/ uploads[u] = "ended" /\ Disrupt
  /\ Become(r, [RequestAt("checked", "part", u) EXCEPT !.num = n, !.body = b])
  /\ NoticeBody(Clash(r, "part", u, n), u, n, b)
  /\ UNCHANGED <<tables, disk, gc>>

\* upload_part_handler refuses a number out of range and an upload that has
\* no row, but goes on when the query for the row fails.
BeginPart(r, u, n, b) ==
  /\ n \in Nums
  /\ req[r].pc = "idle"
  /\ \/ uploads[u] = "open" /\ UNCHANGED disruptions
     \/ uploads[u] = "ended" /\ Disrupt
  /\ Become(r, [RequestAt("checked", "part", u) EXCEPT !.num = n, !.body = b])
  /\ NoticeBody(Clash(r, "part", u, n), u, n, b)
  /\ UNCHANGED <<tables, disk, gc>>

PathOf(r) == <<req[r].upload, req[r].num>>

\* write_durable, File::create: the tmp file of that name is truncated if it
\* is there, created if not.
OpenTmp(r) ==
  LET inode == IF tmp[PathOf(r)] = None THEN r ELSE tmp[PathOf(r)] IN
  /\ req[r].pc = "checked"
  /\ tmp' = [tmp EXCEPT ![PathOf(r)] = inode]
  /\ data' = [data EXCEPT ![inode] = None]
  /\ Become(r, [req[r] EXCEPT !.pc = "opened", !.inode = inode])
  /\ UNCHANGED <<tables, file, gc, disruptions, history>>

\* write_all and sync_all go to the inode, whatever its name is by now.
WriteTmp(r) ==
  /\ req[r].pc = "opened"
  /\ data' = [data EXCEPT ![req[r].inode] = req[r].body]
  /\ Become(r, [req[r] EXCEPT !.pc = "written"])
  /\ UNCHANGED <<tables, file, tmp, gc, disruptions, history>>

\* The rename takes whatever has the tmp name; without one it fails.
RenameTmp(r) ==
  /\ req[r].pc = "written"
  /\ IF tmp[PathOf(r)] = None
     THEN /\ Become(r, Closed)
          /\ UNCHANGED <<file, tmp>>
     ELSE /\ Become(r, [req[r] EXCEPT !.pc = "renamed"])
          /\ file' = [file EXCEPT ![PathOf(r)] = tmp[PathOf(r)]]
          /\ tmp' = [tmp EXCEPT ![PathOf(r)] = None]
  /\ UNCHANGED <<tables, data, gc, disruptions, history>>

\* Mutant of SavePart: foreign keys are not enforced.
SavePartAnyway(r) ==
  /\ req[r].pc = "renamed"
  /\ parts' = [parts EXCEPT ![req[r].upload][req[r].num] = req[r].body]
  /\ Become(r, Closed)
  /\ UNCHANGED <<mode, uploads, objects, disk, gc, disruptions, history>>

\* save_multipart_part upserts the row; the foreign key refuses it once the
\* upload's row is gone, and then the file stays behind.
SavePart(r) ==
  /\ req[r].pc = "renamed"
  /\ parts' = IF uploads[req[r].upload] = "open"
              THEN [parts EXCEPT ![req[r].upload][req[r].num] = req[r].body]
              ELSE parts
  /\ Become(r, Closed)
  /\ UNCHANGED <<mode, uploads, objects, disk, gc, disruptions, history>>

-----------------------------------------------------------------------------
(* CompleteMultipartUpload *)

Stored(u) == {n \in Nums : parts[u][n] # None}
Live == {r \in Requests : objects[r].live}
\* Mutant of FilesOf: only chunks that are already remote are asked.
FilesOfRemote(S) ==
  {<<objects[x[1]].upload, x[2]>> :
     x \in {y \in S \X Nums : /\ objects[y[1]].chunks[y[2]].path
                              /\ objects[y[1]].chunks[y[2]].state = "remote"}}
FilesOf(S) == {<<objects[x[1]].upload, x[2]>> :
                 x \in {y \in S \X Nums : objects[y[1]].chunks[y[2]].path}}

\* Mutant of Validates: the lengths are not compared.
ValidatesAny(listing, snap) ==
  \A i \in DOMAIN listing : snap[listing[i][1]] = listing[i][2]

\* Every listed part must have a row with its ETag, and there must be as many
\* as there are rows.  Nothing says that they differ or that they ascend.
Validates(listing, snap) ==
  /\ Len(listing) = Cardinality({n \in Nums : snap[n] # None})
  /\ \A i \in DOMAIN listing : snap[listing[i][1]] = listing[i][2]

\* complete_multipart_upload_txn up to its transaction: the upload and its
\* parts are read by two queries and validated.  A row of a part implies the
\* row of its upload, so the second query decides.
BeginComplete(r, u) ==
  /\ req[r].pc = "idle"
  /\ Stored(u) # {}
  /\ \E listing \in Listings :
       /\ Validates(listing, parts[u])
       /\ Become(r, [RequestAt("ready", "complete", u) EXCEPT !.listing = listing,
                                                              !.snap = parts[u]])
  /\ Notice(Clash(r, "complete", u, None))
  /\ UNCHANGED <<tables, disk, gc, disruptions>>

\* prepare_versioning_write_tx for the upload's key.
Replaced == CASE mode = "Disabled"  -> Live
              [] mode = "Suspended" -> {r \in Live : objects[r].null}
              [] mode = "Enabled"   -> {}

\* Mutant of CommitComplete: the rows of the upload are not deleted.
CommitCompleteKeepsRows(r) ==
  /\ req[r].pc = "ready"
  /\ req[r].kind = "complete"
  /\ objects' = [q \in Requests |->
                   CASE q = r -> [live |-> TRUE, null |-> mode = "Suspended",
                                  upload |-> req[r].upload, listing |-> req[r].listing,
                                  chunks |-> ChunksOf(req[r].snap)]
                     [] q \in Replaced \ {r} -> NoObject
                     [] OTHER -> objects[q]]
  /\ Become(r, [RequestAt("removing", "complete", req[r].upload) EXCEPT !.rm = FilesOf(Replaced)])
  /\ UNCHANGED <<mode, uploads, parts, disk, gc, disruptions, history>>

\* Its transaction: replaced versions go, the object gets one chunk row per
\* part that was read, the rows of the upload are deleted if they are still
\* there.  The files of the replaced versions are left to the handler.
CommitComplete(r) ==
  /\ req[r].pc = "ready"
  /\ req[r].kind = "complete"
  /\ objects' = [q \in Requests |->
                   CASE q = r -> [live |-> TRUE, null |-> mode = "Suspended",
                                  upload |-> req[r].upload, listing |-> req[r].listing,
                                  chunks |-> ChunksOf(req[r].snap)]
                     [] q \in Replaced \ {r} -> NoObject
                     [] OTHER -> objects[q]]
  /\ uploads' = [uploads EXCEPT ![req[r].upload] = "ended"]
  /\ parts' = [parts EXCEPT ![req[r].upload] = NoParts]
  /\ Become(r, [RequestAt("removing", "complete", req[r].upload) EXCEPT !.rm = FilesOf(Replaced)])
  /\ UNCHANGED <<mode, disk, gc, disruptions, history>>

-----------------------------------------------------------------------------
(* AbortMultipartUpload, and the ends of handlers *)

\* abort_multipart_upload lists the parts before its transaction, whether the
\* upload is still there or not.
BeginAbort(r, u) ==
  /\ req[r].pc = "idle"
  /\ uploads[u] # "new"
  /\ Become(r, [RequestAt("ready", "abort", u) EXCEPT !.snap = parts[u]])
  /\ Notice(Clash(r, "abort", u, None))
  /\ UNCHANGED <<tables, disk, gc, disruptions>>

\* Its transaction; the files of the parts it listed are left to the handler.
CommitAbort(r) ==
  LET u == req[r].upload IN
  /\ req[r].pc = "ready"
  /\ req[r].kind = "abort"
  /\ uploads' = [uploads EXCEPT ![u] = "ended"]
  /\ parts' = [parts EXCEPT ![u] = NoParts]
  /\ Become(r, [RequestAt("removing", "abort", u) EXCEPT
                  !.rm = {<<u, n>> : n \in {m \in Nums : req[r].snap[m] # None}}])
  /\ UNCHANGED <<mode, objects, disk, gc, disruptions, history>>

\* remove_file on one of the files left to the handler; results are ignored.
RemoveFile(r) ==
  /\ req[r].pc = "removing"
  /\ \E f \in req[r].rm :
       /\ file' = [file EXCEPT ![f] = None]
       /\ Become(r, [req[r] EXCEPT !.rm = @ \ {f}])
  /\ UNCHANGED <<tables, tmp, data, gc, disruptions, history>>

Respond(r) ==
  /\ req[r].pc = "removing"
  /\ req[r].rm = {}
  /\ Become(r, Closed)
  /\ UNCHANGED <<tables, disk, gc, disruptions, history>>

\* A statement fails, or the client hangs up: the handler goes no further and
\* whatever it wrote stays.
DropRequest(r) ==
  /\ InFlight(r)
  /\ Disrupt
  /\ Become(r, Closed)
  /\ UNCHANGED <<tables, disk, gc, history>>

-----------------------------------------------------------------------------
(* Upload workers, the garbage collector, restart *)

ChunkBecomes(v, n, c) == objects' = [objects EXCEPT ![v].chunks[n] = c]

\* A worker uploads what the file of a pending chunk holds; nobody compares
\* it with the row's sha256.
StoreChunk(v, n) ==
  LET f == <<objects[v].upload, n>> IN
  /\ objects[v].chunks[n].state = "pending"
  /\ file[f] # None
  /\ ChunkBecomes(v, n, [objects[v].chunks[n] EXCEPT !.state = "remote",
                                                     !.stored = data[file[f]]])
  /\ UNCHANGED <<mode, uploads, parts, disk, req, gc, disruptions, history>>

\* It, or the first pass of run_gc, removes the file and clears the path.
FreeChunk(v, n) ==
  /\ objects[v].chunks[n].state = "remote"
  /\ objects[v].chunks[n].path
  /\ file' = [file EXCEPT ![<<objects[v].upload, n>>] = None]
  /\ ChunkBecomes(v, n, [objects[v].chunks[n] EXCEPT !.path = FALSE])
  /\ UNCHANGED <<mode, uploads, parts, tmp, data, req, gc, disruptions, history>>

PartFiles == {f \in Files : parts[f[1]][f[2]] # None}

SweepBecomes(pc, paths) == gc' = [pc |-> pc, paths |-> paths]

\* active_spool_paths asks the chunks first, in one query...
ReadChunkPaths ==
  /\ gc.pc = "idle"
  /\ SweepBecomes("chunks", FilesOf(Live))
  /\ Notice({req[r].upload : r \in {q \in Requests : InFlight(q)}})
  /\ UNCHANGED <<tables, disk, req, disruptions>>

\* Mutant of ReadPartPaths: the parts are not asked.
SkipPartPaths ==
  /\ gc.pc = "chunks"
  /\ SweepBecomes("parts", gc.paths)
  /\ UNCHANGED <<tables, disk, req, disruptions, history>>

\* ... and the parts in another; if this one fails there is no sweep.
ReadPartPaths ==
  /\ gc.pc = "chunks"
  /\ SweepBecomes("parts", gc.paths \cup PartFiles)
  /\ UNCHANGED <<tables, disk, req, disruptions, history>>

\* From here on paths are the files to remove; after the last the run is over.
SweepGoesOn(paths) == SweepBecomes(IF paths = {} THEN "idle" ELSE "sweeping", paths)

\* read_dir.
ListFiles ==
  /\ gc.pc = "parts"
  /\ SweepGoesOn({f \in Files : file[f] # None} \ gc.paths)
  /\ UNCHANGED <<tables, disk, req, disruptions, history>>

SweepFile ==
  /\ gc.pc = "sweeping"
  /\ \E f \in gc.paths :
       /\ file' = [file EXCEPT ![f] = None]
       /\ SweepGoesOn(gc.paths \ {f})
  /\ UNCHANGED <<tables, tmp, data, req, disruptions, history>>

\* The process dies and starts again: reconcile_spool removes the tmp files
\* and the part files that no row names.  If the query for those rows fails,
\* nothing counts as named (unwrap_or_default) and every file goes.
Restart ==
  /\ Disrupt
  /\ \/ /\ file' = [f \in Files |-> IF f \in FilesOf(Live) \cup PartFiles THEN file[f] ELSE None]
        /\ UNCHANGED wiped
     \/ /\ file' = [f \in Files |-> None]
        /\ wiped' = wiped \cup {f \in Files : file[f] # None}
  /\ tmp' = [f \in Files |-> None]
  /\ req' = [r \in Requests |-> IF InFlight(r) THEN Closed ELSE req[r]]
  /\ SweepBecomes("idle", {})
  /\ UNCHANGED <<tables, data, clashed, rewritten>>

-----------------------------------------------------------------------------
PartStep(r) == OpenTmp(r) \/ WriteTmp(r) \/ RenameTmp(r) \/ SavePart(r)
EndStep(r) == CommitComplete(r) \/ CommitAbort(r) \/ RemoveFile(r) \/ Respond(r)
GcStep == ReadChunkPaths \/ ReadPartPaths \/ ListFiles \/ SweepFile

Next ==
  \/ \E u \in Uploads : Initiate(u)
  \/ \E r \in Requests, u \in Uploads, n \in AskedNums, b \in Bodies :
       BeginPart(r, u, n, b)
  \/ \E r \in Requests, u \in Uploads : BeginComplete(r, u) \/ BeginAbort(r, u)
  \/ \E r \in Requests : PartStep(r) \/ EndStep(r) \/ DropRequest(r)
  \/ \E v \in Requests, n \in Nums : StoreChunk(v, n) \/ FreeChunk(v, n)
  \/ GcStep
  \/ Restart

Spec == Init /\ [][Next]_vars

-----------------------------------------------------------------------------
(* Properties *)

Bytes(f) == IF file[f] = None THEN None ELSE data[file[f]]

\* An upload whose requests kept out of each other's way and of the sweep, and
\* that sent one body per part (or several, while nothing failed).
Orderly(u) == u \notin clashed /\ (u \notin rewritten.twice \/ disruptions = 0)

\* CompleteMultipartUpload: each chunk of an object of an orderly upload can
\* be read and holds the bytes its row was written for, in the file or in
\* Telegram, whatever other uploads, aborts, workers, sweeps and crashes do.
\* Only files that a startup removed for want of an answer are lost.
Intact ==
  \A r \in Live, n \in Nums :
    LET c == objects[r].chunks[n] IN
    Orderly(objects[r].upload) =>
      /\ c.state = "pending" /\ <<objects[r].upload, n>> \notin wiped =>
           Bytes(<<objects[r].upload, n>>) = c.body
      /\ c.state = "remote" => c.stored = c.body

\* UploadPart: between two requests of an orderly upload, every part row has
\* its file, with the bytes the row describes, unless a startup whose query
\* failed removed it.
PartHasFile ==
  \A u \in Uploads, n \in Nums :
    /\ Orderly(u)
    /\ parts[u][n] # None
    /\ <<u, n>> \notin wiped
    /\ ~\E r \in Requests : InFlight(r) /\ req[r].upload = u
    => Bytes(<<u, n>>) = parts[u][n]

\* A listing as S3 asks for: part numbers ascend.
Ascending(listing) == \A i, j \in DOMAIN listing : i < j => listing[i][1] < listing[j][1]

Listed(r) == {objects[r].listing[i] : i \in DOMAIN objects[r].listing}
PartsOf(r) == {n \in Nums : objects[r].chunks[n].body # None}
Recorded(r) == {<<n, objects[r].chunks[n].body>> : n \in PartsOf(r)}

\* Whatever part, complete and abort requests run between the validation of a
\* list and the transaction, the chunk rows of the object describe each part
\* the client listed, with the ETag it listed, and as many as it listed; if the
\* list ascends they describe those parts and no other.  (A list that names
\* a part twice gets in, and then an object has parts nobody listed.)
AsListed ==
  \A r \in Live :
    /\ Listed(r) \subseteq Recorded(r)
    /\ Cardinality(PartsOf(r)) = Len(objects[r].listing)
    /\ Ascending(objects[r].listing) => Recorded(r) = Listed(r)

\* A retried or repeated completion of an orderly upload makes no second
\* version, not even in an Enabled bucket.
OneObject ==
  \A q, r \in Live :
    objects[q].upload = objects[r].upload /\ Orderly(objects[r].upload) => q = r

\* The foreign key from multipart_parts to multipart_uploads: a part that is
\* saved late leaves no row behind, which would keep its file for ever.
EndedHasNoRows == \A u \in Uploads : uploads[u] # "open" => parts[u] = NoParts
=============================================================================
