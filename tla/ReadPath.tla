------------------------------ MODULE ReadPath ------------------------------
(***************************************************************************)
(* GET requests (get_object in app.rs) beside everything ObjectPipeline    *)
(* does.  A GET takes no transaction and no lock: it reads the version row, *)
(* then the chunk rows, then the spool file or the locator of each chunk,  *)
(* downloads what is remote, and reads the chunk rows again for the way    *)
(* each chunk is encrypted.  Writers, workers and the garbage collector go  *)
(* on between any two of these.                                            *)
(*                                                                         *)
(* A body is made of the files its bytes come from; encryption is off.     *)
(***************************************************************************)
EXTENDS ObjectPipeline

CONSTANT Readers

VARIABLE rd   \* GET requests

rvars == <<vars, rd>>

Reader == [pc : {"idle", "found", "reading", "loading", "ok", "failed"},
           id : Ids \cup {None}, seq : Nat, data : Requests \cup {None},
           rows : [Idx -> ChunkRow], todo : SUBSET Idx,
           remote : [Idx -> Locators \cup {None}], body : [Idx -> Paths \cup {None}],
           gone : BOOLEAN, refused : BOOLEAN]

NoPart == [c \in Idx |-> None]
ReaderAt(pc) == [pc |-> pc, id |-> None, seq |-> 0, data |-> None,
                 rows |-> [c \in Idx |-> NoChunk], todo |-> {},
                 remote |-> NoPart, body |-> NoPart, gone |-> FALSE, refused |-> FALSE]

\* Readers hold what a handler's local variables can hold.
ReaderTypeOK == rd \in [Readers -> Reader]

ReadInit == /\ Init
            /\ rd = [g \in Readers |-> ReaderAt("idle")]

ReaderBecomes(g, x) == /\ rd' = [rd EXCEPT ![g] = x]
                       /\ UNCHANGED vars

\* latest_version, or get_version_by_id for a versionId: the row of a data
\* version.  No row or a delete marker is a 404, an error a 500, and so the end.
BeginGet(g, i) ==
  /\ rd[g].pc = "idle"
  /\ objects[i].kind = "data"
  /\ ReaderBecomes(g, [ReaderAt("found") EXCEPT !.id = i, !.seq = objects[i].seq,
                                                !.data = objects[i].data])

Gone(g) == objects[rd[g].id].seq # rd[g].seq

\* Chunks are looked at in order; after the last one come the downloads.
Proceed(g, x) == ReaderBecomes(g, [x EXCEPT !.pc = IF x.todo = {} THEN "loading" ELSE "reading"])

\* collect_version_parts, its first query: chunks_of, by version id alone.
\* The loop is over the rows there are, be it none.
LoadRows(g) ==
  LET rows == chunks[rd[g].id] IN
  /\ rd[g].pc = "found"
  /\ Proceed(g, [rd[g] EXCEPT !.rows = rows, !.todo = {c \in Idx : rows[c].state # "none"}])

\* The answer, a 500 or 502: for what the GET found, or for an error of what it
\* asked.
Fails(g) == ReaderBecomes(g, ReaderAt("failed"))
Errs(g) == ReaderBecomes(g, [ReaderAt("failed") EXCEPT !.refused = TRUE])

\* Any query of its own may fail, and any file may be unreadable.
QueryErrs(g) == rd[g].pc \in {"found", "reading", "loading"} /\ Errs(g)

Looking(g, c) == rd[g].pc = "reading" /\ First(rd[g].todo, c)
InSpool(g, c) == rd[g].rows[c].path # None /\ rd[g].rows[c].path \in spool

\* The loop is done with a row when it has been looked at.
Past(g, c) == [rd[g] EXCEPT !.todo = @ \ {c}, !.rows[c] = NoChunk]

\* Mutant of ReadFile: parts are appended and not put in order.
ReadFileAppend(g) ==
  LET free == {d \in Idx : rd[g].body[d] = None} IN
  \E c \in rd[g].todo, d \in free :
    /\ Looking(g, c)
    /\ InSpool(g, c)
    /\ First(free, d)
    /\ Proceed(g, [Past(g, c) EXCEPT !.body[d] = rd[g].rows[c].path])

\* The spool file first, if the row named one and it is still there.
ReadFile(g) ==
  \E c \in rd[g].todo :
    /\ Looking(g, c)
    /\ InSpool(g, c)
    /\ Proceed(g, [Past(g, c) EXCEPT !.body[c] = rd[g].rows[c].path])

\* Else the locator of the row as it is now, if the row read before was
\* `remote`.
FindLocator(g) ==
  \E c \in rd[g].todo :
    /\ Looking(g, c)
    /\ ~InSpool(g, c)
    /\ IF rd[g].rows[c].state = "remote" /\ chunks[rd[g].id][c].loc # None
       THEN Proceed(g, [Past(g, c) EXCEPT !.remote[c] = chunks[rd[g].id][c].loc])
       ELSE Fails(g)

\* Mutant of Download: the locator is taken for the bytes.
DownloadLocator(g) ==
  LET todo == {c \in Idx : rd[g].remote[c] # None} IN
  /\ rd[g].pc = "loading"
  /\ \E c \in todo : ReaderBecomes(g, [rd[g] EXCEPT !.body[c] = rd[g].remote[c],
                                                    !.remote[c] = None])

\* download_remote_parts: one message after the other, in order, up to the first
\* that Telegram does not give, be it that the message is gone, that Telegram
\* refuses or cannot be reached, or that there is no transport to ask it by.
Download(g) ==
  LET todo == {c \in Idx : rd[g].remote[c] # None} IN
  /\ rd[g].pc = "loading"
  /\ \E c \in todo :
       /\ First(todo, c)
       /\ \/ /\ rd[g].remote[c] \in blobs
             /\ ReaderBecomes(g, [rd[g] EXCEPT !.body[c] = rd[g].remote[c][1],
                                               !.remote[c] = None])
          \/ /\ rd[g].remote[c] \notin blobs
             /\ Fails(g)
          \/ Errs(g)

\* chunks_of once more: every part needs its row.  Then the parts are what the
\* client gets with a 200, under the headers of the version found first.
Answer(g) ==
  /\ rd[g].pc = "loading"
  /\ rd[g].remote = NoPart
  /\ IF \A c \in Idx : rd[g].body[c] # None => chunks[rd[g].id][c].state # "none"
     THEN ReaderBecomes(g, [ReaderAt("ok") EXCEPT !.data = rd[g].data, !.body = rd[g].body,
                                                  !.gone = Gone(g)])
     ELSE Fails(g)

\* An answer, once given, changes no more, and is looked at before anything else
\* happens.
Answered(g) == rd[g].pc \in {"ok", "failed"}

\* The connection is ready for the next request.
NextGet(g) ==
  /\ Answered(g)
  /\ ReaderBecomes(g, ReaderAt("idle"))

ReaderStep(g) ==
  \/ LoadRows(g) \/ ReadFile(g) \/ FindLocator(g) \/ Download(g) \/ Answer(g)
  \/ QueryErrs(g)

-----------------------------------------------------------------------------
PipelineStep ==
  /\ \/ \E m \in Modes : SetVersioning(m)
     \/ \E r \in Requests : Handler(r) \/ ExpireLease(r) \/ EndBackoff(r)
     \/ \E w \in Workers : UploadWorker(w)
     \/ Gc
  /\ UNCHANGED rd

\* Readers die with the process.
RestartAll == Restart /\ rd' = [g \in Readers |-> ReaderAt("idle")]

ReadersStep == \E g \in Readers : ReaderStep(g) \/ NextGet(g) \/ (\E i \in Ids : BeginGet(g, i))

ReadNext ==
  \/ (\A g \in Readers : ~Answered(g)) /\ (PipelineStep \/ RestartAll)
  \/ ReadersStep

ReadSpec == ReadInit /\ [][ReadNext]_rvars

-----------------------------------------------------------------------------
(* Properties *)

\* get_object: a 200 carries every chunk of the write whose headers it
\* carries, whatever was uploaded, moved, freed or replaced while it was put
\* together.  If the version was dropped meanwhile it may carry nothing at all
\* (the chunk rows are gone and the loop has nothing to do), but never a part
\* of the object or bytes of another one.
WholeOrGone ==
  \A g \in Readers :
    rd[g].pc = "ok" => \/ \A c \in Idx : rd[g].body[c] = <<rd[g].data, c>>
                       \/ rd[g].gone /\ rd[g].body = NoPart

\* A GET of a version that is still there, none of whose queries and downloads
\* is refused, fails only if the chunk rows moved on since it read them (a worker
\* made a chunk remote, and its file was freed under the GET): a retry reads
\* other rows.  It never fails for want of bytes.
FailsOnlyIfOvertaken ==
  [][\A g \in Readers :
       rd[g].pc # "failed" /\ rd'[g].pc = "failed" =>
         \/ Gone(g)
         \/ \E c \in rd[g].todo : chunks[rd[g].id][c] # rd[g].rows[c]
         \/ rd'[g].refused]_rvars
=============================================================================
