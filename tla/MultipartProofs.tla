--------------------------- MODULE MultipartProofs ---------------------------
(***************************************************************************)
(* Theorems about Multipart, for every set of uploads, requests and        *)
(* bodies, every number of parts and every bound.                          *)
(***************************************************************************)
EXTENDS Multipart, FiniteSetTheorems, TLAPS

-----------------------------------------------------------------------------
(* Types *)

\* What TypeOK needs to be inductive: the fields that may be None are set in
\* the control states that use them, and a chunk row belongs to an upload.
RequestShape ==
  \A r \in Requests :
    /\ req[r].pc \in {"checked", "opened", "written", "renamed"} =>
         req[r].upload \in Uploads /\ req[r].num \in Nums /\ req[r].body \in Bodies
    /\ req[r].pc \in {"opened", "written"} => req[r].inode \in Requests
    /\ req[r].pc \in {"ready", "removing"} => req[r].upload \in Uploads
ChunkShape ==
  \A r \in Requests, n \in Nums :
    objects[r].chunks[n].path \/ objects[r].chunks[n].state # "none" =>
      objects[r].upload \in Uploads

TypeInv == TypeOK /\ RequestShape /\ ChunkShape

\* A request that a step starts afresh.
LEMMA FreshRequest ==
  ASSUME NEW pc \in {"idle", "checked", "opened", "written", "renamed", "ready",
                     "removing", "closed"},
         NEW kind \in {"part", "complete", "abort"} \cup {None},
         NEW u \in Uploads \cup {None}
  PROVE  /\ RequestAt(pc, kind, u) \in Request
         /\ RequestAt(pc, kind, u).pc = pc
         /\ RequestAt(pc, kind, u).upload = u
         /\ RequestAt(pc, kind, u).kind = kind
  BY MultipartAssumption DEF RequestAt, Request, NoParts, PartRows

LEMMA FreshClosed == Closed \in Request /\ Closed.pc = "closed"
  BY FreshRequest DEF Closed

LEMMA FreshObject == NoObject \in ObjectRow /\ NoChunk \in ChunkRow
  BY DEF NoObject, NoChunk, ObjectRow, ChunkRow

LEMMA ChunksOfType ==
  ASSUME NEW snap \in PartRows
  PROVE  /\ ChunksOf(snap) \in [Nums -> ChunkRow]
         /\ \A n \in Nums : ChunksOf(snap)[n].body = snap[n]
  BY FreshObject DEF ChunksOf, PartRows, ChunkRow, NoChunk

LEMMA RequestTurn ==
  ASSUME TypeOK, RequestShape, NEW r \in Requests, NEW x \in Request, Become(r, x),
         x.pc \in {"checked", "opened", "written", "renamed"} =>
           x.upload \in Uploads /\ x.num \in Nums /\ x.body \in Bodies,
         x.pc \in {"opened", "written"} => x.inode \in Requests,
         x.pc \in {"ready", "removing"} => x.upload \in Uploads
  PROVE  /\ DOMAIN req' = Requests /\ \A q \in Requests : req'[q] \in Request
         /\ RequestShape'
  BY DEF Become, RequestShape, TypeOK

LEMMA RequestEnds ==
  ASSUME TypeOK, RequestShape, NEW r \in Requests, Become(r, Closed)
  PROVE  /\ DOMAIN req' = Requests /\ \A q \in Requests : req'[q] \in Request
         /\ RequestShape'
  BY FreshClosed, RequestTurn

LEMMA DisruptType ==
  ASSUME TypeOK, Disrupt
  PROVE  disruptions' \in 0..MaxDisruptions
  BY MultipartAssumption DEF Disrupt, TypeOK

LEMMA RememberType ==
  ASSUME TypeOK, NEW clash \in SUBSET Uploads, NEW twice \in SUBSET Uploads,
         NEW first \in [Uploads -> [AskedNums -> Bodies \cup {None}]],
         Remember(clash, first, twice)
  PROVE  /\ clashed' \subseteq Uploads
         /\ rewritten'.first \in [Uploads -> [AskedNums -> Bodies \cup {None}]]
         /\ rewritten'.twice \subseteq Uploads
         /\ wiped' \subseteq Files
  BY DEF Remember, NothingSent, TypeOK

LEMMA NoticeType ==
  ASSUME TypeOK, NEW clash \in SUBSET Uploads, Notice(clash)
  PROVE  /\ clashed' \subseteq Uploads
         /\ rewritten'.first \in [Uploads -> [AskedNums -> Bodies \cup {None}]]
         /\ rewritten'.twice \subseteq Uploads
         /\ wiped' \subseteq Files
  BY RememberType DEF Notice, TypeOK

LEMMA ClashType ==
  ASSUME NEW r, NEW kind, NEW u \in Uploads, NEW n
  PROVE  Clash(r, kind, u, n) \in SUBSET Uploads
  BY DEF Clash

LEMMA FilesOfType ==
  ASSUME TypeInv, NEW S \in SUBSET Requests
  PROVE  FilesOf(S) \subseteq Files
  BY DEF FilesOf, Files, TypeInv, ChunkShape

LEMMA LiveType == Live \in SUBSET Requests
  BY DEF Live

LEMMA ReplacedType == TypeOK => Replaced \in SUBSET Requests
  BY LiveType DEF Replaced, TypeOK

\* The past object of the initial states.
LEMMA PastType ==
  ASSUME NEW b \in Bodies
  PROVE  /\ [n \in Nums |-> IF n = 1 THEN b ELSE None] \in PartRows
         /\ << <<1, b>> >> \in Listings
<1>1. 1 \in Nums
  BY MultipartAssumption DEF Nums
<1>2. << <<1, b>> >> \in [1..1 -> Part]
  BY <1>1 DEF Part
<1> QED
  BY <1>1, <1>2 DEF PartRows, Listings

LEMMA TypeInit == Init => TypeInv
<1> SUFFICES ASSUME NEW past \in BOOLEAN, NEW u \in Uploads, NEW r \in Requests,
                    NEW b \in Bodies, InitAfter(past, u, r, b)
             PROVE  TypeInv
  BY DEF Init
<1> DEFINE first == [n \in Nums |-> IF n = 1 THEN b ELSE None]
<1>1. first \in PartRows /\ << <<1, b>> >> \in Listings /\ NoParts \in PartRows
  BY PastType DEF NoParts, PartRows
<1>2. ChunksOf(first) \in [Nums -> ChunkRow]
  BY <1>1, ChunksOfType
<1>3. DOMAIN objects = Requests /\ \A q \in Requests : objects[q] \in ObjectRow
  <2>1. \A null \in BOOLEAN : [live |-> TRUE, null |-> null, upload |-> u, listing |-> << <<1, b>> >>,
          chunks |-> ChunksOf(first)] \in ObjectRow
    BY <1>1, <1>2 DEF ObjectRow
  <2> QED
    BY <2>1, FreshObject DEF InitAfter
<1>4. DOMAIN req = Requests /\ \A q \in Requests : req[q] \in Request /\ req[q].pc \in {"idle", "closed"}
  BY FreshClosed, FreshRequest DEF InitAfter
<1>5. /\ mode \in {"Disabled", "Enabled", "Suspended"}
      /\ uploads \in [Uploads -> {"new", "open", "ended"}]
      /\ parts \in [Uploads -> PartRows]
      /\ file \in [Files -> Requests \cup {None}]
      /\ tmp \in [Files -> Requests \cup {None}]
      /\ data \in [Requests -> Bodies \cup {None}]
  BY <1>1, MultipartAssumption DEF InitAfter
<1>6. gc \in Sweep /\ disruptions \in 0..MaxDisruptions /\ clashed \subseteq Uploads
  BY MultipartAssumption DEF InitAfter, Sweep
<1>7. /\ rewritten.first \in [Uploads -> [AskedNums -> Bodies \cup {None}]]
      /\ rewritten.twice \subseteq Uploads /\ wiped \subseteq Files
  BY DEF InitAfter
<1>8. ChunkShape
  BY DEF InitAfter, ChunkShape, NoObject, NoChunk
<1> QED
  BY <1>3, <1>4, <1>5, <1>6, <1>7, <1>8 DEF TypeInv, TypeOK, RequestShape

LEMMA BeginPartType ==
  ASSUME TypeInv, NEW r \in Requests, NEW u \in Uploads, NEW n \in AskedNums, NEW b \in Bodies,
         BeginPart(r, u, n, b)
  PROVE  TypeInv'
<1> DEFINE x == [RequestAt("checked", "part", u) EXCEPT !.num = n, !.body = b]
<1>1. x \in Request /\ x.pc = "checked" /\ x.upload = u /\ x.num = n /\ x.body = b
  BY DEF BeginPart, RequestAt, Request, NoParts, PartRows
<1>2. DOMAIN req' = Requests /\ (\A q \in Requests : req'[q] \in Request) /\ RequestShape'
  BY <1>1, RequestTurn DEF BeginPart, TypeInv
<1>3. disruptions' \in 0..MaxDisruptions
  BY DisruptType DEF BeginPart, TypeInv, TypeOK
<1>4. /\ clashed' \subseteq Uploads
      /\ rewritten'.first \in [Uploads -> [AskedNums -> Bodies \cup {None}]]
      /\ rewritten'.twice \subseteq Uploads
      /\ wiped' \subseteq Files
  <2> DEFINE first == [rewritten.first EXCEPT ![u][n] = IF @ = None THEN b ELSE @]
             twice == rewritten.twice \cup (IF rewritten.first[u][n] \in {None, b} THEN {} ELSE {u})
  <2>1. first \in [Uploads -> [AskedNums -> Bodies \cup {None}]]
    BY DEF TypeInv, TypeOK
  <2>2. twice \in SUBSET Uploads
    BY DEF TypeInv, TypeOK
  <2>3. Remember(Clash(r, "part", u, n), first, twice)
    BY DEF BeginPart, NoticeBody
  <2> HIDE DEF first, twice
  <2> QED
    BY <2>1, <2>2, <2>3, ClashType, RememberType DEF TypeInv
<1> QED
  BY <1>2, <1>3, <1>4 DEF BeginPart, TypeInv, TypeOK, ChunkShape, tables, disk

LEMMA OpenTmpType ==
  ASSUME TypeInv, NEW r \in Requests, OpenTmp(r)
  PROVE  TypeInv'
<1> DEFINE inode == IF tmp[PathOf(r)] = None THEN r ELSE tmp[PathOf(r)]
           x == [req[r] EXCEPT !.pc = "opened", !.inode = inode]
<1>1. /\ req[r] \in Request /\ req[r].upload \in Uploads /\ req[r].num \in Nums
      /\ req[r].body \in Bodies
  BY DEF OpenTmp, TypeInv, TypeOK, RequestShape
<1>2. PathOf(r) \in Files
  BY <1>1 DEF PathOf, Files
<1>3. inode \in Requests
  BY <1>2 DEF TypeInv, TypeOK
<1>4. /\ x \in Request /\ x.pc = "opened" /\ x.inode = inode
      /\ x.upload = req[r].upload /\ x.num = req[r].num /\ x.body = req[r].body
  BY <1>1, <1>3 DEF Request
<1>5. Become(r, x)
  BY DEF OpenTmp
<1>6. DOMAIN req' = Requests /\ (\A q \in Requests : req'[q] \in Request) /\ RequestShape'
  <2> HIDE DEF x
  <2> QED
    BY <1>1, <1>3, <1>4, <1>5, RequestTurn DEF TypeInv
<1>7. tmp' \in [Files -> Requests \cup {None}] /\ data' \in [Requests -> Bodies \cup {None}]
  BY <1>2, <1>3 DEF OpenTmp, TypeInv, TypeOK
<1> QED
  BY <1>6, <1>7 DEF OpenTmp, TypeInv, TypeOK, ChunkShape, tables, history

\* A part handler goes on to its next control state.
LEMMA PartTurn ==
  ASSUME TypeInv, NEW r \in Requests, req[r].pc \in {"opened", "written"},
         NEW pc \in {"written", "renamed"}, Become(r, [req[r] EXCEPT !.pc = pc])
  PROVE  /\ DOMAIN req' = Requests /\ \A q \in Requests : req'[q] \in Request
         /\ RequestShape'
<1> DEFINE x == [req[r] EXCEPT !.pc = pc]
<1>1. /\ req[r] \in Request /\ req[r].upload \in Uploads /\ req[r].num \in Nums
      /\ req[r].body \in Bodies /\ req[r].inode \in Requests
  BY DEF TypeInv, TypeOK, RequestShape
<1>2. /\ x \in Request /\ x.pc = pc /\ x.inode = req[r].inode
      /\ x.upload = req[r].upload /\ x.num = req[r].num /\ x.body = req[r].body
  BY <1>1 DEF Request
<1> HIDE DEF x
<1> QED
  BY <1>1, <1>2, RequestTurn DEF TypeInv, x

LEMMA PartStepType ==
  ASSUME TypeInv, NEW r \in Requests, PartStep(r)
  PROVE  TypeInv'
<1>1. CASE OpenTmp(r)
  BY <1>1, OpenTmpType
<1>2. CASE WriteTmp(r)
  <2>1. DOMAIN req' = Requests /\ (\A q \in Requests : req'[q] \in Request) /\ RequestShape'
    BY <1>2, PartTurn DEF WriteTmp
  <2>2. data' \in [Requests -> Bodies \cup {None}]
    BY <1>2 DEF WriteTmp, TypeInv, TypeOK, RequestShape
  <2> QED
    BY <1>2, <2>1, <2>2 DEF WriteTmp, TypeInv, TypeOK, ChunkShape, tables, history
<1>3. CASE RenameTmp(r)
  <2>1. DOMAIN req' = Requests /\ (\A q \in Requests : req'[q] \in Request) /\ RequestShape'
    <3>1. CASE Become(r, Closed)
      BY <3>1, RequestEnds DEF TypeInv
    <3>2. CASE Become(r, [req[r] EXCEPT !.pc = "renamed"])
      BY <1>3, <3>2, PartTurn DEF RenameTmp
    <3> QED
      BY <1>3, <3>1, <3>2 DEF RenameTmp
  <2>2. PathOf(r) \in Files
    BY <1>3 DEF RenameTmp, TypeInv, RequestShape, PathOf, Files
  <2>3. file' \in [Files -> Requests \cup {None}] /\ tmp' \in [Files -> Requests \cup {None}]
    BY <1>3, <2>2 DEF RenameTmp, TypeInv, TypeOK
  <2> QED
    BY <1>3, <2>1, <2>3 DEF RenameTmp, TypeInv, TypeOK, ChunkShape, tables, history
<1>4. CASE SavePart(r)
  <2>1. DOMAIN req' = Requests /\ (\A q \in Requests : req'[q] \in Request) /\ RequestShape'
    BY <1>4, RequestEnds DEF SavePart, TypeInv
  <2>2. parts' \in [Uploads -> PartRows]
    BY <1>4 DEF SavePart, TypeInv, TypeOK, RequestShape, PartRows
  <2> QED
    BY <1>4, <2>1, <2>2 DEF SavePart, TypeInv, TypeOK, ChunkShape, disk, history
<1> QED
  BY <1>1, <1>2, <1>3, <1>4 DEF PartStep

LEMMA BeginEndType ==
  ASSUME TypeInv, NEW r \in Requests, NEW u \in Uploads, BeginComplete(r, u) \/ BeginAbort(r, u)
  PROVE  TypeInv'
<1>1. parts[u] \in PartRows
  BY DEF TypeInv, TypeOK
<1>2. DOMAIN req' = Requests /\ (\A q \in Requests : req'[q] \in Request) /\ RequestShape'
  <2>1. CASE BeginComplete(r, u)
    <3> PICK listing \in Listings :
               Become(r, [RequestAt("ready", "complete", u) EXCEPT !.listing = listing,
                                                                   !.snap = parts[u]])
      BY <2>1 DEF BeginComplete
    <3> DEFINE x == [RequestAt("ready", "complete", u) EXCEPT !.listing = listing,
                                                              !.snap = parts[u]]
    <3>1. x \in Request /\ x.pc = "ready" /\ x.upload = u
      BY <1>1 DEF RequestAt, Request
    <3> QED
      BY <3>1, RequestTurn DEF TypeInv
  <2>2. CASE BeginAbort(r, u)
    <3> DEFINE x == [RequestAt("ready", "abort", u) EXCEPT !.snap = parts[u]]
    <3>1. x \in Request /\ x.pc = "ready" /\ x.upload = u
      BY <1>1 DEF RequestAt, Request
    <3> QED
      BY <2>2, <3>1, RequestTurn DEF BeginAbort, TypeInv
  <2> QED
    BY <2>1, <2>2
<1>3. /\ clashed' \subseteq Uploads
      /\ rewritten'.first \in [Uploads -> [AskedNums -> Bodies \cup {None}]]
      /\ rewritten'.twice \subseteq Uploads
      /\ wiped' \subseteq Files
  BY ClashType, NoticeType DEF BeginComplete, BeginAbort, TypeInv
<1> QED
  BY <1>2, <1>3 DEF BeginComplete, BeginAbort, TypeInv, TypeOK, ChunkShape, tables, disk

\* The object a completion makes.
Made(r) == [live |-> TRUE, null |-> mode = "Suspended", upload |-> req[r].upload,
            listing |-> req[r].listing, chunks |-> ChunksOf(req[r].snap)]

LEMMA CommittedObjects ==
  ASSUME TypeInv, NEW r \in Requests, CommitComplete(r)
  PROVE  /\ DOMAIN objects' = Requests
         /\ objects'[r] = Made(r)
         /\ Made(r) \in ObjectRow
         /\ req[r].upload \in Uploads
         /\ \A q \in Requests \ {r} : objects'[q] \in {NoObject, objects[q]}
<1>1. req[r] \in Request /\ req[r].upload \in Uploads
  BY DEF CommitComplete, TypeInv, TypeOK, RequestShape
<1>2. Made(r) \in ObjectRow
  <2>1. ChunksOf(req[r].snap) \in [Nums -> ChunkRow]
    BY <1>1, ChunksOfType DEF Request
  <2> QED
    BY <1>1, <2>1 DEF Made, ObjectRow, Request
<1> QED
  BY <1>1, <1>2 DEF CommitComplete, Made

LEMMA EndStepType ==
  ASSUME TypeInv, NEW r \in Requests, EndStep(r)
  PROVE  TypeInv'
<1> USE DEF TypeInv
<1>1. CASE CommitComplete(r)
  <2> DEFINE x == [RequestAt("removing", "complete", req[r].upload) EXCEPT !.rm = FilesOf(Replaced)]
  <2>1. req[r].upload \in Uploads
    BY <1>1, CommittedObjects
  <2>2. x \in Request /\ x.pc = "removing" /\ x.upload = req[r].upload
    BY <2>1, FilesOfType, ReplacedType DEF RequestAt, Request, NoParts, PartRows
  <2>3. Become(r, x)
    BY <1>1 DEF CommitComplete
  <2>4. DOMAIN req' = Requests /\ (\A q \in Requests : req'[q] \in Request) /\ RequestShape'
    <3> HIDE DEF x
    <3> QED
      BY <2>1, <2>2, <2>3, RequestTurn
  <2>5. DOMAIN objects' = Requests /\ \A q \in Requests : objects'[q] \in ObjectRow
    BY <1>1, CommittedObjects, FreshObject DEF TypeOK
  <2>6. ChunkShape'
    <3> SUFFICES ASSUME NEW q \in Requests, NEW n \in Nums,
                        objects'[q].chunks[n].path \/ objects'[q].chunks[n].state # "none"
                 PROVE  objects'[q].upload \in Uploads
      BY DEF ChunkShape
    <3>1. CASE q = r
      <4>1. objects'[r] = Made(r) /\ req[r].upload \in Uploads
        BY <1>1, CommittedObjects
      <4>2. Made(r).upload = req[r].upload
        BY DEF Made
      <4> QED
        BY <3>1, <4>1, <4>2
    <3>2. CASE q # r
      <4>1. objects'[q] \in {NoObject, objects[q]}
        BY <1>1, <3>2, CommittedObjects
      <4>2. ~NoObject.chunks[n].path /\ NoObject.chunks[n].state = "none"
        BY DEF NoObject, NoChunk
      <4>3. objects'[q] # NoObject
        BY <4>2
      <4>4. objects'[q] = objects[q]
        BY <4>1, <4>3
      <4>5. objects[q].chunks[n].path \/ objects[q].chunks[n].state # "none"
        BY <4>4
      <4> QED
        BY <4>4, <4>5 DEF ChunkShape
    <3> QED
      BY <3>1, <3>2
  <2>7. uploads' \in [Uploads -> {"new", "open", "ended"}] /\ parts' \in [Uploads -> PartRows]
    BY <1>1, <2>1 DEF CommitComplete, TypeOK, NoParts, PartRows
  <2> QED
    BY <1>1, <2>4, <2>5, <2>6, <2>7 DEF CommitComplete, TypeOK, disk, history
<1>2. CASE CommitAbort(r)
  <2> DEFINE rm == {<<req[r].upload, n>> : n \in {m \in Nums : req[r].snap[m] # None}}
             x == [RequestAt("removing", "abort", req[r].upload) EXCEPT !.rm = rm]
  <2>1. req[r].upload \in Uploads
    BY <1>2 DEF CommitAbort, RequestShape
  <2>2. x \in Request /\ x.pc = "removing" /\ x.upload = req[r].upload
    <3>1. rm \in SUBSET Files
      BY <2>1 DEF Files
    <3> HIDE DEF rm
    <3> QED
      BY <2>1, <3>1 DEF RequestAt, Request, NoParts, PartRows
  <2>3. Become(r, x)
    BY <1>2 DEF CommitAbort
  <2>4. DOMAIN req' = Requests /\ (\A q \in Requests : req'[q] \in Request) /\ RequestShape'
    <3> HIDE DEF x
    <3> QED
      BY <2>1, <2>2, <2>3, RequestTurn
  <2>5. uploads' \in [Uploads -> {"new", "open", "ended"}] /\ parts' \in [Uploads -> PartRows]
    BY <1>2, <2>1 DEF CommitAbort, TypeOK, NoParts, PartRows
  <2> QED
    BY <1>2, <2>4, <2>5 DEF CommitAbort, TypeOK, ChunkShape, disk, history
<1>3. CASE RemoveFile(r)
  <2> PICK f \in req[r].rm : /\ file' = [file EXCEPT ![f] = None]
                             /\ Become(r, [req[r] EXCEPT !.rm = @ \ {f}])
    BY <1>3 DEF RemoveFile
  <2> DEFINE x == [req[r] EXCEPT !.rm = @ \ {f}]
  <2>1. /\ req[r] \in Request /\ req[r].upload \in Uploads /\ req[r].pc = "removing"
        /\ f \in Files
    BY <1>3 DEF RemoveFile, TypeOK, RequestShape, Request
  <2>2. x \in Request /\ x.pc = "removing" /\ x.upload = req[r].upload
    BY <2>1 DEF Request
  <2>3. DOMAIN req' = Requests /\ (\A q \in Requests : req'[q] \in Request) /\ RequestShape'
    <3> HIDE DEF x
    <3> QED
      BY <2>1, <2>2, RequestTurn DEF x
  <2>4. file' \in [Files -> Requests \cup {None}]
    BY <2>1 DEF TypeOK
  <2> QED
    BY <1>3, <2>3, <2>4 DEF RemoveFile, TypeOK, ChunkShape, tables, history
<1>4. CASE Respond(r)
  <2>1. DOMAIN req' = Requests /\ (\A q \in Requests : req'[q] \in Request) /\ RequestShape'
    BY <1>4, RequestEnds DEF Respond
  <2> QED
    BY <1>4, <2>1 DEF Respond, TypeOK, ChunkShape, tables, disk, history
<1> QED
  BY <1>1, <1>2, <1>3, <1>4 DEF EndStep

LEMMA ChunkTurn ==
  ASSUME TypeInv, NEW v \in Requests, NEW n \in Nums, NEW c \in ChunkRow,
         objects[v].upload \in Uploads, ChunkBecomes(v, n, c)
  PROVE  /\ DOMAIN objects' = Requests
         /\ \A q \in Requests : objects'[q] \in ObjectRow
         /\ objects'[v].chunks[n] = c
         /\ \A q \in Requests : /\ objects'[q].upload = objects[q].upload
                                /\ objects'[q].live = objects[q].live
                                /\ objects'[q].listing = objects[q].listing
         /\ \A q \in Requests, m \in Nums :
              q # v \/ m # n => objects'[q].chunks[m] = objects[q].chunks[m]
         /\ ChunkShape'
<1>1. objects[v] \in ObjectRow /\ objects[v].chunks \in [Nums -> ChunkRow]
  BY DEF TypeInv, TypeOK, ObjectRow
<1>2. objects'[v] = [objects[v] EXCEPT !.chunks = [objects[v].chunks EXCEPT ![n] = c]]
  BY DEF ChunkBecomes, TypeInv, TypeOK
<1>3. DOMAIN objects' = Requests /\ \A q \in Requests \ {v} : objects'[q] = objects[q]
  BY DEF ChunkBecomes, TypeInv, TypeOK
<1>4. /\ objects'[v] \in ObjectRow
      /\ objects'[v].upload = objects[v].upload
      /\ objects'[v].live = objects[v].live
      /\ objects'[v].listing = objects[v].listing
      /\ objects'[v].chunks[n] = c
      /\ \A m \in Nums \ {n} : objects'[v].chunks[m] = objects[v].chunks[m]
  BY <1>1, <1>2 DEF ObjectRow
<1> QED
  BY <1>3, <1>4 DEF ChunkShape, TypeInv, TypeOK

\* What a worker makes of a chunk row.
Sent(v, n) == [objects[v].chunks[n] EXCEPT !.state = "remote",
                                           !.stored = data[file[<<objects[v].upload, n>>]]]
Freed(v, n) == [objects[v].chunks[n] EXCEPT !.path = FALSE]

LEMMA WorkerRow ==
  ASSUME TypeInv, NEW v \in Requests, NEW n \in Nums, StoreChunk(v, n) \/ FreeChunk(v, n)
  PROVE  /\ objects[v].upload \in Uploads
         /\ <<objects[v].upload, n>> \in Files
         /\ objects[v].chunks[n] \in ChunkRow
         /\ StoreChunk(v, n) => Sent(v, n) \in ChunkRow
         /\ FreeChunk(v, n) => Freed(v, n) \in ChunkRow
<1>1. objects[v].upload \in Uploads /\ <<objects[v].upload, n>> \in Files
  BY DEF StoreChunk, FreeChunk, ChunkShape, Files, TypeInv
<1>2. objects[v].chunks[n] \in ChunkRow
  BY DEF TypeInv, TypeOK, ObjectRow
<1>3. StoreChunk(v, n) => data[file[<<objects[v].upload, n>>]] \in Bodies \cup {None}
  BY <1>1 DEF StoreChunk, TypeInv, TypeOK
<1> QED
  BY <1>1, <1>2, <1>3 DEF ChunkRow, Sent, Freed

LEMMA WorkerType ==
  ASSUME TypeInv, NEW v \in Requests, NEW n \in Nums, StoreChunk(v, n) \/ FreeChunk(v, n)
  PROVE  TypeInv'
<1>1. \E c \in ChunkRow : ChunkBecomes(v, n, c)
  BY WorkerRow DEF StoreChunk, FreeChunk, Sent, Freed
<1>2. /\ DOMAIN objects' = Requests /\ \A q \in Requests : objects'[q] \in ObjectRow
      /\ ChunkShape'
  BY <1>1, ChunkTurn, WorkerRow
<1>3. file' \in [Files -> Requests \cup {None}]
  BY DEF StoreChunk, FreeChunk, TypeInv, TypeOK, disk
<1> QED
  BY <1>2, <1>3 DEF StoreChunk, FreeChunk, TypeInv, TypeOK, RequestShape, disk, history

LEMMA GcType ==
  ASSUME TypeInv, GcStep
  PROVE  TypeInv'
<1> USE DEF TypeInv
<1>1. gc' \in Sweep
  BY FilesOfType, LiveType DEF GcStep, ReadChunkPaths, ReadPartPaths, ListFiles, SweepFile,
     SweepGoesOn, SweepBecomes, Sweep, TypeOK, PartFiles
<1>2. file' \in [Files -> Requests \cup {None}]
  BY DEF GcStep, ReadChunkPaths, ReadPartPaths, ListFiles, SweepFile, TypeOK, disk
<1>3. /\ clashed' \subseteq Uploads
      /\ rewritten'.first \in [Uploads -> [AskedNums -> Bodies \cup {None}]]
      /\ rewritten'.twice \subseteq Uploads
      /\ wiped' \subseteq Files
  <2>1. CASE ReadChunkPaths
    <3>1. {req[r].upload : r \in {q \in Requests : InFlight(q)}} \in SUBSET Uploads
      BY DEF InFlight, RequestShape, Request, TypeOK
    <3> QED
      BY <2>1, <3>1, NoticeType DEF ReadChunkPaths
  <2>2. CASE ~ReadChunkPaths
    BY <2>2 DEF GcStep, ReadPartPaths, ListFiles, SweepFile, TypeOK, history
  <2> QED
    BY <2>1, <2>2
<1> QED
  BY <1>1, <1>2, <1>3
     DEF GcStep, ReadChunkPaths, ReadPartPaths, ListFiles, SweepFile, TypeOK,
         RequestShape, ChunkShape, tables, disk, history

LEMMA RestartType ==
  ASSUME TypeInv, Restart
  PROVE  TypeInv'
<1> USE DEF TypeInv
<1>1. disruptions' \in 0..MaxDisruptions
  BY DisruptType DEF Restart
<1>2. /\ DOMAIN req' = Requests /\ \A q \in Requests : req'[q] \in Request
      /\ RequestShape'
  BY FreshClosed DEF Restart, TypeOK, RequestShape
<1>3. gc' \in Sweep
  BY DEF Restart, SweepBecomes, Sweep
<1>4. wiped' \subseteq Files /\ file' \in [Files -> Requests \cup {None}]
  BY DEF Restart, TypeOK
<1> QED
  BY <1>1, <1>2, <1>3, <1>4 DEF Restart, TypeOK, ChunkShape, tables

LEMMA TypeStep == TypeInv /\ [Next]_vars => TypeInv'
<1> SUFFICES ASSUME TypeInv, [Next]_vars PROVE TypeInv'
  OBVIOUS
<1>1. ASSUME NEW u \in Uploads, Initiate(u) PROVE TypeInv'
  BY <1>1 DEF Initiate, TypeInv, TypeOK, RequestShape, ChunkShape, disk, history
<1>2. ASSUME NEW r \in Requests, DropRequest(r) PROVE TypeInv'
  <2>1. DOMAIN req' = Requests /\ (\A q \in Requests : req'[q] \in Request) /\ RequestShape'
    BY <1>2, RequestEnds DEF DropRequest, TypeInv
  <2>2. disruptions' \in 0..MaxDisruptions
    BY <1>2, DisruptType DEF DropRequest, TypeInv
  <2> QED
    BY <1>2, <2>1, <2>2 DEF DropRequest, TypeInv, TypeOK, ChunkShape, tables, disk, history
<1>3. CASE UNCHANGED vars
  BY <1>3 DEF vars, TypeInv, TypeOK, RequestShape, ChunkShape, tables, disk, history
<1> QED
  BY <1>1, <1>2, <1>3, BeginPartType, BeginEndType, PartStepType, EndStepType, WorkerType,
     GcType, RestartType DEF Next

\* Every reachable state is one of TypeInv's.
THEOREM TypeInvariant == Spec => []TypeInv
  BY TypeInit, TypeStep, PTL DEF Spec

\* Type correctness of uploads, parts, objects, files and handlers, whatever
\* requests overlap and whatever fails.
THEOREM TypeCorrect == Spec => []TypeOK
<1>1. TypeInv => TypeOK
  BY DEF TypeInv
<1> QED
  BY <1>1, TypeInvariant, PTL

-----------------------------------------------------------------------------
(* The foreign key from part rows to uploads *)

LEMMA EndedInit == Init => EndedHasNoRows
  BY DEF Init, InitAfter, EndedHasNoRows

LEMMA EndedStep == TypeInv /\ EndedHasNoRows /\ [Next]_vars => EndedHasNoRows'
<1> SUFFICES ASSUME TypeInv, EndedHasNoRows, [Next]_vars PROVE EndedHasNoRows'
  OBVIOUS
<1>1. ASSUME NEW u \in Uploads, Initiate(u) PROVE EndedHasNoRows'
  BY <1>1 DEF Initiate, EndedHasNoRows, TypeInv, TypeOK
<1>2. ASSUME NEW r \in Requests, SavePart(r) PROVE EndedHasNoRows'
  BY <1>2 DEF SavePart, EndedHasNoRows, TypeInv, TypeOK, RequestShape
<1>3. ASSUME NEW r \in Requests, CommitComplete(r) \/ CommitAbort(r) PROVE EndedHasNoRows'
  BY <1>3 DEF CommitComplete, CommitAbort, EndedHasNoRows, TypeInv, TypeOK
<1>4. CASE UNCHANGED <<uploads, parts>>
  BY <1>4 DEF EndedHasNoRows
<1> QED
  BY <1>1, <1>2, <1>3, <1>4
     DEF Next, BeginPart, BeginComplete, BeginAbort, PartStep, OpenTmp, WriteTmp, RenameTmp,
         EndStep, RemoveFile, Respond, DropRequest, StoreChunk, FreeChunk, GcStep,
         ReadChunkPaths, ReadPartPaths, ListFiles, SweepFile, Restart, vars, tables

\* However late a part is saved, its row does not outlive the upload's: only
\* the foreign key that SavePart runs into makes it so.
THEOREM EndedUploadsHaveNoRows == Spec => []EndedHasNoRows
  BY EndedInit, EndedStep, TypeInvariant, PTL DEF Spec

-----------------------------------------------------------------------------
(* What is committed is what was listed *)

Contents(r) == [n \in Nums |-> objects[r].chunks[n].body]

\* The client's list was validated against the rows that were read with it, and
\* those rows are what an object is made of.
ListingInv ==
  \A r \in Requests :
    /\ req[r].pc = "ready" /\ req[r].kind = "complete" =>
         req[r].listing \in Listings /\ Validates(req[r].listing, req[r].snap)
    /\ objects[r].live =>
         objects[r].listing \in Listings /\ Validates(objects[r].listing, Contents(r))

LEMMA ListingInit == Init => ListingInv
<1> SUFFICES ASSUME NEW past \in BOOLEAN, NEW u \in Uploads, NEW r \in Requests,
                    NEW b \in Bodies, InitAfter(past, u, r, b)
             PROVE  ListingInv
  BY DEF Init
<1> DEFINE first == [n \in Nums |-> IF n = 1 THEN b ELSE None]
           listing == << <<1, b>> >>
<1>1. first \in PartRows /\ listing \in Listings
  BY PastType
<1>2. {n \in Nums : first[n] # None} = {1}
  BY MultipartAssumption DEF Nums
<1>3. Validates(listing, first)
  <2>1. Cardinality({n \in Nums : first[n] # None}) = 1
    BY <1>2, FS_Singleton
  <2>2. Len(listing) = 1 /\ DOMAIN listing = 1..1 /\ listing[1] = <<1, b>> /\ first[1] = b
    BY MultipartAssumption DEF Nums
  <2> QED
    BY <2>1, <2>2 DEF Validates
<1>4. \A n \in Nums : ChunksOf(first)[n].body = first[n]
  BY <1>1, ChunksOfType
<1>5. ASSUME NEW q \in Requests, objects[q].live
      PROVE  objects[q].listing = listing /\ Contents(q) = first
  <2>1. objects[q].chunks = ChunksOf(first) /\ objects[q].listing = listing
    BY <1>5 DEF InitAfter, NoObject
  <2> QED
    BY <1>4, <2>1 DEF Contents
<1>6. \A q \in Requests : req[q].pc # "ready"
  BY FreshClosed, FreshRequest DEF InitAfter
<1> HIDE DEF listing, first
<1> QED
  BY <1>1, <1>3, <1>5, <1>6 DEF ListingInv

\* A step that leaves objects alone and gets no completion ready.
LEMMA ListingKept ==
  ASSUME TypeInv, ListingInv, UNCHANGED objects,
         \A r \in Requests : req'[r] = req[r] \/ req'[r].pc # "ready" \/ req'[r].kind # "complete"
  PROVE  ListingInv'
  BY DEF ListingInv, Contents

LEMMA ListingStep == TypeInv /\ ListingInv /\ [Next]_vars => ListingInv'
<1> SUFFICES ASSUME TypeInv, ListingInv, [Next]_vars PROVE ListingInv'
  OBVIOUS
<1>1. ASSUME NEW r \in Requests, NEW u \in Uploads, BeginComplete(r, u) PROVE ListingInv'
  <2> PICK listing \in Listings :
        /\ Validates(listing, parts[u])
        /\ Become(r, [RequestAt("ready", "complete", u) EXCEPT !.listing = listing,
                                                               !.snap = parts[u]])
    BY <1>1 DEF BeginComplete
  <2>1. req'[r].listing = listing /\ req'[r].snap = parts[u]
    BY DEF Become, RequestAt, TypeInv, TypeOK
  <2>2. \A q \in Requests \ {r} : req'[q] = req[q]
    BY DEF Become, TypeInv, TypeOK
  <2>3. UNCHANGED objects
    BY <1>1 DEF BeginComplete, tables
  <2> QED
    BY <2>1, <2>2, <2>3 DEF ListingInv, Contents
<1>2. ASSUME NEW r \in Requests, CommitComplete(r) PROVE ListingInv'
  <2>1. /\ objects'[r] = Made(r)
        /\ \A q \in Requests \ {r} : objects'[q] \in {NoObject, objects[q]}
    BY <1>2, CommittedObjects
  <2>2. /\ req'[r].pc = "removing"
        /\ \A q \in Requests \ {r} : req'[q] = req[q]
    BY <1>2 DEF CommitComplete, Become, RequestAt, TypeInv, TypeOK
  <2>3. /\ objects'[r].listing = req[r].listing
        /\ objects'[r].chunks = ChunksOf(req[r].snap)
    BY <2>1 DEF Made
  <2>4. req[r].snap \in PartRows
    BY DEF TypeInv, TypeOK, Request
  <2>5. Contents(r)' = req[r].snap
    BY <2>3, <2>4, ChunksOfType DEF Contents, PartRows
  <2>6. req[r].listing \in Listings /\ Validates(req[r].listing, req[r].snap)
    BY <1>2 DEF CommitComplete, ListingInv
  <2>7. ASSUME NEW q \in Requests \ {r}, objects'[q].live
        PROVE  objects'[q] = objects[q] /\ Contents(q)' = Contents(q)
    <3>1. ~NoObject.live
      BY DEF NoObject
    <3>2. objects'[q] = objects[q]
      BY <2>1, <2>7, <3>1
    <3> QED
      BY <3>2 DEF Contents
  <2> QED
    BY <2>2, <2>3, <2>5, <2>6, <2>7 DEF ListingInv
<1>3. ASSUME NEW v \in Requests, NEW n \in Nums, StoreChunk(v, n) \/ FreeChunk(v, n)
      PROVE  ListingInv'
  <2>1. \E c \in ChunkRow : c.body = objects[v].chunks[n].body /\ ChunkBecomes(v, n, c)
    BY <1>3, WorkerRow DEF StoreChunk, FreeChunk, Sent, Freed, ChunkRow
  <2> PICK c \in ChunkRow : c.body = objects[v].chunks[n].body /\ ChunkBecomes(v, n, c)
    BY <2>1
  <2>2. \A q \in Requests : /\ objects'[q].live = objects[q].live
                            /\ objects'[q].listing = objects[q].listing
    BY <1>3, ChunkTurn, WorkerRow
  <2>3. \A q \in Requests, m \in Nums : objects'[q].chunks[m].body = objects[q].chunks[m].body
    <3>1. objects'[v].chunks[n] = c
      BY <1>3, ChunkTurn, WorkerRow
    <3>2. \A q \in Requests, m \in Nums :
            q # v \/ m # n => objects'[q].chunks[m] = objects[q].chunks[m]
      BY <1>3, ChunkTurn, WorkerRow
    <3> QED
      BY <3>1, <3>2
  <2>4. \A q \in Requests : Contents(q)' = Contents(q)
    BY <2>3 DEF Contents
  <2>5. UNCHANGED req
    BY <1>3 DEF StoreChunk, FreeChunk
  <2> QED
    BY <2>2, <2>4, <2>5 DEF ListingInv
<1>4. ASSUME NEW r \in Requests, NEW u \in Uploads, BeginAbort(r, u) PROVE ListingInv'
  <2>1. \A q \in Requests : req'[q] = req[q] \/ req'[q].kind = "abort"
    BY <1>4 DEF BeginAbort, Become, RequestAt, TypeInv, TypeOK
  <2>2. UNCHANGED objects
    BY <1>4 DEF BeginAbort, tables
  <2> QED
    BY <2>1, <2>2, ListingKept
<1>5. ASSUME NEW r \in Requests, NEW u \in Uploads, NEW n \in AskedNums, NEW b \in Bodies,
             BeginPart(r, u, n, b)
      PROVE  ListingInv'
  <2>1. \A q \in Requests : req'[q] = req[q] \/ req'[q].pc = "checked"
    BY <1>5 DEF BeginPart, Become, RequestAt, TypeInv, TypeOK
  <2>2. UNCHANGED objects
    BY <1>5 DEF BeginPart, tables
  <2> QED
    BY <2>1, <2>2, ListingKept
<1>6. ASSUME NEW r \in Requests,
             PartStep(r) \/ CommitAbort(r) \/ RemoveFile(r) \/ Respond(r) \/ DropRequest(r)
      PROVE  ListingInv'
  <2>1. \A q \in Requests : req'[q] = req[q] \/ req'[q].pc # "ready"
    <3>1. CASE OpenTmp(r) \/ WriteTmp(r) \/ RenameTmp(r)
      <4>1. \/ \E i : Become(r, [req[r] EXCEPT !.pc = "opened", !.inode = i])
            \/ \E pc \in {"written", "renamed"} : Become(r, [req[r] EXCEPT !.pc = pc])
            \/ Become(r, Closed)
        BY <3>1 DEF OpenTmp, WriteTmp, RenameTmp
      <4>2. ASSUME NEW i, Become(r, [req[r] EXCEPT !.pc = "opened", !.inode = i])
            PROVE  req'[r].pc = "opened"
        BY <4>2 DEF Become, TypeInv, TypeOK, Request
      <4>3. ASSUME NEW pc \in {"written", "renamed"}, Become(r, [req[r] EXCEPT !.pc = pc])
            PROVE  req'[r].pc = pc
        BY <4>3 DEF Become, TypeInv, TypeOK, Request
      <4>4. Become(r, Closed) => req'[r].pc = "closed"
        BY FreshClosed DEF Become, TypeInv, TypeOK
      <4>5. req'[r].pc # "ready"
        BY <4>1, <4>2, <4>3, <4>4
      <4>6. \A q \in Requests \ {r} : req'[q] = req[q]
        BY <4>1 DEF Become, TypeInv, TypeOK
      <4> QED
        BY <4>5, <4>6
    <3>3. CASE RemoveFile(r)
      <4>1. req[r].pc = "removing" /\ \E f : Become(r, [req[r] EXCEPT !.rm = @ \ {f}])
        BY <3>3 DEF RemoveFile
      <4> QED
        BY <4>1 DEF Become, TypeInv, TypeOK, Request
    <3>2. CASE SavePart(r) \/ CommitAbort(r) \/ Respond(r) \/ DropRequest(r)
      BY <3>2, FreshClosed
         DEF SavePart, CommitAbort, Respond, DropRequest, Become, RequestAt, TypeInv, TypeOK
    <3> QED
      BY <1>6, <3>1, <3>2, <3>3 DEF PartStep
  <2>2. UNCHANGED objects
    BY <1>6 DEF PartStep, OpenTmp, WriteTmp, RenameTmp, SavePart, CommitAbort, RemoveFile,
                Respond, DropRequest, tables
  <2> QED
    BY <2>1, <2>2, ListingKept
<1>7. CASE Restart
  <2>1. \A q \in Requests : req'[q] = req[q] \/ req'[q].pc # "ready"
    BY <1>7, FreshClosed DEF Restart
  <2> QED
    BY <1>7, <2>1, ListingKept DEF Restart, tables
<1>8. CASE UNCHANGED <<objects, req>>
  BY <1>8, ListingKept
<1> QED
  BY <1>1, <1>2, <1>3, <1>4, <1>5, <1>6, <1>7, <1>8
     DEF Next, Initiate, EndStep, GcStep, ReadChunkPaths, ReadPartPaths, ListFiles, SweepFile,
         vars, tables

\* An ascending list that is as long as there are rows, and names only rows that
\* are there, names them all: the argument behind the length check.
LEMMA AscendingListsAll ==
  ASSUME NEW listing \in Listings, NEW rows \in PartRows,
         Validates(listing, rows), Ascending(listing)
  PROVE  {<<n, rows[n]>> : n \in {m \in Nums : rows[m] # None}}
           = {listing[i] : i \in DOMAIN listing}
<1> DEFINE I == DOMAIN listing
           S == {m \in Nums : rows[m] # None}
           f == [i \in I |-> listing[i][1]]
           T == {f[i] : i \in I}
<1>1. PICK k \in Nums : listing \in [1..k -> Part]
  BY DEF Listings
<1>2. k \in Nat /\ I = 1..k /\ Len(listing) = k /\ I \subseteq Nat
  BY <1>1 DEF Nums
<1>3. \A i \in I : /\ listing[i] = <<f[i], rows[f[i]]>>
                   /\ f[i] \in S
  <2> SUFFICES ASSUME NEW i \in I
               PROVE  listing[i] = <<f[i], rows[f[i]]>> /\ f[i] \in S
    OBVIOUS
  <2>1. listing[i] \in Part
    BY <1>1, <1>2
  <2>2. listing[i] = <<listing[i][1], listing[i][2]>> /\ listing[i][1] \in Nums /\ listing[i][2] \in Bodies
    BY <2>1 DEF Part
  <2>3. rows[listing[i][1]] = listing[i][2]
    BY DEF Validates
  <2> QED
    BY <2>2, <2>3, MultipartAssumption
<1>4. IsFiniteSet(I) /\ Cardinality(I) = k
  BY <1>2, FS_Interval
<1>5. f \in Injection(I, T)
  <2>1. \A i, j \in I : f[i] = f[j] => i = j
    <3> SUFFICES ASSUME NEW i \in I, NEW j \in I, i < j PROVE f[i] # f[j]
      BY <1>2
    <3>1. listing[i][1] < listing[j][1]
      BY DEF Ascending
    <3>2. f[i] \in Nat /\ f[j] \in Nat
      BY <1>3 DEF Nums
    <3> QED
      BY <3>1, <3>2
  <2> QED
    BY <2>1 DEF Injection, IsInjective
<1>6. f \in Surjection(I, T)
  BY DEF Surjection
<1>7. IsFiniteSet(T) /\ Cardinality(T) = k
  BY <1>4, <1>5, <1>6, FS_Surjection
<1>8. IsFiniteSet(S)
  <2>1. IsFiniteSet(Nums)
    BY MultipartAssumption, FS_Interval DEF Nums
  <2> QED
    BY <2>1, FS_Subset
<1>9. T = S
  <2>1. T \in SUBSET S
    BY <1>3
  <2>2. Cardinality(S) = k
    BY <1>2 DEF Validates
  <2> HIDE DEF T, S
  <2> QED
    BY <1>7, <1>8, <2>1, <2>2, FS_Subset
<1>10. {<<n, rows[n]>> : n \in T} = {listing[i] : i \in I}
  BY <1>3
<1> QED
  BY <1>9, <1>10

\* CompleteMultipartUpload commits what it validated, for every list a client
\* may send, with parts, completions and aborts in between.
THEOREM ObjectsAreAsListed == Spec => []AsListed
<1>1. TypeInv /\ ListingInv => AsListed
  <2> SUFFICES ASSUME TypeInv, ListingInv, NEW r \in Live
               PROVE  /\ Listed(r) \subseteq Recorded(r)
                      /\ Cardinality(PartsOf(r)) = Len(objects[r].listing)
                      /\ Ascending(objects[r].listing) => Recorded(r) = Listed(r)
    BY DEF AsListed
  <2>1. r \in Requests /\ objects[r].listing \in Listings
        /\ Validates(objects[r].listing, Contents(r))
    BY DEF Live, ListingInv
  <2>2. Contents(r) \in PartRows
    BY <2>1 DEF Contents, PartRows, TypeInv, TypeOK, ObjectRow, ChunkRow
  <2>3. \A n \in Nums : Contents(r)[n] = objects[r].chunks[n].body
    BY DEF Contents
  <2>4. /\ PartsOf(r) = {m \in Nums : Contents(r)[m] # None}
        /\ Recorded(r) = {<<n, Contents(r)[n]>> : n \in {m \in Nums : Contents(r)[m] # None}}
    BY <2>3 DEF Recorded, PartsOf
  <2>5. Listed(r) \subseteq Recorded(r)
    <3> SUFFICES ASSUME NEW i \in DOMAIN objects[r].listing
                 PROVE  objects[r].listing[i] \in Recorded(r)
      BY DEF Listed
    <3> DEFINE l == objects[r].listing[i]
    <3>1. l \in Nums \X Bodies
      BY <2>1 DEF Listings, Part
    <3>2. Contents(r)[l[1]] = l[2]
      BY <2>1 DEF Validates
    <3>3. l = <<l[1], l[2]>> /\ l[1] \in Nums /\ l[2] # None
      BY <3>1, MultipartAssumption
    <3> QED
      BY <2>4, <3>2, <3>3
  <2>6. Cardinality(PartsOf(r)) = Len(objects[r].listing)
    BY <2>1, <2>4 DEF Validates
  <2>7. ASSUME Ascending(objects[r].listing)
        PROVE  Recorded(r) = Listed(r)
    BY <2>1, <2>2, <2>4, <2>7, AscendingListsAll DEF Listed
  <2> QED
    BY <2>5, <2>6, <2>7
<1> QED
  BY <1>1, ListingInit, ListingStep, TypeInvariant, PTL DEF Spec

-----------------------------------------------------------------------------
(* Requests of one upload that keep out of each other's way *)

\* Requests of an upload that has not clashed run one at a time, but for parts
\* of different numbers, and not beside a sweep.
Parting(r) == req[r].pc \in {"checked", "opened", "written", "renamed"}
KindInv == \A r \in Requests : InFlight(r) => (req[r].kind = "part" <=> Parting(r))
Alone ==
  \A q, r \in Requests :
    q # r /\ InFlight(q) /\ InFlight(r) /\ req[q].upload = req[r].upload
          /\ req[r].upload \notin clashed
    => req[q].kind = "part" /\ req[r].kind = "part" /\ req[q].num # req[r].num
Quiet == \A r \in Requests :
           InFlight(r) /\ req[r].upload \notin clashed => gc.pc = "idle"

\* So what a completion or an abort has read is still true when it commits, ...
ReadyInv ==
  \A r \in Requests :
    req[r].pc = "ready" /\ req[r].upload \notin clashed =>
      /\ req[r].snap = parts[req[r].upload]
      /\ req[r].kind = "complete" => uploads[req[r].upload] = "open"

\* ... and each upload is completed once.
LiveEnded ==
  \A r \in Requests :
    IF objects[r].live
    THEN objects[r].upload \in Uploads /\ uploads[objects[r].upload] = "ended"
    ELSE objects[r] = NoObject
UniqueInv ==
  \A q, r \in Live :
    objects[q].upload = objects[r].upload /\ objects[r].upload \notin clashed => q = r

OrderInv == KindInv /\ Alone /\ Quiet /\ ReadyInv /\ LiveEnded /\ UniqueInv

\* What a step may do to a request: begin it, ...
Begins(r, kind, u, n) ==
  /\ req[r].pc = "idle"
  /\ req'[r].pc = IF kind = "part" THEN "checked" ELSE "ready"
  /\ req'[r].kind = kind /\ req'[r].upload = u
  /\ kind = "part" => req'[r].num = n
  /\ kind # "part" => req'[r].snap = parts[u]
  /\ kind = "complete" => Stored(u) # {}
  /\ \A q \in Requests \ {r} : req'[q] = req[q]
  /\ clashed' = clashed \cup Clash(r, kind, u, n)
  /\ UNCHANGED <<uploads, parts, objects, disk, gc>>

\* ... let it go on, ...
GoesOn(r) ==
  /\ InFlight(r)
  /\ req'[r].kind = req[r].kind /\ req'[r].upload = req[r].upload
  /\ req'[r].pc \notin {"idle", "ready", "closed"}
  /\ Parting(r)' = Parting(r)
  /\ Parting(r) => req'[r].num = req[r].num

\* ... end it, or leave it alone.
Goes(r) == req'[r] = req[r] \/ req'[r].pc = "closed" \/ GoesOn(r)

LEMMA TurnGoes ==
  ASSUME TypeInv, NEW r \in Requests, NEW x, Become(r, x),
         x.pc = "closed" \/ GoesOn(r)
  PROVE  \A q \in Requests : Goes(q)
  BY DEF Become, Goes, InFlight, TypeInv, TypeOK

LEMMA PartGoes ==
  ASSUME TypeInv, NEW r \in Requests, PartStep(r)
  PROVE  \A q \in Requests : Goes(q)
<1>1. req[r] \in Request
  BY DEF TypeInv, TypeOK
<1>2. ASSUME NEW i, req[r].pc = "checked", Become(r, [req[r] EXCEPT !.pc = "opened", !.inode = i])
      PROVE  \A q \in Requests : Goes(q)
  <2>1. req'[r] = [req[r] EXCEPT !.pc = "opened", !.inode = i]
    BY <1>2 DEF Become, TypeInv, TypeOK
  <2>2. GoesOn(r)
    BY <1>1, <1>2, <2>1 DEF GoesOn, InFlight, Parting, Request
  <2> QED
    BY <1>2, <2>2, TurnGoes
<1>3. ASSUME NEW pc \in {"written", "renamed"}, req[r].pc \in {"opened", "written"},
             Become(r, [req[r] EXCEPT !.pc = pc])
      PROVE  \A q \in Requests : Goes(q)
  <2>1. req'[r] = [req[r] EXCEPT !.pc = pc]
    BY <1>3 DEF Become, TypeInv, TypeOK
  <2>2. GoesOn(r)
    BY <1>1, <1>3, <2>1 DEF GoesOn, InFlight, Parting, Request
  <2> QED
    BY <1>3, <2>2, TurnGoes
<1>4. Become(r, Closed) => \A q \in Requests : Goes(q)
  BY FreshClosed, TurnGoes
<1> QED
  BY <1>2, <1>3, <1>4 DEF PartStep, OpenTmp, WriteTmp, RenameTmp, SavePart

LEMMA CommitGoes ==
  ASSUME TypeInv, NEW r \in Requests, CommitComplete(r) \/ CommitAbort(r)
  PROVE  /\ \A q \in Requests : Goes(q)
         /\ req'[r].pc = "removing" /\ req'[r].upload = req[r].upload
<1>1. /\ req[r].pc = "ready" /\ req[r].kind \in {"complete", "abort"}
      /\ \E rm : Become(r, [RequestAt("removing", req[r].kind, req[r].upload) EXCEPT !.rm = rm])
  BY DEF CommitComplete, CommitAbort
<1> PICK rm : Become(r, [RequestAt("removing", req[r].kind, req[r].upload) EXCEPT !.rm = rm])
  BY <1>1
<1>2. req'[r] = [RequestAt("removing", req[r].kind, req[r].upload) EXCEPT !.rm = rm]
  BY DEF Become, TypeInv, TypeOK
<1>3. /\ req'[r].pc = "removing" /\ req'[r].upload = req[r].upload
      /\ req'[r].kind = req[r].kind
  BY <1>2 DEF RequestAt
<1>4. GoesOn(r)
  BY <1>1, <1>3 DEF GoesOn, InFlight, Parting
<1> QED
  BY <1>3, <1>4, TurnGoes

LEMMA EndGoes ==
  ASSUME TypeInv, NEW r \in Requests, EndStep(r) \/ DropRequest(r)
  PROVE  \A q \in Requests : Goes(q)
<1>1. CASE RemoveFile(r)
  <2> PICK f : req[r].pc = "removing" /\ Become(r, [req[r] EXCEPT !.rm = @ \ {f}])
    BY <1>1 DEF RemoveFile
  <2>1. req[r] \in Request /\ req'[r] = [req[r] EXCEPT !.rm = @ \ {f}]
    BY DEF Become, TypeInv, TypeOK
  <2>2. GoesOn(r)
    BY <2>1 DEF GoesOn, InFlight, Parting, Request
  <2> QED
    BY <2>2, TurnGoes
<1>2. CASE Respond(r) \/ DropRequest(r)
  BY <1>2, FreshClosed, TurnGoes DEF Respond, DropRequest
<1> QED
  BY <1>1, <1>2, CommitGoes DEF EndStep

\* Every step but a request's first.
Moves == \A r \in Requests : Goes(r)
Step ==
  \/ \E u \in Uploads : Initiate(u)
  \/ \E r \in Requests : PartStep(r) \/ EndStep(r) \/ DropRequest(r)
  \/ \E v \in Requests, n \in Nums : StoreChunk(v, n) \/ FreeChunk(v, n)
  \/ GcStep
  \/ Restart
  \/ UNCHANGED vars

LEMMA StepMoves ==
  ASSUME TypeInv, Step
  PROVE  Moves /\ clashed \subseteq clashed'
<1>1. ASSUME UNCHANGED req PROVE Moves
  BY <1>1 DEF Moves, Goes
<1>2. CASE Restart
  BY <1>2, FreshClosed DEF Restart, Moves, Goes, InFlight, TypeInv, TypeOK
<1>3. ASSUME NEW r \in Requests, PartStep(r) PROVE Moves /\ clashed' = clashed
  BY <1>3, PartGoes DEF Moves, PartStep, OpenTmp, WriteTmp, RenameTmp, SavePart, history
<1>4. ASSUME NEW r \in Requests, EndStep(r) \/ DropRequest(r) PROVE Moves /\ clashed' = clashed
  BY <1>4, EndGoes
     DEF Moves, EndStep, CommitComplete, CommitAbort, RemoveFile, Respond, DropRequest, history
<1>5. ASSUME GcStep PROVE UNCHANGED req /\ clashed \subseteq clashed'
  BY <1>5 DEF GcStep, ReadChunkPaths, ReadPartPaths, ListFiles, SweepFile, Notice, Remember, history
<1>6. ASSUME \/ \E u \in Uploads : Initiate(u)
             \/ \E v \in Requests, n \in Nums : StoreChunk(v, n) \/ FreeChunk(v, n)
             \/ UNCHANGED vars
      PROVE  UNCHANGED req /\ clashed' = clashed
  BY <1>6 DEF Initiate, StoreChunk, FreeChunk, vars, history
<1> QED
  BY <1>1, <1>2, <1>3, <1>4, <1>5, <1>6 DEF Step

LEMMA PartBegins ==
  ASSUME TypeInv, NEW r \in Requests, NEW u \in Uploads, NEW n \in AskedNums, NEW b \in Bodies,
         BeginPart(r, u, n, b)
  PROVE  Begins(r, "part", u, n)
<1>1. req' = [req EXCEPT ![r] = [RequestAt("checked", "part", u) EXCEPT !.num = n, !.body = b]]
  BY DEF BeginPart, Become
<1>2. /\ req'[r].pc = "checked" /\ req'[r].kind = "part" /\ req'[r].upload = u /\ req'[r].num = n
      /\ \A q \in Requests \ {r} : req'[q] = req[q]
  BY <1>1 DEF RequestAt, TypeInv, TypeOK
<1> QED
  BY <1>2 DEF BeginPart, Begins, NoticeBody, Remember, tables, disk

LEMMA EndBegins ==
  ASSUME TypeInv, NEW r \in Requests, NEW u \in Uploads, BeginComplete(r, u) \/ BeginAbort(r, u)
  PROVE  \E kind \in {"complete", "abort"} : Begins(r, kind, u, None)
<1>1. CASE BeginComplete(r, u)
  <2> PICK listing : Become(r, [RequestAt("ready", "complete", u) EXCEPT !.listing = listing,
                                                                      !.snap = parts[u]])
    BY <1>1 DEF BeginComplete
  <2>1. /\ req'[r].pc = "ready" /\ req'[r].kind = "complete" /\ req'[r].upload = u
        /\ req'[r].snap = parts[u] /\ \A q \in Requests \ {r} : req'[q] = req[q]
    BY DEF Become, RequestAt, TypeInv, TypeOK
  <2> QED
    BY <1>1, <2>1 DEF BeginComplete, Begins, Notice, Remember, tables, disk
<1>2. CASE BeginAbort(r, u)
  <2>1. /\ req'[r].pc = "ready" /\ req'[r].kind = "abort" /\ req'[r].upload = u
        /\ req'[r].snap = parts[u] /\ \A q \in Requests \ {r} : req'[q] = req[q]
    BY <1>2 DEF BeginAbort, Become, RequestAt, TypeInv, TypeOK
  <2> QED
    BY <1>2, <2>1 DEF BeginAbort, Begins, Notice, Remember, tables, disk
<1> QED
  BY <1>1, <1>2

Kinds == {"part", "complete", "abort"}

LEMMA EveryStep ==
  ASSUME TypeInv, [Next]_vars
  PROVE  \/ Step
         \/ \E r \in Requests, u \in Uploads, kind \in Kinds, n \in AskedNums \cup {None} :
              Begins(r, kind, u, n)
<1>1. ASSUME NEW r \in Requests, NEW u \in Uploads, BeginComplete(r, u) \/ BeginAbort(r, u)
      PROVE  \E kind \in Kinds, n \in AskedNums \cup {None} : Begins(r, kind, u, n)
  BY <1>1, EndBegins DEF Kinds
<1>2. ASSUME NEW r \in Requests, NEW u \in Uploads, NEW n \in AskedNums, NEW b \in Bodies,
             BeginPart(r, u, n, b)
      PROVE  Begins(r, "part", u, n)
  BY <1>2, PartBegins
<1> QED
  BY <1>1, <1>2 DEF Next, Step, Kinds

\* Requests that go on stay as much alone as they were.
LEMMA AloneMoves ==
  ASSUME TypeInv, KindInv, Alone, Moves, clashed \subseteq clashed'
  PROVE  KindInv' /\ Alone'
<1>1. ASSUME NEW r \in Requests, InFlight(r)'
      PROVE  /\ InFlight(r) /\ req'[r].kind = req[r].kind /\ req'[r].upload = req[r].upload
             /\ Parting(r)' = Parting(r)
             /\ Parting(r) => req'[r].num = req[r].num
  BY <1>1 DEF Moves, Goes, GoesOn, InFlight, Parting
<1>2. KindInv'
  BY <1>1 DEF KindInv
<1>3. Alone'
  BY <1>1 DEF Alone, KindInv
<1> QED
  BY <1>2, <1>3

\* A request that begins beside another makes the upload clash.
LEMMA AloneBegins ==
  ASSUME TypeInv, KindInv, Alone, Quiet, NEW r \in Requests, NEW u \in Uploads,
         NEW kind \in Kinds, NEW n \in AskedNums \cup {None}, Begins(r, kind, u, n)
  PROVE  KindInv' /\ Alone' /\ Quiet'
<1>1. KindInv'
  BY DEF KindInv, Begins, InFlight, Parting, Kinds
<1>2. ASSUME u \notin clashed'
      PROVE  /\ gc.pc = "idle"
             /\ \A q \in Requests \ {r} :
                  InFlight(q) /\ req[q].upload = u =>
                    kind = "part" /\ req[q].kind = "part" /\ req[q].num # n
  BY <1>2 DEF Begins, Clash, Overlaps
<1>3. Alone'
  <2>1. \A q \in Requests \ {r} : req'[q] = req[q] /\ InFlight(q)' = InFlight(q)
    BY DEF Begins, InFlight
  <2>2. \A p, q \in Requests : p # r /\ q # r /\ p # q /\ InFlight(p)' /\ InFlight(q)'
          /\ req'[p].upload = req'[q].upload /\ req'[q].upload \notin clashed'
        => req'[p].kind = "part" /\ req'[q].kind = "part" /\ req'[p].num # req'[q].num
    BY <2>1 DEF Alone, Begins
  <2>3. \A q \in Requests \ {r} : InFlight(q)' /\ req'[q].upload = u /\ u \notin clashed'
        => req'[r].kind = "part" /\ req'[q].kind = "part" /\ req'[r].num # req'[q].num
    BY <1>2, <2>1 DEF Begins
  <2>4. req'[r].upload = u
    BY DEF Begins
  <2> QED
    BY <2>2, <2>3, <2>4 DEF Alone
<1>4. Quiet'
  BY <1>2 DEF Quiet, Begins, InFlight
<1> QED
  BY <1>1, <1>3, <1>4

\* A sweep begins by making the uploads of the requests around it clash.
LEMMA QuietMoves ==
  ASSUME TypeInv, Quiet, Step
  PROVE  Quiet'
<1>1. Moves /\ clashed \subseteq clashed'
  BY StepMoves
<1>2. \A r \in Requests : InFlight(r)' => InFlight(r) /\ req'[r].upload = req[r].upload
  BY <1>1 DEF Moves, Goes, GoesOn, InFlight
<1>3. CASE gc'.pc = "idle" \/ gc.pc # "idle"
  BY <1>1, <1>2, <1>3 DEF Quiet
<1>4. CASE ReadChunkPaths
  <2>1. \A r \in Requests : InFlight(r) => req[r].upload \in clashed'
    BY <1>4 DEF ReadChunkPaths, Notice, Remember
  <2> QED
    BY <1>2, <2>1 DEF Quiet
<1>5. GcStep => gc.pc # "idle" \/ ReadChunkPaths
  BY DEF GcStep, ReadPartPaths, ListFiles, SweepFile
<1>6. Restart => gc'.pc = "idle"
  BY DEF Restart, SweepBecomes
<1>7. ~GcStep /\ ~Restart => UNCHANGED gc
  BY DEF Step, Initiate, PartStep, OpenTmp, WriteTmp, RenameTmp, SavePart, EndStep,
         CommitComplete, CommitAbort, RemoveFile, Respond, DropRequest, StoreChunk, FreeChunk,
         vars
<1> QED
  BY <1>3, <1>4, <1>5, <1>6, <1>7

\* Only a request of the upload itself changes its rows, and then its last one.
Touches(r, u) ==
  /\ req[r].upload = u
  /\ \/ req[r].pc = "renamed" /\ req'[r].pc = "closed"
     \/ req[r].pc = "ready" /\ req[r].kind # "part" /\ req'[r].pc = "removing"

LEMMA RowsTouched ==
  ASSUME TypeInv, Step, NEW u \in Uploads
  PROVE  \/ \E r \in Requests : Touches(r, u)
         \/ parts'[u] = parts[u] /\ uploads'[u] = uploads[u]
         \/ parts'[u] = parts[u] /\ uploads[u] = "new"
<1>1. ASSUME NEW v \in Uploads, Initiate(v)
      PROVE  parts'[u] = parts[u] /\ (uploads'[u] = uploads[u] \/ uploads[u] = "new")
  BY <1>1 DEF Initiate, TypeInv, TypeOK
<1>2. ASSUME NEW r \in Requests, SavePart(r)
      PROVE  Touches(r, u) \/ (parts'[u] = parts[u] /\ uploads'[u] = uploads[u])
  BY <1>2, FreshClosed DEF SavePart, Touches, Become, TypeInv, TypeOK, RequestShape
<1>3. ASSUME NEW r \in Requests, CommitComplete(r) \/ CommitAbort(r)
      PROVE  Touches(r, u) \/ (parts'[u] = parts[u] /\ uploads'[u] = uploads[u])
  <2>1. req'[r].pc = "removing"
    BY <1>3, CommitGoes
  <2>2. req[r].pc = "ready" /\ req[r].kind # "part" /\ req[r].upload \in Uploads
    BY <1>3 DEF CommitComplete, CommitAbort, TypeInv, RequestShape
  <2>3. req[r].upload # u => parts'[u] = parts[u] /\ uploads'[u] = uploads[u]
    BY <1>3, <2>2 DEF CommitComplete, CommitAbort, TypeInv, TypeOK
  <2>4. req[r].upload = u => Touches(r, u)
    BY <2>1, <2>2 DEF Touches
  <2> QED
    BY <2>3, <2>4
<1>4. CASE UNCHANGED <<parts, uploads>>
  BY <1>4
<1> QED
  BY <1>1, <1>2, <1>3, <1>4
     DEF Step, PartStep, OpenTmp, WriteTmp, RenameTmp, EndStep, RemoveFile, Respond, DropRequest,
         StoreChunk, FreeChunk, GcStep, ReadChunkPaths, ReadPartPaths, ListFiles, SweepFile,
         Restart, vars, tables

LEMMA ReadyMoves ==
  ASSUME TypeInv, KindInv, Alone, ReadyInv, Step
  PROVE  ReadyInv'
<1> SUFFICES ASSUME NEW r \in Requests, req'[r].pc = "ready", req'[r].upload \notin clashed'
             PROVE  /\ req'[r].snap = parts'[req'[r].upload]
                    /\ req'[r].kind = "complete" => uploads'[req'[r].upload] = "open"
  BY DEF ReadyInv
<1>1. Moves /\ clashed \subseteq clashed'
  BY StepMoves
<1>2. req'[r] = req[r]
  BY <1>1 DEF Moves, Goes, GoesOn, InFlight
<1>3. req[r].upload \in Uploads /\ InFlight(r) /\ ~Parting(r) /\ req[r].kind # "part"
  BY <1>2 DEF TypeInv, RequestShape, InFlight, KindInv, Parting
<1>4. /\ req[r].snap = parts[req[r].upload]
      /\ req[r].kind = "complete" => uploads[req[r].upload] = "open"
  BY <1>1, <1>2 DEF ReadyInv
<1>5. ~\E q \in Requests : Touches(q, req[r].upload)
  <2> SUFFICES ASSUME NEW q \in Requests, Touches(q, req[r].upload) PROVE FALSE
    OBVIOUS
  <2>1. q # r
    BY <1>2 DEF Touches
  <2>2. InFlight(q) /\ req[q].upload = req[r].upload
    BY DEF Touches, InFlight
  <2> QED
    BY <1>1, <1>2, <1>3, <2>1, <2>2 DEF Alone
<1> QED
  BY <1>2, <1>3, <1>4, <1>5, RowsTouched

LEMMA ReadyBegins ==
  ASSUME TypeInv, EndedHasNoRows, ReadyInv, NEW r \in Requests, NEW u \in Uploads,
         NEW kind \in Kinds, NEW n \in AskedNums \cup {None}, Begins(r, kind, u, n)
  PROVE  ReadyInv'
<1>1. kind = "complete" => uploads[u] = "open"
  BY DEF Begins, Stored, EndedHasNoRows, NoParts
<1>2. \A q \in Requests \ {r} : req'[q] = req[q]
  BY DEF Begins
<1>3. req'[r].pc = "ready" =>
        /\ req'[r].upload = u /\ req'[r].kind = kind /\ req'[r].snap = parts[u]
  BY DEF Begins, Kinds
<1>4. clashed \subseteq clashed' /\ UNCHANGED <<uploads, parts>>
  BY DEF Begins
<1> QED
  BY <1>1, <1>2, <1>3, <1>4 DEF ReadyInv

\* Objects are not there or belong to uploads that have ended.
LEMMA LiveStep == TypeInv /\ LiveEnded /\ [Next]_vars => LiveEnded'
<1> SUFFICES ASSUME TypeInv, LiveEnded, [Next]_vars PROVE LiveEnded'
  OBVIOUS
<1>1. ~NoObject.live
  BY DEF NoObject
<1>2. \A u \in Uploads : uploads[u] = "ended" => uploads'[u] = "ended"
  BY DEF Next, Initiate, BeginPart, BeginComplete, BeginAbort, PartStep, OpenTmp, WriteTmp,
         RenameTmp, SavePart, EndStep, CommitComplete, CommitAbort, RemoveFile, Respond,
         DropRequest, StoreChunk, FreeChunk, GcStep, ReadChunkPaths, ReadPartPaths, ListFiles,
         SweepFile, Restart, vars, tables, TypeInv, TypeOK
<1>3. ASSUME NEW r \in Requests, CommitComplete(r) PROVE LiveEnded'
  <2>1. /\ objects'[r] = Made(r) /\ req[r].upload \in Uploads
        /\ \A q \in Requests \ {r} : objects'[q] \in {NoObject, objects[q]}
    BY <1>3, CommittedObjects
  <2>2. objects'[r].live /\ objects'[r].upload = req[r].upload
    BY <2>1 DEF Made
  <2>3. uploads'[req[r].upload] = "ended"
    BY <1>3, <2>1 DEF CommitComplete, TypeInv, TypeOK
  <2> QED
    BY <1>1, <1>2, <2>1, <2>2, <2>3 DEF LiveEnded
<1>4. ASSUME NEW v \in Requests, NEW n \in Nums, StoreChunk(v, n) \/ FreeChunk(v, n)
      PROVE  LiveEnded'
  <2> PICK c \in ChunkRow : ChunkBecomes(v, n, c)
    BY <1>4, WorkerRow DEF StoreChunk, FreeChunk, Sent, Freed
  <2>1. objects[v].upload \in Uploads /\ objects[v].live
    <3>1. objects[v].chunks[n].state # "none"
      BY <1>4 DEF StoreChunk, FreeChunk
    <3>2. NoObject.chunks[n].state = "none"
      BY DEF NoObject, NoChunk
    <3> QED
      BY <1>4, <3>1, <3>2, WorkerRow DEF LiveEnded
  <2>2. \A q \in Requests : objects'[q].live = objects[q].live /\ objects'[q].upload = objects[q].upload
    BY <1>4, <2>1, ChunkTurn
  <2>3. \A q \in Requests \ {v} : objects'[q] = objects[q]
    BY DEF ChunkBecomes, TypeInv, TypeOK
  <2> QED
    BY <1>2, <2>1, <2>2, <2>3 DEF LiveEnded
<1>5. CASE UNCHANGED objects
  BY <1>2, <1>5 DEF LiveEnded
<1> QED
  BY <1>3, <1>4, <1>5
     DEF Next, Initiate, BeginPart, BeginComplete, BeginAbort, PartStep, OpenTmp, WriteTmp,
         RenameTmp, SavePart, EndStep, CommitAbort, RemoveFile, Respond, DropRequest, GcStep,
         ReadChunkPaths, ReadPartPaths, ListFiles, SweepFile, Restart, vars, tables

\* A completion that is alone finds its upload open, so nothing was made of it.
LEMMA UniqueStep ==
  ASSUME TypeInv, LiveEnded, ReadyInv, UniqueInv, [Next]_vars, clashed \subseteq clashed'
  PROVE  UniqueInv'
<1>1. ASSUME NEW r \in Requests, CommitComplete(r) PROVE UniqueInv'
  <2> SUFFICES ASSUME NEW p \in Live', NEW q \in Live', objects'[p].upload = objects'[q].upload,
                      objects'[q].upload \notin clashed'
               PROVE  p = q
    BY DEF UniqueInv
  <2>1. /\ objects'[r] = Made(r)
        /\ \A x \in Requests \ {r} : objects'[x] \in {NoObject, objects[x]}
    BY <1>1, CommittedObjects
  <2>2. objects'[r].upload = req[r].upload /\ ~NoObject.live
    BY <2>1 DEF Made, NoObject
  <2>3. \A x \in Live' : x # r => x \in Live /\ objects'[x] = objects[x]
    BY <2>1, <2>2 DEF Live
  <2>4. req[r].upload \notin clashed' => \A x \in Live : objects[x].upload # req[r].upload
    BY <1>1 DEF CommitComplete, ReadyInv, LiveEnded, Live
  <2> QED
    BY <2>2, <2>3, <2>4 DEF UniqueInv
<1>2. ASSUME NEW v \in Requests, NEW n \in Nums, StoreChunk(v, n) \/ FreeChunk(v, n)
      PROVE  UniqueInv'
  <2> PICK c \in ChunkRow : ChunkBecomes(v, n, c)
    BY <1>2, WorkerRow DEF StoreChunk, FreeChunk, Sent, Freed
  <2>1. \A q \in Requests : objects'[q].live = objects[q].live /\ objects'[q].upload = objects[q].upload
    BY <1>2, WorkerRow, ChunkTurn
  <2> QED
    BY <2>1 DEF UniqueInv, Live
<1>3. CASE UNCHANGED objects
  BY <1>3 DEF UniqueInv, Live
<1> QED
  BY <1>1, <1>2, <1>3
     DEF Next, Initiate, BeginPart, BeginComplete, BeginAbort, PartStep, OpenTmp, WriteTmp,
         RenameTmp, SavePart, EndStep, CommitAbort, RemoveFile, Respond, DropRequest, GcStep,
         ReadChunkPaths, ReadPartPaths, ListFiles, SweepFile, Restart, vars, tables

LEMMA OrderInit == Init => OrderInv
<1> SUFFICES ASSUME NEW past \in BOOLEAN, NEW u \in Uploads, NEW r \in Requests,
                    NEW b \in Bodies, InitAfter(past, u, r, b)
             PROVE  OrderInv
  BY DEF Init
<1>1. \A q \in Requests : req[q].pc \in {"idle", "closed"}
  BY FreshClosed, FreshRequest DEF InitAfter
<1>2. KindInv /\ Alone /\ Quiet /\ ReadyInv
  BY <1>1 DEF KindInv, Alone, Quiet, ReadyInv, InFlight
<1>3. \A q \in Requests : \/ objects[q] = NoObject
                          \/ q = r /\ objects[q].upload = u /\ uploads[u] = "ended"
  BY DEF InitAfter
<1>4. ~NoObject.live
  BY DEF NoObject
<1>5. \A q \in Requests : ~objects[q].live => objects[q] = NoObject
  BY DEF InitAfter
<1>6. LiveEnded /\ UniqueInv
  BY <1>3, <1>4, <1>5 DEF LiveEnded, UniqueInv, Live
<1> QED
  BY <1>2, <1>6 DEF OrderInv

LEMMA OrderStep == TypeInv /\ EndedHasNoRows /\ OrderInv /\ [Next]_vars => OrderInv'
<1> SUFFICES ASSUME TypeInv, EndedHasNoRows, OrderInv, [Next]_vars PROVE OrderInv'
  OBVIOUS
<1> USE DEF OrderInv
<1>1. CASE Step
  <2>1. Moves /\ clashed \subseteq clashed'
    BY <1>1, StepMoves
  <2>2. KindInv' /\ Alone' /\ Quiet' /\ ReadyInv'
    BY <1>1, <2>1, AloneMoves, QuietMoves, ReadyMoves
  <2> QED
    BY <2>1, <2>2, LiveStep, UniqueStep
<1>2. ASSUME NEW r \in Requests, NEW u \in Uploads, NEW kind \in Kinds,
             NEW n \in AskedNums \cup {None}, Begins(r, kind, u, n)
      PROVE  OrderInv'
  <2>1. KindInv' /\ Alone' /\ Quiet' /\ ReadyInv'
    BY <1>2, AloneBegins, ReadyBegins
  <2>2. clashed \subseteq clashed'
    BY <1>2 DEF Begins
  <2> QED
    BY <2>1, <2>2, LiveStep, UniqueStep
<1> QED
  BY <1>1, <1>2, EveryStep

\* The inductive invariant of uploads whose requests keep out of each other's
\* way: what create, part, complete and abort handlers have read still holds.
THEOREM OrderInvariant == Spec => [](TypeInv /\ EndedHasNoRows /\ OrderInv)
<1>1. Spec => []OrderInv
  BY OrderInit, OrderStep, TypeInvariant, EndedUploadsHaveNoRows, PTL DEF Spec
<1> QED
  BY <1>1, TypeInvariant, EndedUploadsHaveNoRows, PTL

\* A second completion of an upload, a retry for instance, that waits for the
\* first finds no rows: complete_multipart_upload_txn cannot commit it twice.
THEOREM OneObjectPerUpload == Spec => []OneObject
<1>1. OrderInv => OneObject
  BY DEF OrderInv, UniqueInv, OneObject, Orderly
<1> QED
  BY <1>1, OrderInvariant, PTL
=============================================================================
