----------------------------- MODULE ReadProofs -----------------------------
(***************************************************************************)
(* GETs and the export, whatever goes on beside them, for every value of   *)
(* the constants: readers keep their types; and under SafeUse an answer is *)
(* the whole of one write or an empty one of a version that is gone, a GET  *)
(* fails only if it was overtaken or refused, and so it is with a bundle.   *)
(***************************************************************************)
EXTENDS Recovery, StoreProofs

-----------------------------------------------------------------------------
(* Readers and the export only read *)

LEMMA PipelineStepIs ==
  ASSUME PipelineStep
  PROVE  [Next]_vars /\ rd' = rd
  BY DEF PipelineStep, Next

LEMMA ReadStepIs ==
  ASSUME [ReadNext]_rvars
  PROVE  [Next]_vars
<1>1. CASE ReadersStep
  BY <1>1 DEF ReadersStep, ReaderStep, LoadRows, ReadFile, FindLocator, Download, Answer, NextGet,
       BeginGet, Proceed, Fails, QueryErrs, Errs, ReaderBecomes
<1> QED
  BY <1>1, PipelineStepIs DEF ReadNext, RestartAll, Next, rvars

LEMMA ReadSpecIsSpec == ReadSpec => Spec
<1>1. ReadInit => Init
  BY DEF ReadInit
<1>2. [ReadNext]_rvars => [Next]_vars
  BY ReadStepIs
<1> QED
  BY <1>1, <1>2, PTL DEF ReadSpec, Spec

LEMMA RecoveryStepIs ==
  ASSUME [RecoveryNext]_evars
  PROVE  [ReadNext]_rvars
  BY DEF RecoveryNext, ReadNext, RecoveryStep, ReadObjects, ReadChunks, Import, Again,
     ExportBecomes, evars

LEMMA RecoverySpecIsReadSpec == RecoverySpec => ReadSpec
<1>1. RecoveryInit => ReadInit
  BY DEF RecoveryInit
<1>2. [RecoveryNext]_evars => [ReadNext]_rvars
  BY RecoveryStepIs
<1> QED
  BY <1>1, <1>2, PTL DEF ReadSpec, RecoverySpec

-----------------------------------------------------------------------------
(* What a turn of a reader does *)

Busy == {"found", "reading", "loading"}
ReaderShape == \A g \in Readers : rd[g].pc \in Busy => rd[g].id \in Ids
ReaderType == ReaderTypeOK /\ ReaderShape

\* To its own record, field by field: it begins, reads the chunk rows, is done
\* with the row of chunk c, fetches the message of chunk c, answers, fails.
SameVersion(g) == /\ rd'[g].id = rd[g].id /\ rd'[g].seq = rd[g].seq
                  /\ rd'[g].data = rd[g].data
SameParts(g) == rd'[g].remote = rd[g].remote /\ rd'[g].body = rd[g].body
NextPc(g) == rd'[g].pc = IF rd'[g].todo = {} THEN "loading" ELSE "reading"

GetBegins(g) ==
  /\ rd'[g].pc = "found"
  /\ \E i \in Ids : /\ objects[i].kind = "data"
                    /\ rd'[g].id = i /\ rd'[g].seq = objects[i].seq
                    /\ rd'[g].data = objects[i].data
  /\ rd'[g].remote = NoPart /\ rd'[g].body = NoPart
GetLoads(g) ==
  /\ rd[g].pc = "found"
  /\ SameVersion(g) /\ SameParts(g) /\ NextPc(g)
  /\ rd'[g].rows = chunks[rd[g].id]
  /\ rd'[g].todo = {c \in Idx : chunks[rd[g].id][c].state # "none"}
GetTakes(g, c) ==
  /\ rd[g].pc = "reading" /\ c \in rd[g].todo
  /\ SameVersion(g) /\ NextPc(g)
  /\ rd'[g].todo = rd[g].todo \ {c}
  /\ \A d \in Idx \ {c} : /\ rd'[g].rows[d] = rd[g].rows[d]
                          /\ rd'[g].body[d] = rd[g].body[d]
                          /\ rd'[g].remote[d] = rd[g].remote[d]
  /\ \/ /\ InSpool(g, c)
        /\ rd'[g].body[c] = rd[g].rows[c].path /\ rd'[g].remote[c] = rd[g].remote[c]
     \/ /\ chunks[rd[g].id][c].loc # None
        /\ rd'[g].body[c] = rd[g].body[c] /\ rd'[g].remote[c] = chunks[rd[g].id][c].loc
GetFetches(g, c) ==
  /\ rd[g].pc = "loading" /\ rd'[g].pc = "loading"
  /\ SameVersion(g)
  /\ rd'[g].todo = rd[g].todo
  /\ rd[g].remote[c] # None
  /\ \A d \in Idx \ {c} : /\ rd'[g].body[d] = rd[g].body[d]
                          /\ rd'[g].remote[d] = rd[g].remote[d]
  /\ rd'[g].body[c] = rd[g].remote[c][1] /\ rd'[g].remote[c] = None
GetAnswers(g) ==
  /\ rd[g].pc = "loading" /\ rd'[g].pc = "ok"
  /\ rd[g].remote = NoPart
  /\ rd'[g].data = rd[g].data /\ rd'[g].body = rd[g].body
  /\ rd'[g].gone = Gone(g)

GetFails(g) ==
  /\ rd'[g].pc = "failed"
  /\ \E c \in Idx :
       \/ /\ rd[g].pc = "reading" /\ c \in rd[g].todo
          /\ ~InSpool(g, c)
          /\ rd[g].rows[c].state # "remote" \/ chunks[rd[g].id][c].loc = None
       \/ /\ rd[g].pc = "loading"
          /\ rd[g].remote[c] # None /\ rd[g].remote[c] \notin blobs
       \/ /\ rd[g].pc = "loading"
          /\ rd[g].body[c] # None /\ chunks[rd[g].id][c].state = "none"
GetErrs(g) ==
  /\ rd[g].pc \in Busy
  /\ rd'[g].pc = "failed" /\ rd'[g].refused

ReaderMoves(g) ==
  \/ rd'[g] = rd[g]
  \/ rd'[g].pc = "idle"
  \/ GetFails(g) \/ GetErrs(g)
  \/ GetBegins(g) \/ GetLoads(g)
  \/ \E c \in Idx : GetTakes(g, c) \/ GetFetches(g, c)
  \/ GetAnswers(g)

LEMMA ReaderFresh ==
  ASSUME NEW pc \in {"idle", "found", "ok", "failed"}
  PROVE  /\ ReaderAt(pc) \in Reader
         /\ ReaderAt(pc).pc = pc
         /\ ReaderAt(pc).remote = NoPart /\ ReaderAt(pc).body = NoPart
<1>1. NoChunk \in ChunkRow
  BY FreshRecords
<1> QED
  BY <1>1 DEF ReaderAt, Reader, NoPart

\* One reader takes its turn, and keeps its type.
Turn(g, x) == /\ rd'[g] = x
              /\ \A h \in Readers \ {g} : rd'[h] = rd[h]
              /\ ReaderType'

LEMMA ReaderTurn ==
  ASSUME ReaderType, NEW g \in Readers, NEW x \in Reader, ReaderBecomes(g, x),
         x.pc \in Busy => x.id \in Ids
  PROVE  Turn(g, x)
<1>1. rd \in [Readers -> Reader] /\ rd' = [rd EXCEPT ![g] = x]
  BY DEF ReaderType, ReaderTypeOK, ReaderBecomes
<1>2. rd'[g] = x /\ \A h \in Readers \ {g} : rd'[h] = rd[h]
  BY <1>1
<1>3. rd' \in [Readers -> Reader]
  BY <1>1
<1>4. ReaderShape'
  BY <1>2 DEF ReaderShape, ReaderType
<1> QED
  BY <1>2, <1>3, <1>4 DEF Turn, ReaderType, ReaderTypeOK

LEMMA ReaderProceeds ==
  ASSUME ReaderType, NEW g \in Readers, NEW x \in Reader, x.id \in Ids, Proceed(g, x)
  PROVE  \E y \in Reader :
           /\ Turn(g, y)
           /\ y.pc = IF y.todo = {} THEN "loading" ELSE "reading"
           /\ y.id = x.id /\ y.seq = x.seq /\ y.data = x.data /\ y.rows = x.rows
           /\ y.todo = x.todo /\ y.remote = x.remote /\ y.body = x.body
<1> DEFINE pc == IF x.todo = {} THEN "loading" ELSE "reading"
           y == [x EXCEPT !.pc = pc]
<1>1. /\ y \in Reader /\ y.pc = pc
      /\ y.id = x.id /\ y.seq = x.seq /\ y.data = x.data /\ y.rows = x.rows
      /\ y.todo = x.todo /\ y.remote = x.remote /\ y.body = x.body
  BY DEF Reader
<1>2. ReaderBecomes(g, y)
  BY DEF Proceed
<1> HIDE DEF y
<1>3. Turn(g, y)
  BY <1>1, <1>2, ReaderTurn
<1> QED
  BY <1>1, <1>3

LEMMA ReaderFails ==
  ASSUME ReaderType, NEW g \in Readers, Fails(g)
  PROVE  Turn(g, ReaderAt("failed")) /\ rd'[g].pc = "failed"
<1>1. ReaderAt("failed") \in Reader /\ ReaderAt("failed").pc = "failed"
  BY ReaderFresh
<1>2. Turn(g, ReaderAt("failed"))
  BY <1>1, ReaderTurn DEF Fails, Busy
<1> QED
  BY <1>1, <1>2 DEF Turn

LEMMA ReaderErrs ==
  ASSUME ReaderType, NEW g \in Readers, Errs(g)
  PROVE  \E x \in Reader : Turn(g, x) /\ x.pc = "failed" /\ x.refused
<1> DEFINE z == ReaderAt("failed")
           x == [z EXCEPT !.refused = TRUE]
<1>1. z \in Reader /\ z.pc = "failed"
  BY ReaderFresh
<1>2. ReaderBecomes(g, x)
  BY DEF Errs
<1>3. x \in Reader /\ x.pc = "failed" /\ x.refused
  <2> HIDE DEF z
  <2> QED
    BY <1>1 DEF Reader
<1> HIDE DEF x
<1>4. Turn(g, x)
  BY <1>2, <1>3, ReaderTurn DEF Busy
<1> QED
  BY <1>3, <1>4

\* What a step does to readers: one of them takes a turn, or all of them rest or
\* are gone.
OneTurn(g) == /\ ReaderMoves(g)
              /\ \A h \in Readers \ {g} : rd'[h] = rd[h]
              /\ ReaderType'

LEMMA TurnBegin ==
  ASSUME TypeOK, ReaderType, NEW g \in Readers, NEW i \in Ids, BeginGet(g, i)
  PROVE  OneTurn(g)
<1> DEFINE o == objects[i]
           x == [ReaderAt("found") EXCEPT !.id = i, !.seq = o.seq, !.data = o.data]
<1>1. ReaderBecomes(g, x) /\ o.kind = "data"
  BY DEF BeginGet
<1>2. o.seq \in Nat /\ o.data \in Requests \cup {None}
  BY DEF TypeOK, ObjectRow
<1>3. /\ ReaderAt("found") \in Reader /\ ReaderAt("found").pc = "found"
      /\ ReaderAt("found").remote = NoPart /\ ReaderAt("found").body = NoPart
  BY ReaderFresh
<1>4. /\ x \in Reader /\ x.pc = "found" /\ x.id = i /\ x.seq = objects[i].seq
      /\ x.data = objects[i].data /\ x.remote = NoPart /\ x.body = NoPart
  <2> HIDE DEF o
  <2>1. /\ x \in Reader /\ x.pc = "found" /\ x.id = i /\ x.seq = o.seq
        /\ x.data = o.data /\ x.remote = NoPart /\ x.body = NoPart
    BY <1>2, <1>3 DEF Reader
  <2> QED
    BY <2>1 DEF o
<1> HIDE DEF x
<1>5. Turn(g, x)
  BY <1>1, <1>4, ReaderTurn
<1>6. GetBegins(g)
  BY <1>1, <1>4, <1>5 DEF Turn, GetBegins
<1> QED
  BY <1>5, <1>6 DEF Turn, OneTurn, ReaderMoves

LEMMA TurnLoad ==
  ASSUME TypeOK, ReaderType, NEW g \in Readers, LoadRows(g)
  PROVE  OneTurn(g)
<1> DEFINE rows == chunks[rd[g].id]
           todo == {c \in Idx : rows[c].state # "none"}
           x == [rd[g] EXCEPT !.rows = rows, !.todo = todo]
<1>1. Proceed(g, x) /\ rd[g].pc = "found"
  BY DEF LoadRows
<1>2. rd[g] \in Reader /\ rd[g].id \in Ids
  BY <1>1 DEF ReaderType, ReaderTypeOK, ReaderShape, Busy
<1>3. rows \in [Idx -> ChunkRow] /\ todo \in SUBSET Idx
  BY <1>2 DEF TypeOK
<1>4. /\ x \in Reader
      /\ x.id = rd[g].id /\ x.seq = rd[g].seq /\ x.data = rd[g].data
      /\ x.rows = rows /\ x.todo = todo
      /\ x.remote = rd[g].remote /\ x.body = rd[g].body
  <2> HIDE DEF rows, todo
  <2> QED
    BY <1>2, <1>3 DEF Reader
<1> HIDE DEF x
<1>5. PICK y \in Reader :
        /\ Turn(g, y)
        /\ y.pc = IF y.todo = {} THEN "loading" ELSE "reading"
        /\ y.id = x.id /\ y.seq = x.seq /\ y.data = x.data /\ y.rows = x.rows
        /\ y.todo = x.todo /\ y.remote = x.remote /\ y.body = x.body
  BY <1>1, <1>2, <1>4, ReaderProceeds
<1>6. GetLoads(g)
  BY <1>1, <1>4, <1>5 DEF Turn, GetLoads, SameVersion, SameParts, NextPc
<1> QED
  BY <1>5, <1>6 DEF Turn, OneTurn, ReaderMoves

\* The record of a reader that is done with the row of chunk c.
LEMMA PastIs ==
  ASSUME ReaderType, NEW g \in Readers, NEW c \in Idx
  PROVE  /\ Past(g, c) \in Reader
         /\ Past(g, c).id = rd[g].id /\ Past(g, c).seq = rd[g].seq
         /\ Past(g, c).data = rd[g].data
         /\ Past(g, c).todo = rd[g].todo \ {c}
         /\ \A d \in Idx \ {c} : Past(g, c).rows[d] = rd[g].rows[d]
         /\ Past(g, c).body = rd[g].body /\ Past(g, c).remote = rd[g].remote
<1>1. rd[g] \in Reader /\ NoChunk \in ChunkRow
  BY FreshRecords DEF ReaderType, ReaderTypeOK
<1> QED
  BY <1>1 DEF Past, Reader

LEMMA TurnFile ==
  ASSUME TypeOK, ReaderType, NEW g \in Readers, ReadFile(g)
  PROVE  OneTurn(g)
<1>1. PICK c \in rd[g].todo :
        /\ Looking(g, c) /\ InSpool(g, c)
        /\ Proceed(g, [Past(g, c) EXCEPT !.body[c] = rd[g].rows[c].path])
  BY DEF ReadFile
<1>2. rd[g] \in Reader /\ rd[g].id \in Ids /\ rd[g].pc = "reading"
  BY <1>1 DEF ReaderType, ReaderTypeOK, ReaderShape, Busy, Looking
<1>3. c \in Idx
  BY <1>2 DEF Reader
<1> DEFINE p == rd[g].rows[c].path
           z == Past(g, c)
           x == [z EXCEPT !.body[c] = p]
<1>4. p \in Paths \cup {None}
  BY <1>2, <1>3 DEF Reader, ChunkRow
<1>5. /\ z \in Reader
      /\ z.id = rd[g].id /\ z.seq = rd[g].seq /\ z.data = rd[g].data
      /\ z.todo = rd[g].todo \ {c}
      /\ \A d \in Idx \ {c} : z.rows[d] = rd[g].rows[d]
      /\ z.body = rd[g].body /\ z.remote = rd[g].remote
  BY <1>3, PastIs
<1>6. /\ x \in Reader
      /\ x.id = z.id /\ x.seq = z.seq /\ x.data = z.data /\ x.todo = z.todo
      /\ x.rows = z.rows /\ x.remote = z.remote
      /\ x.body[c] = p /\ \A d \in Idx \ {c} : x.body[d] = z.body[d]
  <2> HIDE DEF p, z
  <2> QED
    BY <1>3, <1>4, <1>5 DEF Reader
<1>7. Proceed(g, x)
  BY <1>1
<1>8. p = rd[g].rows[c].path
  OBVIOUS
<1> HIDE DEF x, z, p
<1>9. PICK y \in Reader :
        /\ Turn(g, y)
        /\ y.pc = IF y.todo = {} THEN "loading" ELSE "reading"
        /\ y.id = x.id /\ y.seq = x.seq /\ y.data = x.data /\ y.rows = x.rows
        /\ y.todo = x.todo /\ y.remote = x.remote /\ y.body = x.body
  BY <1>2, <1>5, <1>6, <1>7, ReaderProceeds
<1>10. GetTakes(g, c)
  BY <1>1, <1>2, <1>5, <1>6, <1>8, <1>9 DEF Turn, GetTakes, SameVersion, NextPc
<1> QED
  BY <1>3, <1>9, <1>10 DEF Turn, OneTurn, ReaderMoves

LEMMA TurnFind ==
  ASSUME TypeOK, ReaderType, NEW g \in Readers, FindLocator(g)
  PROVE  OneTurn(g)
<1>1. PICK c \in rd[g].todo :
        /\ Looking(g, c)
        /\ \/ /\ chunks[rd[g].id][c].loc # None
              /\ Proceed(g, [Past(g, c) EXCEPT !.remote[c] = chunks[rd[g].id][c].loc])
           \/ /\ ~InSpool(g, c)
              /\ rd[g].rows[c].state # "remote" \/ chunks[rd[g].id][c].loc = None
              /\ Fails(g)
  BY DEF FindLocator
<1>2. rd[g] \in Reader /\ rd[g].id \in Ids /\ rd[g].pc = "reading"
  BY <1>1 DEF ReaderType, ReaderTypeOK, ReaderShape, Busy, Looking
<1>3. c \in Idx
  BY <1>2 DEF Reader
<1>4. CASE /\ ~InSpool(g, c)
           /\ rd[g].rows[c].state # "remote" \/ chunks[rd[g].id][c].loc = None
           /\ Fails(g)
  <2>1. GetFails(g)
    BY <1>2, <1>3, <1>4, ReaderFails DEF GetFails
  <2> QED
    BY <1>4, <2>1, ReaderFails DEF Turn, OneTurn, ReaderMoves
<1>5. CASE /\ chunks[rd[g].id][c].loc # None
           /\ Proceed(g, [Past(g, c) EXCEPT !.remote[c] = chunks[rd[g].id][c].loc])
  <2> DEFINE l == chunks[rd[g].id][c].loc
             z == Past(g, c)
             x == [z EXCEPT !.remote[c] = l]
  <2>1. l \in Locators \cup {None}
    BY <1>2, <1>3 DEF TypeOK, ChunkRow
  <2>2. /\ z \in Reader
        /\ z.id = rd[g].id /\ z.seq = rd[g].seq /\ z.data = rd[g].data
        /\ z.todo = rd[g].todo \ {c}
        /\ \A d \in Idx \ {c} : z.rows[d] = rd[g].rows[d]
        /\ z.body = rd[g].body /\ z.remote = rd[g].remote
    BY <1>3, PastIs
  <2>3. /\ x \in Reader
        /\ x.id = z.id /\ x.seq = z.seq /\ x.data = z.data /\ x.todo = z.todo
        /\ x.rows = z.rows /\ x.body = z.body
        /\ x.remote[c] = l /\ \A d \in Idx \ {c} : x.remote[d] = z.remote[d]
    <3> HIDE DEF l, z
    <3> QED
      BY <1>3, <2>1, <2>2 DEF Reader
  <2>4. Proceed(g, x) /\ l # None /\ l = chunks[rd[g].id][c].loc
    BY <1>5
  <2> HIDE DEF x, z, l
  <2>5. PICK y \in Reader :
          /\ Turn(g, y)
          /\ y.pc = IF y.todo = {} THEN "loading" ELSE "reading"
          /\ y.id = x.id /\ y.seq = x.seq /\ y.data = x.data /\ y.rows = x.rows
          /\ y.todo = x.todo /\ y.remote = x.remote /\ y.body = x.body
    BY <1>2, <2>2, <2>3, <2>4, ReaderProceeds
  <2>6. GetTakes(g, c)
    BY <1>1, <1>2, <2>2, <2>3, <2>4, <2>5 DEF Turn, GetTakes, SameVersion, NextPc
  <2> QED
    BY <1>3, <2>5, <2>6 DEF Turn, OneTurn, ReaderMoves
<1> QED
  BY <1>1, <1>4, <1>5

LEMMA TurnErrs ==
  ASSUME ReaderType, NEW g \in Readers, rd[g].pc \in Busy, Errs(g)
  PROVE  OneTurn(g)
<1>1. PICK x \in Reader : Turn(g, x) /\ x.pc = "failed" /\ x.refused
  BY ReaderErrs
<1>2. GetErrs(g)
  BY <1>1 DEF Turn, GetErrs
<1> QED
  BY <1>1, <1>2 DEF Turn, OneTurn, ReaderMoves

LEMMA TurnDownload ==
  ASSUME TypeOK, ReaderType, NEW g \in Readers, Download(g)
  PROVE  OneTurn(g)
<1>1. rd[g].pc = "loading" /\ rd[g] \in Reader /\ rd[g].id \in Ids
  BY DEF Download, ReaderType, ReaderTypeOK, ReaderShape, Busy
<1>2. PICK c \in Idx :
        /\ rd[g].remote[c] # None
        /\ \/ ReaderBecomes(g, [rd[g] EXCEPT !.body[c] = rd[g].remote[c][1], !.remote[c] = None])
           \/ rd[g].remote[c] \notin blobs /\ Fails(g)
           \/ Errs(g)
  BY DEF Download
<1>3. CASE rd[g].remote[c] \notin blobs /\ Fails(g)
  <2>1. GetFails(g)
    BY <1>1, <1>2, <1>3, ReaderFails DEF GetFails
  <2> QED
    BY <1>3, <2>1, ReaderFails DEF Turn, OneTurn, ReaderMoves
<1>4. CASE ReaderBecomes(g, [rd[g] EXCEPT !.body[c] = rd[g].remote[c][1], !.remote[c] = None])
  <2> DEFINE p == rd[g].remote[c][1]
             z == rd[g]
             x == [z EXCEPT !.body[c] = p, !.remote[c] = None]
  <2>1. p \in Paths
    BY <1>1, <1>2 DEF Reader, Locators
  <2>2. /\ x \in Reader
        /\ x.pc = z.pc /\ x.id = z.id /\ x.seq = z.seq /\ x.data = z.data /\ x.todo = z.todo
        /\ x.body[c] = p /\ x.remote[c] = None
        /\ \A d \in Idx \ {c} : x.body[d] = z.body[d] /\ x.remote[d] = z.remote[d]
    <3>1. z \in Reader
      BY <1>1
    <3> HIDE DEF p, z
    <3> QED
      BY <2>1, <3>1 DEF Reader
  <2>3. ReaderBecomes(g, x) /\ p = rd[g].remote[c][1] /\ z = rd[g]
    BY <1>4
  <2> HIDE DEF x, z, p
  <2>4. Turn(g, x)
    BY <1>1, <2>2, <2>3, ReaderTurn
  <2>5. GetFetches(g, c)
    BY <1>1, <1>2, <2>2, <2>3, <2>4 DEF Turn, GetFetches, SameVersion
  <2> QED
    BY <2>4, <2>5 DEF Turn, OneTurn, ReaderMoves
<1>5. CASE Errs(g)
  BY <1>1, <1>5, TurnErrs DEF Busy
<1> QED
  BY <1>2, <1>3, <1>4, <1>5

LEMMA TurnAnswer ==
  ASSUME TypeOK, ReaderType, NEW g \in Readers, Answer(g)
  PROVE  OneTurn(g)
<1>1. rd[g].pc = "loading" /\ rd[g].remote = NoPart /\ rd[g] \in Reader
  BY DEF Answer, ReaderType, ReaderTypeOK
<1>2. CASE Fails(g) /\ \E c \in Idx : rd[g].body[c] # None /\ chunks[rd[g].id][c].state = "none"
  <2>1. GetFails(g)
    BY <1>1, <1>2, ReaderFails DEF GetFails
  <2> QED
    BY <1>2, <2>1, ReaderFails DEF Turn, OneTurn, ReaderMoves
<1>3. CASE ReaderBecomes(g, [ReaderAt("ok") EXCEPT !.data = rd[g].data, !.body = rd[g].body,
                                                   !.gone = Gone(g)])
  <2> DEFINE data == rd[g].data
             body == rd[g].body
             gone == Gone(g)
             x == [ReaderAt("ok") EXCEPT !.data = data, !.body = body, !.gone = gone]
  <2>1. /\ data \in Requests \cup {None} /\ body \in [Idx -> Paths \cup {None}]
        /\ gone \in BOOLEAN
    BY <1>1 DEF Reader, Gone
  <2>2. x \in Reader /\ x.pc = "ok" /\ x.data = data /\ x.body = body /\ x.gone = gone
    <3>1. ReaderAt("ok") \in Reader /\ ReaderAt("ok").pc = "ok"
      BY ReaderFresh
    <3> HIDE DEF data, body, gone
    <3> QED
      BY <2>1, <3>1 DEF Reader
  <2>3. ReaderBecomes(g, x) /\ data = rd[g].data /\ body = rd[g].body /\ gone = Gone(g)
    BY <1>3
  <2> HIDE DEF x, data, body, gone
  <2>4. Turn(g, x)
    BY <2>2, <2>3, ReaderTurn DEF Busy
  <2>5. GetAnswers(g)
    BY <1>1, <2>2, <2>3, <2>4 DEF Turn, GetAnswers
  <2> QED
    BY <2>4, <2>5 DEF Turn, OneTurn, ReaderMoves
<1> QED
  BY <1>2, <1>3 DEF Answer

LEMMA ReadersTurn ==
  ASSUME TypeOK, ReaderType, ReadersStep
  PROVE  vars' = vars /\ \E g \in Readers : OneTurn(g)
<1>1. PICK g \in Readers : ReaderStep(g) \/ NextGet(g) \/ (\E i \in Ids : BeginGet(g, i))
  BY DEF ReadersStep
<1>2. CASE NextGet(g)
  <2>1. ReaderAt("idle") \in Reader /\ ReaderAt("idle").pc = "idle"
    BY ReaderFresh
  <2>2. Turn(g, ReaderAt("idle"))
    BY <1>2, <2>1, ReaderTurn DEF NextGet, Busy
  <2>3. OneTurn(g)
    BY <2>1, <2>2 DEF Turn, OneTurn, ReaderMoves
  <2> QED
    BY <1>2, <2>3 DEF NextGet, ReaderBecomes
<1>3. CASE \E i \in Ids : BeginGet(g, i)
  BY <1>3, TurnBegin DEF BeginGet, ReaderBecomes
<1>4. CASE ReaderStep(g)
  <2>1. vars' = vars
    BY <1>4 DEF ReaderStep, LoadRows, ReadFile, FindLocator, Download, Answer, Proceed, Fails,
         QueryErrs, Errs, ReaderBecomes
  <2>2. ASSUME QueryErrs(g) PROVE OneTurn(g)
    BY <2>2, TurnErrs DEF QueryErrs, Busy
  <2>3. OneTurn(g)
    BY <1>4, <2>2, TurnLoad, TurnFile, TurnFind, TurnDownload, TurnAnswer DEF ReaderStep
  <2> QED
    BY <2>1, <2>3
<1> QED
  BY <1>1, <1>2, <1>3, <1>4

LEMMA ReaderTypeInit == ReadInit => ReaderType
<1>1. ReaderAt("idle") \in Reader /\ ReaderAt("idle").pc = "idle"
  BY ReaderFresh
<1> QED
  BY <1>1 DEF ReadInit, ReaderType, ReaderTypeOK, ReaderShape, Busy

LEMMA ReaderTypeStep == TypeInv /\ ReaderType /\ [ReadNext]_rvars => ReaderType'
<1> SUFFICES ASSUME TypeInv, ReaderType, [ReadNext]_rvars
             PROVE  ReaderType'
  OBVIOUS
<1>1. CASE ReadersStep
  BY <1>1, ReadersTurn DEF OneTurn, TypeInv
<1>2. CASE RestartAll
  <2>1. ReaderAt("idle") \in Reader /\ ReaderAt("idle").pc = "idle"
    BY ReaderFresh
  <2> QED
    BY <1>2, <2>1 DEF RestartAll, ReaderType, ReaderTypeOK, ReaderShape, Busy
<1>3. CASE PipelineStep \/ UNCHANGED rvars
  BY <1>3, PipelineStepIs DEF rvars, ReaderType, ReaderTypeOK, ReaderShape
<1> QED
  BY <1>1, <1>2, <1>3 DEF ReadNext

LEMMA ReaderTypeInvariant == ReadSpec => []ReaderType
<1>1. Spec => []TypeInv
  BY TypeInvariant
<1> QED
  BY <1>1, ReadSpecIsSpec, ReaderTypeInit, ReaderTypeStep, PTL DEF ReadSpec

\* The local variables of get_object, collect_version_parts and
\* download_remote_parts keep their types, for any number of GETs at once.
THEOREM ReadersTypeCorrect == ReadSpec => []ReaderTypeOK
<1>1. ReaderType => ReaderTypeOK
  BY DEF ReaderType
<1> QED
  BY <1>1, ReaderTypeInvariant, PTL

-----------------------------------------------------------------------------
(* What a reader holds *)

\* A version that is gone has no number, so that `seq` tells.
Unwritten == \A i \in Ids : objects[i].kind = "none" => objects[i].seq = 0

\* A row names a message once it is remote.
SentAreRemote == \A i \in Ids, c \in Idx : chunks[i][c].loc # None => chunks[i][c].state = "remote"

World == Inv /\ RowInv /\ Unwritten /\ SentAreRemote

\* Version i, if it is there at all, is the row that was read with number n.
Same(i, n) == /\ i \in Requests /\ req[i].pc = "closed"
              /\ n > 0
              /\ objects[i].kind # "none" => objects[i].kind = "data" /\ objects[i].seq = n

\* The row that was found; what is left to do of the rows that were read; and
\* the parts, of which none is lost, or there never was one.
HoldsVersion(g) ==
  rd[g].pc \in Busy => Same(rd[g].id, rd[g].seq) /\ rd[g].data = rd[g].id
HoldsNothing(g) == rd[g].remote = NoPart /\ rd[g].body = NoPart
HoldsRows(g) ==
  rd[g].pc = "reading" => \A c \in rd[g].todo : rd[g].rows[c].path \in {None, <<rd[g].id, c>>}
HoldsParts(g) ==
  rd[g].pc \in {"reading", "loading"} =>
    \/ objects[rd[g].id].kind = "none" /\ rd[g].todo = {} /\ HoldsNothing(g)
    \/ \A c \in Idx : \/ c \in rd[g].todo
                      \/ rd[g].body[c] = <<rd[g].id, c>>
                      \/ rd[g].remote[c] # None
HoldsLocators(g) ==
  rd[g].pc \in {"reading", "loading"} =>
    \A c \in Idx : rd[g].remote[c] # None =>
      /\ rd[g].remote[c][1] = <<rd[g].id, c>>
      /\ objects[rd[g].id].kind # "none" => rd[g].remote[c] \in blobs
Answers(g) ==
  rd[g].pc = "ok" => \/ \A c \in Idx : rd[g].body[c] = <<rd[g].data, c>>
                     \/ rd[g].gone /\ rd[g].body = NoPart

ReaderInv(g) ==
  /\ HoldsVersion(g)
  /\ rd[g].pc = "found" => HoldsNothing(g)
  /\ rd[g].pc = "loading" => rd[g].todo = {}
  /\ HoldsRows(g) /\ HoldsParts(g) /\ HoldsLocators(g)
  /\ Answers(g)
ReadersInv == \A g \in Readers : ReaderInv(g)

-----------------------------------------------------------------------------
(* What a step does to the version a reader holds *)

LEMMA VersionLeft ==
  ASSUME TypeOK, NEW i \in Ids, Keeps(i) \/ Drops(i)
  PROVE  /\ objects'[i].kind # "none" =>
              objects'[i].kind = objects[i].kind /\ objects'[i].seq = objects[i].seq
         /\ objects[i].kind = "none" => objects'[i] \in {objects[i], NoObject}
<1>1. objects[i] \in ObjectRow
  BY DEF TypeOK
<1>2. CASE Marks(i)
  BY <1>1, <1>2 DEF Marks, ObjectRow
<1> QED
  BY <1>2 DEF Keeps, Drops, NoObject

SameNext(i, n) == /\ req'[i].pc = "closed"
                  /\ objects'[i].kind # "none" => objects'[i].kind = "data" /\ objects'[i].seq = n
                  /\ objects[i].kind = "none" => objects'[i].kind = "none"

LEMMA SameStays ==
  ASSUME Inv, Moves
  PROVE  \A i, n : Same(i, n) => SameNext(i, n)
<1> SUFFICES ASSUME NEW i, NEW n, Same(i, n)
             PROVE  SameNext(i, n)
  OBVIOUS
<1>1. i \in Requests /\ req[i].pc = "closed" /\ i \in Ids
  BY DEF Same, Ids
<1>2. TypeInv /\ TypeOK /\ IdInv
  BY DEF Inv, JobInv, TypeInv, VersionInv
<1>3. Keeps(i) \/ Drops(i)
  BY <1>1, <1>2, OldVersion
<1>4. req'[i].pc = "closed"
  BY <1>1 DEF Moves, RequestsStayClosed
<1> QED
  BY <1>1, <1>2, <1>3, <1>4, VersionLeft DEF Same, SameNext, NoObject

LEMMA UnwrittenStep ==
  ASSUME Inv, Unwritten, Moves
  PROVE  Unwritten'
<1> SUFFICES ASSUME NEW i \in Ids, objects'[i].kind = "none"
             PROVE  objects'[i].seq = 0
  BY DEF Unwritten
<1>1. TypeOK /\ objects[i] \in ObjectRow
  BY DEF Inv, JobInv, TypeInv, TypeOK
<1>2. CASE Keeps(i)
  <2>1. objects'[i] = objects[i] \/ objects'[i] = [objects[i] EXCEPT !.remote = TRUE]
    BY <1>2 DEF Keeps, Marks
  <2>2. objects'[i].kind = objects[i].kind /\ objects'[i].seq = objects[i].seq
    BY <1>1, <2>1 DEF ObjectRow
  <2> QED
    BY <2>2 DEF Unwritten
<1>3. CASE Drops(i)
  BY <1>3 DEF Drops, NoObject
<1>4. CASE \E r \in Requests : Writes(r, i)
  BY <1>4 DEF Writes, PutWrites, CopyWrites, MarkWrites, Wrote
<1> QED
  BY <1>2, <1>3, <1>4 DEF Moves, TablesMove, VersionMoves

LEMMA SentRowsStep ==
  ASSUME Inv, SentAreRemote, Moves
  PROVE  SentAreRemote'
<1> SUFFICES ASSUME NEW i \in Ids, NEW c \in Idx, chunks'[i][c].loc # None
             PROVE  chunks'[i][c].state = "remote"
  BY DEF SentAreRemote
<1>1. chunks[i][c] \in ChunkRow /\ (chunks[i][c].loc # None => chunks[i][c].state = "remote")
  BY DEF Inv, JobInv, TypeInv, TypeOK, SentAreRemote
<1>2. CASE RowKeeps(i, c)
  <2>1. CASE Stores(i, c)
    BY <1>1, <2>1 DEF Stores, ChunkRow
  <2>2. CASE Clears(i, c)
    BY <1>1, <2>2 DEF Clears, ChunkRow
  <2>3. CASE Blanks(i, c)
    BY <1>1, <2>3 DEF Blanks, ChunkRow
  <2> QED
    BY <1>1, <1>2, <2>1, <2>2, <2>3 DEF RowKeeps
<1>3. CASE Drops(i)
  BY <1>3 DEF Drops, NoChunk
<1>4. CASE \E r \in Requests : Writes(r, i)
  <2> PICK r \in Requests : Writes(r, i)
    BY <1>4
  <2>1. PutWrites(r, i) \/ MarkWrites(r, i)
    BY DEF Writes, CopyWrites, Inv, StoreInv, NoCopies
  <2>2. chunks'[i][c] = NewRow(r, c) \/ chunks'[i][c] = NoChunk
    BY <2>1 DEF PutWrites, MarkWrites
  <2> QED
    BY <2>2, NewRowIs DEF NoChunk
<1> QED
  BY <1>2, <1>3, <1>4 DEF Moves, TablesMove, VersionMoves, Keeps

LEMMA WorldInvariant ==
  ASSUME SafeUse
  PROVE  Spec => []World
<1>1. Init => Unwritten /\ SentAreRemote
  BY DEF Init, Unwritten, SentAreRemote, NoObject, NoChunk
<1>2. Inv /\ Unwritten /\ SentAreRemote /\ [Next]_vars => Unwritten' /\ SentAreRemote'
  BY EveryMove, UnwrittenStep, SentRowsStep DEF Inv, JobInv
<1>3. Spec => []Inv
  BY StoreInvariant
<1> QED
  BY <1>1, <1>2, <1>3, RowInvariant, PTL DEF Spec, World

-----------------------------------------------------------------------------
(* What it holds stays good, whatever the pipeline does *)

LEMMA PipelineKeeps ==
  ASSUME World, [Next]_vars, rd' = rd, NEW g \in Readers, ReaderInv(g)
  PROVE  ReaderInv(g)'
<1>1. Inv /\ TypeInv /\ IdInv
  BY DEF World, Inv, JobInv, VersionInv
<1>2. Moves /\ BlobsMove
  BY <1>1, EveryMove, EveryBlobMove
<1> DEFINE i == rd[g].id
           n == rd[g].seq
<1>3. rd[g].pc \in Busy => /\ i \in Requests /\ n > 0
                           /\ SameNext(i, n)
  BY <1>1, <1>2, SameStays DEF ReaderInv, HoldsVersion, Same
<1>4. HoldsVersion(g)'
  BY <1>3 DEF ReaderInv, HoldsVersion, Same, SameNext
<1>5. HoldsParts(g)'
  BY <1>3 DEF ReaderInv, HoldsParts, HoldsNothing, SameNext, Busy
<1>6. HoldsLocators(g)'
  <2> SUFFICES ASSUME rd[g].pc \in {"reading", "loading"}, NEW c \in Idx, rd[g].remote[c] # None
               PROVE  /\ rd[g].remote[c][1] = <<rd[g].id, c>>
                      /\ objects'[rd[g].id].kind # "none" => rd[g].remote[c] \in blobs'
    BY DEF HoldsLocators
  <2> DEFINE l == rd[g].remote[c]
  <2>1. l[1] = <<i, c>> /\ (objects[i].kind # "none" => l \in blobs)
    BY DEF ReaderInv, HoldsLocators
  <2>2. l[1][1] = i
    BY <2>1
  <2>3. ASSUME objects'[i].kind # "none"
        PROVE  l \in blobs'
    <3>1. objects[i].kind # "none"
      BY <1>3, <2>3 DEF SameNext, Busy
    <3> QED
      BY <1>1, <1>2, <2>1, <2>2, <3>1, BlobStays
  <2> QED
    BY <2>1, <2>3
<1> QED
  BY <1>4, <1>5, <1>6 DEF ReaderInv, HoldsNothing, HoldsRows, Answers

-----------------------------------------------------------------------------
(* And so does its own turn *)

LEMMA KeepsBegin ==
  ASSUME World, UNCHANGED vars, NEW g \in Readers, GetBegins(g)
  PROVE  ReaderInv(g)'
<1>1. PICK i \in Ids : /\ objects[i].kind = "data"
                       /\ rd'[g].id = i /\ rd'[g].seq = objects[i].seq
                       /\ rd'[g].data = objects[i].data
  BY DEF GetBegins
<1>2. i \in Requests /\ req[i].pc = "closed" /\ objects[i].data = i
  BY <1>1 DEF World, Inv, VersionInv, IdInv, NullIsMarker, IdsOfClosed, StoreInv, WholeData, Ids
<1>3. objects[i].seq > 0
  BY <1>1 DEF World, RowInv, SeqInv
<1>4. req' = req /\ objects' = objects
  BY DEF vars, tables
<1>5. rd'[g].pc = "found" /\ rd'[g].remote = NoPart /\ rd'[g].body = NoPart
  BY DEF GetBegins
<1> QED
  BY <1>1, <1>2, <1>3, <1>4, <1>5
     DEF ReaderInv, HoldsVersion, HoldsNothing, HoldsRows, HoldsParts, HoldsLocators, Answers, Same

\* The version as it was found, and the chunk rows of it as they are now.
LEMMA HeldVersion ==
  ASSUME World, NEW g \in Readers, ReaderInv(g), rd[g].pc \in Busy
  PROVE  /\ Same(rd[g].id, rd[g].seq) /\ rd[g].data = rd[g].id
         /\ rd[g].id \in Ids
         /\ objects[rd[g].id].kind = "none" => Gone(g)
         /\ \A c \in Idx : /\ chunks[rd[g].id][c].state = "none" <=> objects[rd[g].id].kind = "none"
                           /\ chunks[rd[g].id][c].path \in {None, <<rd[g].id, c>>}
<1> DEFINE i == rd[g].id
<1>1. Same(i, rd[g].seq) /\ rd[g].data = i
  BY DEF ReaderInv, HoldsVersion
<1>2. i \in Ids
  BY <1>1 DEF Same, Ids
<1>3. objects[i].kind = "none" => Gone(g)
  <2>1. objects[i].kind = "none" => objects[i].seq = 0
    BY <1>2 DEF World, Unwritten
  <2>2. rd[g].seq > 0
    BY <1>1 DEF Same
  <2>3. ~(0 > 0)
    OBVIOUS
  <2> QED
    BY <2>1, <2>2, <2>3 DEF Gone
<1>4. ASSUME NEW c \in Idx
      PROVE  /\ chunks[i][c].state = "none" <=> objects[i].kind = "none"
             /\ chunks[i][c].path \in {None, <<i, c>>}
  <2>1. objects[i].kind # "none" => objects[i].kind = "data"
    BY <1>1 DEF Same
  <2>2. objects[i].kind = "data" => chunks[i][c].state # "none"
    BY <1>2 DEF World, Inv, StoreInv, WholeData
  <2> QED
    BY <1>2, <2>1, <2>2, RowOwner DEF World
<1> QED
  BY <1>1, <1>2, <1>3, <1>4

LEMMA KeepsLoad ==
  ASSUME World, UNCHANGED vars, NEW g \in Readers, ReaderInv(g), GetLoads(g)
  PROVE  ReaderInv(g)'
<1> DEFINE i == rd[g].id
<1>1. /\ Same(i, rd[g].seq) /\ rd[g].data = i /\ i \in Ids
      /\ \A c \in Idx : /\ chunks[i][c].state = "none" <=> objects[i].kind = "none"
                        /\ chunks[i][c].path \in {None, <<i, c>>}
  BY HeldVersion DEF GetLoads, Busy
<1>2. /\ rd'[g].id = i /\ rd'[g].seq = rd[g].seq /\ rd'[g].data = i
      /\ rd'[g].pc = IF rd'[g].todo = {} THEN "loading" ELSE "reading"
      /\ rd'[g].rows = chunks[i] /\ rd'[g].todo = {c \in Idx : chunks[i][c].state # "none"}
      /\ rd'[g].remote = NoPart /\ rd'[g].body = NoPart
  BY <1>1 DEF GetLoads, SameVersion, SameParts, NextPc, ReaderInv, HoldsNothing
<1>3. objects' = objects /\ req' = req
  BY DEF vars, tables
<1>4. HoldsVersion(g)'
  BY <1>1, <1>2, <1>3 DEF HoldsVersion, Same
<1>5. HoldsRows(g)'
  BY <1>1, <1>2 DEF HoldsRows
<1>6. HoldsParts(g)'
  <2>1. CASE objects[i].kind = "none"
    <3>1. rd'[g].todo = {}
      BY <1>1, <1>2, <2>1
    <3> QED
      BY <1>2, <1>3, <2>1, <3>1 DEF HoldsParts, HoldsNothing
  <2>2. CASE objects[i].kind # "none"
    BY <1>1, <1>2, <2>2 DEF HoldsParts
  <2> QED
    BY <2>1, <2>2
<1>7. HoldsLocators(g)'
  BY <1>2 DEF HoldsLocators, NoPart
<1> QED
  BY <1>2, <1>4, <1>5, <1>6, <1>7 DEF ReaderInv, Answers

LEMMA KeepsTake ==
  ASSUME World, ReaderType, UNCHANGED vars, NEW g \in Readers, ReaderInv(g),
         NEW c \in Idx, GetTakes(g, c)
  PROVE  ReaderInv(g)'
<1> DEFINE i == rd[g].id
<1>1. /\ Same(i, rd[g].seq) /\ rd[g].data = i /\ i \in Ids
      /\ chunks[i][c].state = "none" <=> objects[i].kind = "none"
  BY HeldVersion DEF GetTakes, Busy
<1>2. /\ rd[g].pc = "reading" /\ c \in rd[g].todo
      /\ rd'[g].id = i /\ rd'[g].seq = rd[g].seq /\ rd'[g].data = i
      /\ rd'[g].pc = IF rd'[g].todo = {} THEN "loading" ELSE "reading"
      /\ rd'[g].todo = rd[g].todo \ {c}
      /\ \A d \in Idx \ {c} : /\ rd'[g].rows[d] = rd[g].rows[d]
                              /\ rd'[g].body[d] = rd[g].body[d]
                              /\ rd'[g].remote[d] = rd[g].remote[d]
  BY <1>1 DEF GetTakes, SameVersion, NextPc
<1>3. objects' = objects /\ req' = req /\ blobs' = blobs
  BY DEF vars, tables, stores
<1>4. HoldsVersion(g)'
  BY <1>1, <1>2, <1>3 DEF HoldsVersion, Same
<1>5. HoldsRows(g)'
  <2>1. rd[g].todo \subseteq Idx
    BY DEF ReaderType, ReaderTypeOK, Reader
  <2> QED
    BY <1>2, <2>1 DEF HoldsRows, ReaderInv
<1>6. \A d \in Idx : d \in rd[g].todo \/ rd[g].body[d] = <<i, d>> \/ rd[g].remote[d] # None
  BY <1>2 DEF ReaderInv, HoldsParts
<1>7. \A d \in Idx : rd[g].remote[d] # None =>
        /\ rd[g].remote[d][1] = <<i, d>>
        /\ objects[i].kind # "none" => rd[g].remote[d] \in blobs
  BY <1>2 DEF ReaderInv, HoldsLocators
<1>8. CASE /\ InSpool(g, c)
           /\ rd'[g].body[c] = rd[g].rows[c].path /\ rd'[g].remote[c] = rd[g].remote[c]
  <2>1. rd'[g].body[c] = <<i, c>>
    BY <1>2, <1>8 DEF ReaderInv, HoldsRows, InSpool
  <2>2. \A d \in Idx : \/ d \in rd'[g].todo
                       \/ rd'[g].body[d] = <<i, d>>
                       \/ rd'[g].remote[d] # None
    BY <1>2, <1>6, <2>1
  <2>3. HoldsParts(g)'
    BY <1>2, <2>2 DEF HoldsParts
  <2>4. HoldsLocators(g)'
    BY <1>2, <1>3, <1>7, <1>8 DEF HoldsLocators
  <2> QED
    BY <1>2, <1>4, <1>5, <2>3, <2>4 DEF ReaderInv, Answers
<1>9. CASE /\ chunks[i][c].loc # None
           /\ rd'[g].body[c] = rd[g].body[c] /\ rd'[g].remote[c] = chunks[i][c].loc
  <2>1. chunks[i][c].loc[1] = <<i, c>> /\ chunks[i][c].state = "remote"
    BY <1>1, <1>9, RowOwner DEF World, SentAreRemote
  <2>2. chunks[i][c].loc \in blobs
    BY <1>1, <2>1 DEF World, Inv, StoreInv, RemoteIsStored
  <2>3. \A d \in Idx : \/ d \in rd'[g].todo
                       \/ rd'[g].body[d] = <<i, d>>
                       \/ rd'[g].remote[d] # None
    BY <1>2, <1>6, <1>9
  <2>4. HoldsParts(g)'
    BY <1>2, <2>3 DEF HoldsParts
  <2>5. HoldsLocators(g)'
    BY <1>2, <1>3, <1>7, <1>9, <2>1, <2>2 DEF HoldsLocators
  <2> QED
    BY <1>2, <1>4, <1>5, <2>4, <2>5 DEF ReaderInv, Answers
<1> QED
  BY <1>8, <1>9 DEF GetTakes

LEMMA KeepsFetch ==
  ASSUME World, UNCHANGED vars, NEW g \in Readers, ReaderInv(g), NEW c \in Idx, GetFetches(g, c)
  PROVE  ReaderInv(g)'
<1> DEFINE i == rd[g].id
<1>1. /\ rd[g].pc = "loading" /\ rd'[g].pc = "loading"
      /\ rd'[g].id = i /\ rd'[g].seq = rd[g].seq /\ rd'[g].data = rd[g].data
      /\ rd'[g].todo = rd[g].todo
      /\ rd[g].remote[c] # None
      /\ \A d \in Idx \ {c} : /\ rd'[g].body[d] = rd[g].body[d]
                              /\ rd'[g].remote[d] = rd[g].remote[d]
      /\ rd'[g].body[c] = rd[g].remote[c][1] /\ rd'[g].remote[c] = None
  BY DEF GetFetches, SameVersion
<1>2. objects' = objects /\ req' = req /\ blobs' = blobs
  BY DEF vars, tables, stores
<1>3. HoldsVersion(g)' /\ rd'[g].todo = {}
  BY <1>1, <1>2 DEF ReaderInv, HoldsVersion, Same, Busy
<1>4. \A d \in Idx : rd[g].body[d] = <<i, d>> \/ rd[g].remote[d] # None
  BY <1>1 DEF ReaderInv, HoldsParts, HoldsNothing, NoPart
<1>5. \A d \in Idx : rd[g].remote[d] # None =>
        /\ rd[g].remote[d][1] = <<i, d>>
        /\ objects[i].kind # "none" => rd[g].remote[d] \in blobs
  BY <1>1 DEF ReaderInv, HoldsLocators
<1>6. \A d \in Idx : rd'[g].body[d] = <<i, d>> \/ rd'[g].remote[d] # None
  BY <1>1, <1>4, <1>5
<1>7. HoldsParts(g)'
  BY <1>1, <1>6 DEF HoldsParts
<1>8. HoldsLocators(g)'
  BY <1>1, <1>2, <1>5 DEF HoldsLocators
<1> QED
  BY <1>1, <1>3, <1>7, <1>8 DEF ReaderInv, HoldsRows, Answers

LEMMA KeepsAnswer ==
  ASSUME World, UNCHANGED vars, NEW g \in Readers, ReaderInv(g), GetAnswers(g)
  PROVE  ReaderInv(g)'
<1>1. /\ rd[g].pc = "loading" /\ rd'[g].pc = "ok"
      /\ rd[g].remote = NoPart
      /\ rd'[g].data = rd[g].data /\ rd'[g].body = rd[g].body
      /\ rd'[g].gone = Gone(g)
  BY DEF GetAnswers
<1>2. /\ rd[g].data = rd[g].id
      /\ objects[rd[g].id].kind = "none" => Gone(g)
  BY <1>1, HeldVersion DEF Busy
<1>3. \A c \in Idx : c \notin rd[g].todo /\ rd[g].remote[c] = None
  BY <1>1 DEF ReaderInv, NoPart
<1>4. \/ objects[rd[g].id].kind = "none" /\ rd[g].body = NoPart
      \/ \A c \in Idx : rd[g].body[c] = <<rd[g].id, c>>
  BY <1>1, <1>3 DEF ReaderInv, HoldsParts, HoldsNothing
<1>5. Answers(g)'
  BY <1>1, <1>2, <1>4 DEF Answers
<1> QED
  BY <1>1, <1>5 DEF ReaderInv, HoldsVersion, HoldsRows, HoldsParts, HoldsLocators, Busy

LEMMA ReadersInit == ReadInit => ReadersInv
<1>1. ReaderAt("idle").pc = "idle"
  BY ReaderFresh
<1> QED
  BY <1>1 DEF ReadInit, ReadersInv, ReaderInv, HoldsVersion, HoldsRows, HoldsParts, HoldsLocators,
       Answers, Busy

LEMMA ReaderRests ==
  ASSUME NEW g \in Readers, rd'[g].pc \in {"idle", "failed"}
  PROVE  ReaderInv(g)'
  BY DEF ReaderInv, HoldsVersion, HoldsRows, HoldsParts, HoldsLocators, Answers, Busy

LEMMA ReadersKeep ==
  ASSUME World, TypeOK, ReaderType, ReadersInv, ReadersStep
  PROVE  ReadersInv'
<1>1. vars' = vars
  BY ReadersTurn
<1>2. PICK g \in Readers : OneTurn(g)
  BY ReadersTurn
<1>3. ASSUME NEW h \in Readers, rd'[h] = rd[h]
      PROVE  ReaderInv(h)'
  <2>1. objects' = objects /\ req' = req /\ blobs' = blobs
    BY <1>1 DEF vars, tables, stores
  <2>2. ReaderInv(h)
    BY DEF ReadersInv
  <2> QED
    BY <1>3, <2>1, <2>2 DEF ReaderInv, HoldsVersion, HoldsNothing, HoldsRows, HoldsParts,
         HoldsLocators, Answers, Same
<1>4. ReaderInv(g)'
  <2>1. ReaderInv(g)
    BY DEF ReadersInv
  <2>2. CASE rd'[g].pc = "idle" \/ GetFails(g) \/ GetErrs(g)
    BY <2>2, ReaderRests DEF GetFails, GetErrs
  <2> QED
    BY <1>1, <1>2, <1>3, <2>1, <2>2, KeepsBegin, KeepsLoad, KeepsTake, KeepsFetch, KeepsAnswer
       DEF OneTurn, ReaderMoves
<1> QED
  BY <1>2, <1>3, <1>4 DEF ReadersInv, OneTurn

LEMMA ReadersInvStep == World /\ TypeInv /\ ReaderType /\ ReadersInv /\ [ReadNext]_rvars => ReadersInv'
<1> SUFFICES ASSUME World, TypeInv, ReaderType, ReadersInv, [ReadNext]_rvars
             PROVE  ReadersInv'
  OBVIOUS
<1>1. CASE ReadersStep
  BY <1>1, ReadersKeep DEF TypeInv
<1>2. CASE RestartAll
  <2>1. ReaderAt("idle").pc = "idle"
    BY ReaderFresh
  <2>2. \A g \in Readers : rd'[g].pc = "idle"
    BY <1>2, <2>1 DEF RestartAll
  <2> QED
    BY <2>2, ReaderRests DEF ReadersInv
<1>3. CASE PipelineStep \/ UNCHANGED rvars
  <2>1. [Next]_vars /\ rd' = rd
    BY <1>3, PipelineStepIs DEF rvars
  <2> QED
    BY <2>1, PipelineKeeps DEF ReadersInv
<1> QED
  BY <1>1, <1>2, <1>3 DEF ReadNext

\* What a GET has read is good for the answer it will give: the rows name the
\* bytes of the version it found, no part is lost, and the messages it is to
\* download are there as long as that version is.
THEOREM ReadersInvariant ==
  ASSUME SafeUse
  PROVE  ReadSpec => []ReadersInv
<1>1. Spec => []World
  BY WorldInvariant
<1>2. Spec => []TypeInv
  BY TypeInvariant
<1> QED
  BY <1>1, <1>2, ReadSpecIsSpec, ReaderTypeInvariant, ReadersInit, ReadersInvStep, PTL DEF ReadSpec

\* get_object: a 200 is the whole of one write, or an empty body if its version
\* was dropped meanwhile; never a part of an object or bytes of two.
THEOREM AnswersAreWhole ==
  ASSUME SafeUse
  PROVE  ReadSpec => []WholeOrGone
<1>1. ReadersInv => WholeOrGone
  BY DEF ReadersInv, ReaderInv, Answers, WholeOrGone
<1> QED
  BY <1>1, ReadersInvariant, PTL

LEMMA WhyItFails ==
  ASSUME World, NEW g \in Readers, rd[g] \in Reader, ReaderInv(g), GetFails(g)
  PROVE  Gone(g) \/ \E c \in rd[g].todo : chunks[rd[g].id][c] # rd[g].rows[c]
<1> DEFINE i == rd[g].id
<1>1. PICK c \in Idx :
       \/ /\ rd[g].pc = "reading" /\ c \in rd[g].todo
          /\ ~InSpool(g, c)
          /\ rd[g].rows[c].state # "remote" \/ chunks[i][c].loc = None
       \/ /\ rd[g].pc = "loading"
          /\ rd[g].remote[c] # None /\ rd[g].remote[c] \notin blobs
       \/ /\ rd[g].pc = "loading"
          /\ rd[g].body[c] # None /\ chunks[i][c].state = "none"
  BY DEF GetFails
<1>2. /\ i \in Ids
      /\ objects[i].kind = "none" => Gone(g)
      /\ chunks[i][c].state = "none" <=> objects[i].kind = "none"
  BY <1>1, HeldVersion DEF Busy
<1>3. CASE rd[g].pc = "loading"
  BY <1>1, <1>2, <1>3 DEF ReaderInv, HoldsLocators
<1>4. CASE rd[g].pc = "reading"
  <2> SUFFICES ASSUME chunks[i][c] = rd[g].rows[c], chunks[i][c].state # "none"
               PROVE  FALSE
    BY <1>1, <1>2, <1>4
  <2>1. chunks[i][c] \in ChunkRow
    BY <1>2 DEF World, Inv, JobInv, TypeInv, TypeOK
  <2>2. CASE chunks[i][c].state = "pending"
    <3>1. <<i, c>> \in spool /\ chunks[i][c].path = <<i, c>>
      BY <1>2, <2>2 DEF World, Inv, StoreInv, PendingStored, IsPending
    <3>2. <<i, c>> # None
      BY <1>2, <3>1, PipelineAssumption DEF World, Inv, JobInv, TypeInv, TypeOK, Paths, Idx
    <3> QED
      BY <1>1, <1>4, <3>1, <3>2 DEF InSpool
  <2>3. CASE chunks[i][c].state = "remote"
    <3>1. chunks[i][c].loc \in blobs
      BY <1>2, <2>3 DEF World, Inv, StoreInv, RemoteIsStored
    <3>2. chunks[i][c].loc # None
      BY <3>1, PipelineAssumption DEF World, Inv, JobInv, TypeInv, TypeOK, Locators, Paths, Idx
    <3> QED
      BY <1>1, <1>4, <2>3, <3>2
  <2> QED
    BY <2>1, <2>2, <2>3 DEF ChunkRow
<1> QED
  BY <1>1, <1>3, <1>4

LEMMA FailureStep ==
  World /\ TypeInv /\ ReaderType /\ ReadersInv /\ [ReadNext]_rvars =>
    [\A g \in Readers :
       rd[g].pc # "failed" /\ rd'[g].pc = "failed" =>
         \/ Gone(g)
         \/ \E c \in rd[g].todo : chunks[rd[g].id][c] # rd[g].rows[c]
         \/ rd'[g].refused]_rvars
<1> SUFFICES ASSUME World, TypeInv, ReaderType, ReadersInv, [ReadNext]_rvars,
                    NEW g \in Readers, rd[g].pc # "failed", rd'[g].pc = "failed"
             PROVE  \/ Gone(g)
                    \/ \E c \in rd[g].todo : chunks[rd[g].id][c] # rd[g].rows[c]
                    \/ rd'[g].refused
  OBVIOUS
<1>1. rd[g] \in Reader /\ ReaderInv(g)
  BY DEF ReaderType, ReaderTypeOK, ReadersInv
<1>2. CASE ReadersStep
  <2>1. PICK h \in Readers : OneTurn(h)
    BY <1>2, ReadersTurn DEF TypeInv
  <2>2. ReaderMoves(g)
    BY <2>1 DEF OneTurn
  <2>3. GetFails(g) \/ GetErrs(g)
    BY <2>2 DEF ReaderMoves, GetBegins, GetLoads, GetTakes, GetFetches, GetAnswers, NextPc
  <2> QED
    BY <1>1, <2>3, WhyItFails DEF GetErrs
<1>3. CASE RestartAll
  <2>1. rd'[g].pc = "idle"
    BY <1>3, ReaderFresh DEF RestartAll
  <2> QED
    BY <2>1
<1>4. CASE PipelineStep \/ UNCHANGED rvars
  BY <1>4, PipelineStepIs DEF rvars
<1> QED
  BY <1>2, <1>3, <1>4 DEF ReadNext

\* A GET fails only if its version was dropped, a row it has yet to look at has
\* moved on since it was read, or one of its own queries or downloads was refused:
\* never for want of a file or a message.
THEOREM FailuresAreOvertakings ==
  ASSUME SafeUse
  PROVE  ReadSpec => FailsOnlyIfOvertaken
<1>1. Spec => []World
  BY WorldInvariant
<1>2. Spec => []TypeInv
  BY TypeInvariant
<1>3. ReadSpec => []ReadersInv
  BY ReadersInvariant
<1> QED
  BY <1>1, <1>2, <1>3, ReadSpecIsSpec, ReaderTypeInvariant, FailureStep, PTL
     DEF ReadSpec, FailsOnlyIfOvertaken

-----------------------------------------------------------------------------
(* The export *)

RecordType == [kind : {"none", "data", "marker"}, data : Requests \cup {None}, seq : Nat]
ExportType ==
  ex \in [pc : {"idle", "objects", "exported", "imported", "refused"},
          objects : [Ids -> RecordType], chunks : [Ids -> [Idx -> ChunkRow]], gone : SUBSET Ids]

\* Between its two queries: what the first has read, or it is gone.
ObjectsRead ==
  ex.pc = "objects" => \A i \in Ids :
    /\ ex.objects[i].kind = "none" => ex.objects[i].seq = 0
    /\ ex.objects[i].kind = "data" => Same(i, ex.objects[i].seq) /\ ex.objects[i].data = i

\* After them: the chunks of a version are all there or none is, and those of no
\* version are of one that came between.
BundleWhole ==
  ex.pc = "exported" => \A i \in Ids : ex.objects[i].kind = "data" =>
    \/ \A c \in Idx : Names(i, c)
    \/ i \in ex.gone /\ ex.chunks[i] = NoChunkRows[i]
BundleClosed ==
  ex.pc = "exported" => \A i \in Ids, c \in Idx :
    ex.chunks[i][c].state # "none" /\ ex.objects[i].kind = "none" => i \in ex.gone

ExportInv == ExportType /\ ObjectsRead /\ BundleWhole /\ BundleClosed

LEMMA RecordIs ==
  ASSUME NEW o \in ObjectRow
  PROVE  /\ Record(o) \in RecordType
         /\ Record(o).kind = o.kind /\ Record(o).data = o.data /\ Record(o).seq = o.seq
  BY DEF Record, RecordType, ObjectRow

LEMMA ExportFresh ==
  ASSUME NEW pc \in {"idle", "objects", "imported", "refused"}
  PROVE  /\ ExportAt(pc) \in [pc : {"idle", "objects", "exported", "imported", "refused"},
                              objects : [Ids -> RecordType], chunks : [Ids -> [Idx -> ChunkRow]],
                              gone : SUBSET Ids]
         /\ ExportAt(pc).pc = pc
<1>1. NoObject \in ObjectRow /\ NoChunk \in ChunkRow
  BY FreshRecords
<1>2. Record(NoObject) \in RecordType
  BY <1>1, RecordIs
<1> QED
  BY <1>1, <1>2 DEF ExportAt, NoRecords, NoChunkRows

LEMMA ExportStarts ==
  ASSUME World, ReadObjects
  PROVE  ExportInv'
<1> DEFINE records == [i \in Ids |-> Record(objects[i])]
           x == [ExportAt("objects") EXCEPT !.objects = records]
<1>1. ex' = x /\ objects' = objects /\ req' = req
  BY DEF ReadObjects, ExportBecomes, rvars, vars, tables
<1>2. \A i \in Ids : /\ objects[i] \in ObjectRow
                     /\ Record(objects[i]) \in RecordType
                     /\ Record(objects[i]).kind = objects[i].kind
                     /\ Record(objects[i]).data = objects[i].data
                     /\ Record(objects[i]).seq = objects[i].seq
  BY RecordIs DEF World, Inv, JobInv, TypeInv, TypeOK
<1>3. /\ records \in [Ids -> RecordType]
      /\ \A i \in Ids : /\ records[i].kind = objects[i].kind
                        /\ records[i].data = objects[i].data
                        /\ records[i].seq = objects[i].seq
  BY <1>2
<1> HIDE DEF records
<1>4. /\ x \in [pc : {"idle", "objects", "exported", "imported", "refused"},
                objects : [Ids -> RecordType], chunks : [Ids -> [Idx -> ChunkRow]],
                gone : SUBSET Ids]
      /\ x.pc = "objects" /\ x.objects = records
  BY <1>3, ExportFresh
<1> HIDE DEF x
<1>5. ExportType'
  BY <1>1, <1>4 DEF ExportType
<1>6. \A i \in Ids : /\ objects[i].kind = "none" => objects[i].seq = 0
                     /\ objects[i].kind = "data" => Same(i, objects[i].seq) /\ objects[i].data = i
  BY DEF World, Unwritten, RowInv, SeqInv, Inv, VersionInv, IdInv, NullIsMarker, IdsOfClosed,
     StoreInv, WholeData, Same, Ids
<1>7. ObjectsRead'
  BY <1>1, <1>3, <1>4, <1>6 DEF ObjectsRead, Same
<1> QED
  BY <1>1, <1>4, <1>5, <1>7 DEF ExportInv, BundleWhole, BundleClosed

\* The rows of a version that is there name its bytes; of one that is gone there
\* are none.
LEMMA NamedRows ==
  ASSUME World, NEW i \in Requests, NEW c \in Idx, objects[i].kind = "data"
  PROVE  /\ chunks[i][c].path # None \/ chunks[i][c].loc # None
         /\ chunks[i][c].path # None => chunks[i][c].path = <<i, c>>
         /\ chunks[i][c].loc # None => chunks[i][c].loc[1] = <<i, c>>
<1>1. i \in Ids /\ chunks[i][c] \in ChunkRow /\ chunks[i][c].state # "none"
  BY DEF World, Inv, JobInv, TypeInv, TypeOK, StoreInv, WholeData, Ids
<1>2. CASE chunks[i][c].state = "pending"
  <2>1. chunks[i][c].path = <<i, c>>
    BY <1>1, <1>2 DEF World, Inv, StoreInv, PendingStored, IsPending
  <2>2. <<i, c>> # None
    BY PipelineAssumption DEF Idx
  <2> QED
    BY <1>1, <2>1, <2>2, RowOwner DEF World
<1>3. CASE chunks[i][c].state = "remote"
  <2>1. chunks[i][c].loc \in Locators
    BY <1>1, <1>3 DEF World, Inv, StoreInv, RemoteIsStored, JobInv, TypeInv, TypeOK
  <2>2. None \notin Locators
    BY PipelineAssumption DEF Locators, Paths, Idx
  <2> QED
    BY <1>1, <2>1, <2>2, RowOwner DEF World
<1> QED
  BY <1>1, <1>2, <1>3 DEF ChunkRow

LEMMA NoRowsLeft ==
  ASSUME World, NEW i \in Ids, objects[i].kind = "none"
  PROVE  chunks[i] = NoChunkRows[i]
<1>1. ASSUME NEW c \in Idx
      PROVE  chunks[i][c] = NoChunk
  <2>1. chunks[i][c] \in ChunkRow /\ chunks[i][c].state = "none"
    BY RowOwner DEF World, Inv, JobInv, TypeInv, TypeOK
  <2>2. chunks[i][c].path = None /\ chunks[i][c].loc = None
    BY <2>1 DEF World, Inv, VersionInv, IdInv, EmptyRows
  <2> QED
    BY <2>1, <2>2 DEF ChunkRow, NoChunk
<1>2. chunks[i] \in [Idx -> ChunkRow]
  BY DEF World, Inv, JobInv, TypeInv, TypeOK
<1> QED
  BY <1>1, <1>2 DEF NoChunkRows

LEMMA ExportEnds ==
  ASSUME World, ExportInv, ReadChunks
  PROVE  ExportInv'
<1> DEFINE rows == chunks
           dropped == Dropped
           x == [ex EXCEPT !.pc = "exported", !.chunks = rows, !.gone = dropped]
<1>1. ex' = x /\ ex.pc = "objects"
  BY DEF ReadChunks, ExportBecomes
<1>2. rows \in [Ids -> [Idx -> ChunkRow]] /\ dropped \in SUBSET Ids
  BY DEF World, Inv, JobInv, TypeInv, TypeOK, Dropped
<1>3. /\ x \in [pc : {"idle", "objects", "exported", "imported", "refused"},
                objects : [Ids -> RecordType], chunks : [Ids -> [Idx -> ChunkRow]],
                gone : SUBSET Ids]
      /\ x.pc = "exported" /\ x.objects = ex.objects /\ x.chunks = rows /\ x.gone = dropped
  <2>1. ExportType
    BY DEF ExportInv
  <2> HIDE DEF rows, dropped
  <2> QED
    BY <1>2, <2>1 DEF ExportType
<1>4. \A i \in Ids : i \in dropped <=> objects[i].seq # ex.objects[i].seq
  BY DEF Dropped
<1>5. rows = chunks
  OBVIOUS
<1> HIDE DEF x, rows, dropped
<1>6. ASSUME NEW i \in Ids, ex.objects[i].kind = "data"
      PROVE  \/ \A c \in Idx : Names(i, c)'
             \/ i \in dropped /\ chunks[i] = NoChunkRows[i]
  <2>1. Same(i, ex.objects[i].seq) /\ ex.objects[i].data = i
    BY <1>1, <1>6 DEF ExportInv, ObjectsRead
  <2>2. CASE objects[i].kind = "none"
    <3>1. objects[i].seq = 0 /\ ex.objects[i].seq > 0
      BY <2>1, <2>2 DEF World, Unwritten, Same
    <3>2. ~(0 > 0)
      OBVIOUS
    <3> QED
      BY <1>4, <2>2, <3>1, <3>2, NoRowsLeft
  <2>3. CASE objects[i].kind # "none"
    <3>1. i \in Requests /\ objects[i].kind = "data"
      BY <2>1, <2>3 DEF Same
    <3> QED
      BY <1>1, <1>3, <1>5, <2>1, <3>1, NamedRows DEF Names
  <2> QED
    BY <2>2, <2>3
<1>7. BundleWhole'
  BY <1>1, <1>3, <1>5, <1>6 DEF BundleWhole, NoChunkRows
<1>8. ASSUME NEW i \in Ids, NEW c \in Idx, chunks[i][c].state # "none", ex.objects[i].kind = "none"
      PROVE  i \in dropped
  <2>1. objects[i].seq > 0
    BY <1>8, RowOwner DEF World, RowInv, SeqInv
  <2>2. ex.objects[i].seq = 0 /\ ~(0 > 0)
    BY <1>1, <1>8 DEF ExportInv, ObjectsRead
  <2> QED
    BY <1>4, <2>1, <2>2
<1>9. BundleClosed'
  BY <1>1, <1>3, <1>5, <1>8 DEF BundleClosed
<1>10. ExportType' /\ ObjectsRead'
  BY <1>1, <1>3 DEF ExportType, ObjectsRead
<1> QED
  BY <1>7, <1>9, <1>10 DEF ExportInv

LEMMA ExportWaits ==
  ASSUME Inv, Moves, ExportInv, ex' = ex
  PROVE  ExportInv'
<1>1. \A i, n : Same(i, n) => SameNext(i, n)
  BY SameStays
<1>2. ObjectsRead'
  BY <1>1 DEF ExportInv, ObjectsRead, Same, SameNext
<1> QED
  BY <1>2 DEF ExportInv, ExportType, BundleWhole, BundleClosed, Names

LEMMA ExportRests ==
  ASSUME NEW pc \in {"idle", "imported", "refused"}, ex' = ExportAt(pc)
  PROVE  ExportInv'
<1>1. ExportType' /\ ex'.pc = pc
  BY ExportFresh DEF ExportType
<1> QED
  BY <1>1 DEF ExportInv, ObjectsRead, BundleWhole, BundleClosed

LEMMA ExportStep == World /\ ExportInv /\ [RecoveryNext]_evars => ExportInv'
<1> SUFFICES ASSUME World, ExportInv, [RecoveryNext]_evars
             PROVE  ExportInv'
  OBVIOUS
<1>1. Moves
  BY RecoveryStepIs, ReadStepIs, EveryMove DEF World, Inv, JobInv
<1>2. CASE ex' = ex
  BY <1>1, <1>2, ExportWaits DEF World
<1>3. CASE ReadObjects
  BY <1>3, ExportStarts
<1>4. CASE ReadChunks
  BY <1>4, ExportEnds
<1>5. CASE Import \/ Again
  BY <1>5, ExportRests DEF Import, Again, ExportBecomes
<1> QED
  BY <1>2, <1>3, <1>4, <1>5 DEF RecoveryNext, RecoveryStep, evars

LEMMA ExportInvariant ==
  ASSUME SafeUse
  PROVE  RecoverySpec => []ExportInv
<1>1. RecoveryInit => ExportInv
  BY ExportRests, ExportFresh
     DEF RecoveryInit, ExportInv, ExportType, ObjectsRead, BundleWhole, BundleClosed
<1>2. Spec => []World
  BY WorldInvariant
<1> QED
  BY <1>1, <1>2, RecoverySpecIsReadSpec, ReadSpecIsSpec, ExportStep, PTL DEF RecoverySpec

BundleOk ==
  /\ ex'.pc = "imported" /\ ex.pc # "imported" =>
       \A i \in Ids \ {Null} :
         ex.objects[i].kind = "data" =>
           \/ \A c \in Idx : Names(i, c)
           \/ i \in ex.gone /\ ex.chunks[i] = NoChunkRows[i]
  /\ ex'.pc = "refused" /\ ex.pc # "refused" =>
       \E i \in ex.gone : ex.objects[i].kind = "none"

LEMMA ImportStep == ExportInv /\ [RecoveryNext]_evars => [BundleOk]_evars
<1> SUFFICES ASSUME ExportInv, [RecoveryNext]_evars
             PROVE  BundleOk
  OBVIOUS
<1>1. CASE Import
  <2>1. ex.pc = "exported"
    BY <1>1 DEF Import
  <2>2. CASE ForeignKeysHold
    <3>1. ex'.pc = "imported"
      BY <1>1, <2>2, ExportFresh DEF Import, ExportBecomes
    <3> QED
      BY <2>1, <3>1 DEF BundleOk, ExportInv, BundleWhole
  <2>3. CASE ~ForeignKeysHold
    <3>1. ex'.pc = "refused"
      BY <1>1, <2>3, ExportFresh DEF Import, ExportBecomes
    <3> QED
      BY <2>1, <2>3, <3>1 DEF BundleOk, ExportInv, BundleClosed, ForeignKeysHold
  <2> QED
    BY <2>2, <2>3
<1>2. CASE ReadObjects
  <2> DEFINE records == [i \in Ids |-> Record(objects[i])]
             x == [ExportAt("objects") EXCEPT !.objects = records]
  <2>1. ex' = x
    BY <1>2 DEF ReadObjects, ExportBecomes
  <2>2. x.pc = "objects"
    <3> HIDE DEF records
    <3> QED
      BY ExportFresh
  <2> HIDE DEF x
  <2> QED
    BY <2>1, <2>2 DEF BundleOk
<1>3. CASE ReadChunks
  <2> DEFINE dropped == Dropped
             x == [ex EXCEPT !.pc = "exported", !.chunks = chunks, !.gone = dropped]
  <2>1. ex' = x
    BY <1>3 DEF ReadChunks, ExportBecomes
  <2>2. x.pc = "exported"
    <3> HIDE DEF dropped
    <3> QED
      BY DEF ExportInv, ExportType
  <2> HIDE DEF x
  <2> QED
    BY <2>1, <2>2 DEF BundleOk
<1>4. CASE Again
  <2>1. ex'.pc = "idle"
    BY <1>4, ExportFresh DEF Again, ExportBecomes
  <2> QED
    BY <2>1 DEF BundleOk
<1>5. CASE ex' = ex
  BY <1>5 DEF BundleOk
<1> QED
  BY <1>1, <1>2, <1>3, <1>4, <1>5 DEF RecoveryNext, RecoveryStep, evars

\* export_recovery_bundle and the import: a version comes back with every chunk,
\* each at a place its bytes were put, or empty if it was deleted between the
\* two queries; an import is refused only if a version was written between them.
THEOREM BundlesAreSound ==
  ASSUME SafeUse
  PROVE  RecoverySpec => BundleSound
<1>1. RecoverySpec => [][BundleOk]_evars
  BY ExportInvariant, ImportStep, PTL DEF RecoverySpec
<1> QED
  BY <1>1 DEF BundleSound, BundleOk
=============================================================================
