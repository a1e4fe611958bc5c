------------------------------ MODULE Recovery ------------------------------
(***************************************************************************)
(* `telecrate recovery export` and `recovery import` (recovery.rs) beside  *)
(* a running server.  The export reads the metadata tables one after the   *)
(* other, without a transaction around them, while everything ObjectPipeline *)
(* does goes on.  The import writes a bundle to an empty database, in one  *)
(* transaction, under the foreign keys of the schema.                      *)
(*                                                                         *)
(* Of the four tables of a bundle, objects and chunks are modelled: the    *)
(* bucket is there all along, and locks are in Gateway.                    *)
(***************************************************************************)
EXTENDS ReadPath

VARIABLE ex   \* the export: how far it is, the bundle, and what changed between its
              \* queries

evars == <<rvars, ex>>

\* Of an ObjectRecord, what chunks depend on; `seq` tells rows of one id apart.
Record(row) == [kind |-> row.kind, data |-> row.data, seq |-> row.seq]

NoRecords == [i \in Ids |-> Record(NoObject)]
NoChunkRows == [i \in Ids |-> [c \in Idx |-> NoChunk]]
ExportAt(pc) == [pc |-> pc, objects |-> NoRecords, chunks |-> NoChunkRows, gone |-> {}]

ExportBecomes(x) == /\ ex' = x
                    /\ UNCHANGED rvars

\* export_recovery_bundle, its second query.
ReadObjects ==
  /\ ex.pc = "idle"
  /\ ExportBecomes([ExportAt("objects") EXCEPT !.objects = [i \in Ids |-> Record(objects[i])]])

Dropped == {i \in Ids : objects[i].seq # ex.objects[i].seq}

\* Mutant of ReadChunks: only what Telegram holds goes into the bundle.
ReadChunksSent ==
  /\ ex.pc = "objects"
  /\ ExportBecomes([ex EXCEPT !.pc = "exported", !.gone = Dropped,
                              !.chunks = [i \in Ids |-> [c \in Idx |->
                                IF chunks[i][c].state = "remote" THEN chunks[i][c] ELSE NoChunk]]])

\* The third, some time later.
ReadChunks ==
  /\ ex.pc = "objects"
  /\ ExportBecomes([ex EXCEPT !.pc = "exported", !.chunks = chunks, !.gone = Dropped])

\* No row of chunks is without its row of objects.
ForeignKeysHold ==
  \A i \in Ids, c \in Idx : ex.chunks[i][c].state # "none" => ex.objects[i].kind # "none"

\* import_recovery_bundle_file: every row of the bundle, or none.  There are no
\* jobs in a bundle.
Import ==
  /\ ex.pc = "exported"
  /\ ExportBecomes(ExportAt(IF ForeignKeysHold THEN "imported" ELSE "refused"))

\* The next export.
Again == /\ ex.pc \in {"imported", "refused"}
         /\ ExportBecomes(ExportAt("idle"))

RecoveryStep == ReadObjects \/ ReadChunks \/ Import \/ Again

-----------------------------------------------------------------------------
RecoveryInit == /\ ReadInit
                /\ ex = ExportAt("idle")

\* The export is a process of its own: it outlives the server.  It and the GETs
\* only read what the others write, so one of them at a time loses nothing; nor
\* does it that the import, which reads nothing but the bundle, comes at once.
RecoveryNext ==
  \/ /\ ex.pc \in {"idle", "objects"} /\ \A g \in Readers : ~Answered(g)
     /\ PipelineStep \/ RestartAll
     /\ UNCHANGED ex
  \/ ex.pc = "idle" /\ ReadersStep /\ UNCHANGED ex
  \/ (\A g \in Readers : rd[g].pc = "idle") /\ RecoveryStep

RecoverySpec == RecoveryInit /\ [][RecoveryNext]_evars

-----------------------------------------------------------------------------
(* Properties *)

\* What the bundle names for chunk c of version i is where its bytes were put.
Names(i, c) ==
  LET row == ex.chunks[i][c]
      bytes == <<ex.objects[i].data, c>>
  IN /\ row.path # None \/ row.loc # None
     /\ row.path # None => row.path = bytes
     /\ row.loc # None => row.loc[1] = bytes

\* export_recovery_bundle, import_recovery_bundle_file: a version in a bundle
\* that is imported has every chunk it was written with, each at a place its
\* bytes were put, whatever was uploaded, freed and deleted while the tables
\* were read; or none at all, if it was deleted between the two queries (the
\* restored object is then an empty one).  And an import is refused only if a
\* version was written between the two.  (Not said of null versions, whose rows
\* may be those of another write.)
BundleSound ==
  [][/\ ex'.pc = "imported" /\ ex.pc # "imported" =>
          \A i \in Ids \ {Null} :
            ex.objects[i].kind = "data" =>
              \/ \A c \in Idx : Names(i, c)
              \/ i \in ex.gone /\ ex.chunks[i] = NoChunkRows[i]
     /\ ex'.pc = "refused" /\ ex.pc # "refused" =>
          \E i \in ex.gone : ex.objects[i].kind = "none"]_evars
=============================================================================
