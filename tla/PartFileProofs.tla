--------------------------- MODULE PartFileProofs ---------------------------
(***************************************************************************)
(* Theorems about the part files of Multipart: what rows and objects of    *)
(* orderly uploads describe is what is on disk, or in Telegram.            *)
(***************************************************************************)
EXTENDS MultipartProofs

-----------------------------------------------------------------------------
(* The invariant *)

Writing(r) == req[r].pc \in {"opened", "written"}

\* An inode has one name at most; it is new to the request it is called after;
\* and who has it open has it open under its own name.
NameInv ==
  /\ \A f, g \in Files : file[f] # None /\ file[f] = file[g] => f = g
  /\ \A f, g \in Files : tmp[f] # None /\ tmp[f] = tmp[g] => f = g
  /\ \A f, g \in Files : file[f] # None => file[f] # tmp[g]
FreshInv ==
  \A r \in Requests :
    req[r].pc \in {"idle", "checked"} =>
      /\ \A f \in Files : file[f] # r /\ tmp[f] # r
      /\ \A q \in Requests : Writing(q) => req[q].inode # r
HomeInv ==
  \A q \in Requests :
    Writing(q) =>
      /\ \A f \in Files : file[f] = req[q].inode \/ tmp[f] = req[q].inode => f = PathOf(q)
      /\ \A r \in Requests : Writing(r) /\ req[r].inode = req[q].inode => PathOf(r) = PathOf(q)

\* A part that is alone with its tmp file writes what it was sent, and moves
\* it to its place.
WriterInv ==
  \A r \in Requests :
    Writing(r) /\ req[r].upload \notin clashed =>
      /\ tmp[PathOf(r)] = req[r].inode
      /\ req[r].pc = "written" => data[req[r].inode] = req[r].body
RenamedInv ==
  \A r \in Requests :
    req[r].pc = "renamed" /\ req[r].upload \notin clashed /\ uploads[req[r].upload] # "ended"
    => Bytes(PathOf(r)) = req[r].body

\* Everything about a part of an upload that sends one body per part is about
\* that body.
FirstOf(u, n, first) ==
  /\ parts[u][n] \in {None, first}
  /\ file[<<u, n>>] # None => first # None /\ Bytes(<<u, n>>) = first
  /\ \A r \in Requests : Parting(r) /\ PathOf(r) = <<u, n>> => req[r].body = first
  /\ \A r \in Live : objects[r].upload = u /\ objects[r].chunks[n].state # "none"
                     => objects[r].chunks[n].body = first
FirstInv ==
  \A u \in Uploads, n \in Nums :
    u \notin clashed \cup rewritten.twice => FirstOf(u, n, rewritten.first[u][n])

\* Only a failed query lets a part of an upload that has ended go on.
LatePart ==
  \A r \in Requests :
    Parting(r) /\ req[r].upload \notin clashed /\ uploads[req[r].upload] # "open"
    => disruptions # 0

\* Files are wiped by a crash.
LateWipe == wiped # {} => disruptions # 0

\* What is left to remove is needed no more, and neither is what is swept.
ChunkInv ==
  \A r \in Requests, n \in Nums :
    LET c == objects[r].chunks[n] IN
    /\ c.state = "none" <=> c.body = None
    /\ c.state = "pending" => c.path
RemovalInv ==
  \A r \in Requests : \A f \in req[r].rm :
    req[r].pc = "removing" /\ f[1] \notin clashed =>
      /\ uploads[f[1]] = "ended"
      /\ \A q \in Live : objects[q].upload # f[1]
Pending(f) == \E q \in Live : objects[q].upload = f[1] /\ objects[q].chunks[f[2]].state = "pending"
HasRow(f) == parts[f[1]][f[2]] # None
SweepInv ==
  \A f \in Files :
    f[1] \notin clashed =>
      /\ gc.pc = "chunks" /\ Pending(f) => f \in gc.paths
      /\ gc.pc = "parts" /\ (Pending(f) \/ HasRow(f)) => f \in gc.paths
      /\ gc.pc = "sweeping" /\ (Pending(f) \/ HasRow(f)) => f \notin gc.paths

\* Rows and their files.
RowInv ==
  \A u \in Uploads, n \in Nums :
    /\ Orderly(u)
    /\ parts[u][n] # None
    /\ <<u, n>> \notin wiped
    /\ ~\E r \in Requests : req[r].pc = "renamed" /\ PathOf(r) = <<u, n>>
    => Bytes(<<u, n>>) = parts[u][n]

FileInv == NameInv /\ FreshInv /\ HomeInv /\ WriterInv /\ RenamedInv /\ FirstInv /\ LatePart /\ LateWipe
RowsInv == ChunkInv /\ RemovalInv /\ SweepInv /\ RowInv /\ Intact
PartInv == TypeInv /\ EndedHasNoRows /\ OrderInv /\ FileInv /\ RowsInv

-----------------------------------------------------------------------------
(* Who changes what *)

\* The parts in flight after a step were in flight before it.
LEMMA PartsKept ==
  ASSUME TypeInv, Step, NEW r \in Requests, Parting(r)'
  PROVE  /\ Parting(r)
         /\ req'[r].upload = req[r].upload /\ req'[r].num = req[r].num /\ req'[r].body = req[r].body
         /\ PathOf(r)' = PathOf(r)
         /\ req'[r].pc = "checked" => req'[r] = req[r]
         /\ Writing(r)' => OpenTmp(r) \/ (Writing(r) /\ req'[r].inode = req[r].inode)
         /\ req'[r].pc = "written" => req'[r] = req[r] \/ WriteTmp(r)
         /\ req'[r].pc = "renamed" => req'[r] = req[r] \/ RenameTmp(r)
<1>1. req[r] \in Request
  BY DEF TypeInv, TypeOK
<1>2. CASE req'[r] = req[r]
  BY <1>2 DEF Parting, Writing, PathOf
<1>3. CASE OpenTmp(r)
  <2> DEFINE i == IF tmp[PathOf(r)] = None THEN r ELSE tmp[PathOf(r)]
  <2>1. req'[r] = [req[r] EXCEPT !.pc = "opened", !.inode = i]
    BY <1>3 DEF OpenTmp, Become, TypeInv, TypeOK
  <2> HIDE DEF i
  <2> QED
    BY <1>1, <1>3, <2>1 DEF OpenTmp, Parting, Writing, PathOf, Request
<1>4. CASE WriteTmp(r)
  <2>1. req[r].pc = "opened" /\ req'[r] = [req[r] EXCEPT !.pc = "written"]
    BY <1>4 DEF WriteTmp, Become, TypeInv, TypeOK
  <2> QED
    BY <1>1, <1>4, <2>1 DEF Parting, Writing, PathOf, Request
<1>5. CASE RenameTmp(r)
  <2>1. req[r].pc = "written" /\ req'[r] \in {Closed, [req[r] EXCEPT !.pc = "renamed"]}
    BY <1>5 DEF RenameTmp, Become, TypeInv, TypeOK
  <2>2. req'[r] # Closed
    BY FreshClosed DEF Parting
  <2> QED
    BY <1>1, <1>5, <2>1, <2>2 DEF Parting, Writing, PathOf, Request
<1>6. req'[r] = req[r] \/ OpenTmp(r) \/ WriteTmp(r) \/ RenameTmp(r)
  <2>1. ASSUME NEW q \in Requests, PartStep(q) PROVE <1>6
    BY <2>1, FreshClosed
       DEF PartStep, OpenTmp, WriteTmp, RenameTmp, SavePart, Become, Parting, TypeInv, TypeOK
  <2>2. ASSUME NEW q \in Requests, CommitComplete(q) \/ CommitAbort(q) PROVE <1>6
    <3>1. \A p \in Requests : p # q => req'[p] = req[p]
      BY <2>2 DEF CommitComplete, CommitAbort, Become, TypeInv, TypeOK
    <3> QED
      BY <2>2, <3>1, CommitGoes DEF Parting
  <2>3. ASSUME NEW q \in Requests, RemoveFile(q) PROVE <1>6
    <3> PICK f : req[q].pc = "removing" /\ Become(q, [req[q] EXCEPT !.rm = @ \ {f}])
      BY <2>3 DEF RemoveFile
    <3>1. req[q] \in Request /\ req'[q] = [req[q] EXCEPT !.rm = @ \ {f}]
          /\ \A p \in Requests : p # q => req'[p] = req[p]
      BY DEF Become, TypeInv, TypeOK
    <3>2. req'[q].pc = "removing"
      BY <3>1 DEF Request
    <3> QED
      BY <3>1, <3>2 DEF Parting
  <2>4. ASSUME NEW q \in Requests, Respond(q) \/ DropRequest(q) PROVE <1>6
    BY <2>4, FreshClosed DEF Respond, DropRequest, Become, Parting, TypeInv, TypeOK
  <2>5. CASE Restart
    BY <2>5, FreshClosed DEF Restart, Parting
  <2>6. CASE UNCHANGED req
    BY <2>6
  <2> QED
    BY <2>1, <2>2, <2>3, <2>4, <2>5, <2>6
       DEF Step, EndStep, Initiate, StoreChunk, FreeChunk, GcStep, ReadChunkPaths,
           ReadPartPaths, ListFiles, SweepFile, vars
<1> QED
  BY <1>2, <1>3, <1>4, <1>5, <1>6

\* The parts in flight beside one that begins.
LEMMA BeginsKept ==
  ASSUME NEW r \in Requests, NEW u \in Uploads, NEW kind \in Kinds,
         NEW n \in AskedNums \cup {None}, Begins(r, kind, u, n), NEW q \in Requests
  PROVE  /\ Writing(q)' => Writing(q)
         /\ Parting(q)' => Parting(q) \/ (q = r /\ req'[q].pc = "checked")
         /\ q # r => req'[q] = req[q] /\ PathOf(q)' = PathOf(q)
         /\ Writing(q) => req'[q] = req[q] /\ PathOf(q)' = PathOf(q)
  BY DEF Begins, Writing, Parting, PathOf, Kinds

LEMMA NotYet ==
  ASSUME TypeInv, Step, NEW r \in Requests, req'[r].pc \in {"idle", "checked"}
  PROVE  req'[r] = req[r]
<1>1. Goes(r)
  BY StepMoves DEF Moves
<1>2. req'[r].pc = "checked" => req'[r] = req[r]
  BY PartsKept DEF Parting
<1> QED
  BY <1>1, <1>2 DEF Goes, GoesOn

-----------------------------------------------------------------------------
(* Names of inodes *)

Names == NameInv /\ FreshInv /\ HomeInv

LEMMA NamesShrink ==
  ASSUME TypeInv, Names,
         \A f \in Files : file'[f] \in {None, file[f]} /\ tmp'[f] \in {None, tmp[f]},
         \A q \in Requests : Writing(q)' => /\ Writing(q) /\ req'[q].inode = req[q].inode
                                            /\ PathOf(q)' = PathOf(q),
         \A q \in Requests : req'[q].pc \in {"idle", "checked"} => req[q].pc \in {"idle", "checked"}
  PROVE  Names'
<1> USE DEF Names
<1>1. NameInv'
  BY DEF NameInv
<1>2. FreshInv'
  BY MultipartAssumption DEF FreshInv
<1>3. \A q \in Requests : Writing(q) => req[q].inode # None
  BY MultipartAssumption DEF Writing, TypeInv, RequestShape
<1>4. HomeInv'
  BY <1>3 DEF HomeInv
<1> QED
  BY <1>1, <1>2, <1>4

LEMMA NamesOpen ==
  ASSUME TypeInv, Names, NEW r \in Requests, OpenTmp(r)
  PROVE  Names'
<1> DEFINE P == PathOf(r)
           i == IF tmp[P] = None THEN r ELSE tmp[P]
<1> USE DEF Names
<1>1. /\ req[r].pc = "checked" /\ UNCHANGED file
      /\ tmp' = [tmp EXCEPT ![P] = i]
      /\ req'[r] = [req[r] EXCEPT !.pc = "opened", !.inode = i]
      /\ \A q \in Requests \ {r} : req'[q] = req[q]
  BY DEF OpenTmp, Become, TypeInv, TypeOK
<1>2. P \in Files /\ tmp[P] \in Requests \cup {None} /\ req[r] \in Request
  BY <1>1 DEF PathOf, Files, TypeInv, TypeOK, RequestShape
<1>3. \A f \in Files : tmp'[f] = IF f = P THEN i ELSE tmp[f]
  BY <1>1 DEF TypeInv, TypeOK
<1>4. i \in Requests /\ i # None
  BY <1>2, MultipartAssumption
<1>5. \A f \in Files : file[f] # i /\ (tmp[f] = i => f = P)
  BY <1>1, <1>2, MultipartAssumption DEF NameInv, FreshInv
<1>6. \A q \in Requests : Writing(q) /\ req[q].inode = i => PathOf(q) = P
  BY <1>1, <1>2 DEF FreshInv, HomeInv
<1>7. req'[r].pc = "opened" /\ req'[r].inode = i /\ PathOf(r)' = P /\ Writing(r)'
  <2> HIDE DEF i
  <2> QED
    BY <1>1, <1>2 DEF Request, PathOf, Writing
<1>8. \A q \in Requests \ {r} : Writing(q)' = Writing(q) /\ PathOf(q)' = PathOf(q)
  BY <1>1 DEF Writing, PathOf
<1>9. \A q \in Requests : req[q].pc \in {"idle", "checked"} /\ q # r => i # q
  BY <1>1, <1>2 DEF FreshInv
<1> HIDE DEF i, P
<1>10. NameInv'
  BY <1>1, <1>3, <1>4, <1>5 DEF NameInv
<1>11. FreshInv'
  <2> SUFFICES ASSUME NEW q \in Requests, req'[q].pc \in {"idle", "checked"}
               PROVE  /\ \A f \in Files : file'[f] # q /\ tmp'[f] # q
                      /\ \A p \in Requests : Writing(p)' => req'[p].inode # q
    BY DEF FreshInv
  <2>1. q # r /\ req'[q] = req[q]
    BY <1>1, <1>7
  <2>2. /\ \A f \in Files : file[f] # q /\ tmp[f] # q
        /\ \A p \in Requests : Writing(p) => req[p].inode # q
    BY <2>1 DEF FreshInv
  <2>3. \A f \in Files : file'[f] # q /\ tmp'[f] # q
    BY <1>1, <1>3, <1>9, <2>1, <2>2
  <2>4. \A p \in Requests \ {r} : Writing(p)' => req'[p].inode # q
    BY <1>1, <1>8, <2>2
  <2>5. req'[r].inode # q
    BY <1>7, <1>9, <2>1
  <2> QED
    BY <2>3, <2>4, <2>5
<1>12. HomeInv'
  <2>1. \A f \in Files : file'[f] = i \/ tmp'[f] = i => f = P
    BY <1>1, <1>3, <1>5
  <2>2. \A q \in Requests \ {r} : Writing(q)' /\ req'[q].inode = i => PathOf(q)' = P
    BY <1>1, <1>6, <1>8
  <2>3. \A q \in Requests \ {r} : Writing(q)' =>
          \A f \in Files : file'[f] = req'[q].inode \/ tmp'[f] = req'[q].inode => f = PathOf(q)'
    BY <1>1, <1>3, <1>6, <1>8 DEF HomeInv
  <2>4. \A p, q \in Requests \ {r} :
          Writing(p)' /\ Writing(q)' /\ req'[p].inode = req'[q].inode => PathOf(p)' = PathOf(q)'
    BY <1>1, <1>8 DEF HomeInv
  <2> QED
    BY <1>7, <2>1, <2>2, <2>3, <2>4 DEF HomeInv
<1> QED
  BY <1>10, <1>11, <1>12

LEMMA NamesRename ==
  ASSUME TypeInv, Names, NEW r \in Requests, RenameTmp(r), tmp[PathOf(r)] # None
  PROVE  Names'
<1> DEFINE P == PathOf(r)
<1> USE DEF Names
<1>1. /\ req[r].pc = "written"
      /\ file' = [file EXCEPT ![P] = tmp[P]] /\ tmp' = [tmp EXCEPT ![P] = None]
      /\ req'[r] = [req[r] EXCEPT !.pc = "renamed"]
      /\ \A q \in Requests \ {r} : req'[q] = req[q]
  BY DEF RenameTmp, Become, TypeInv, TypeOK
<1>2. P \in Files /\ req[r] \in Request
  BY <1>1 DEF PathOf, Files, TypeInv, TypeOK, RequestShape
<1>3. \A f \in Files : /\ tmp'[f] = IF f = P THEN None ELSE tmp[f]
                       /\ file'[f] = IF f = P THEN tmp[P] ELSE file[f]
  BY <1>1 DEF TypeInv, TypeOK
<1>4. req'[r].pc = "renamed"
  BY <1>1, <1>2 DEF Request
<1>5. \A q \in Requests \ {r} : Writing(q)' = Writing(q) /\ PathOf(q)' = PathOf(q)
  BY <1>1 DEF Writing, PathOf
<1>6. \A q \in Requests : Writing(q) => req[q].inode # None
  BY MultipartAssumption DEF Writing, TypeInv, RequestShape
<1> HIDE DEF P
<1>7. NameInv'
  BY <1>2, <1>3 DEF NameInv
<1>8. FreshInv'
  <2> SUFFICES ASSUME NEW q \in Requests, req'[q].pc \in {"idle", "checked"}
               PROVE  /\ \A f \in Files : file'[f] # q /\ tmp'[f] # q
                      /\ \A p \in Requests : Writing(p)' => req'[p].inode # q
    BY DEF FreshInv
  <2>1. req'[q] = req[q]
    BY <1>1, <1>4
  <2>2. /\ \A f \in Files : file[f] # q /\ tmp[f] # q
        /\ \A p \in Requests : Writing(p) => req[p].inode # q
    BY <2>1 DEF FreshInv
  <2>3. \A f \in Files : file'[f] # q /\ tmp'[f] # q
    BY <1>2, <1>3, <2>2, MultipartAssumption
  <2>4. \A p \in Requests \ {r} : Writing(p)' => req'[p].inode # q
    BY <1>1, <1>5, <2>2
  <2>5. ~Writing(r)'
    BY <1>4 DEF Writing
  <2> QED
    BY <2>3, <2>4, <2>5
<1>9. HomeInv'
  <2>1. ~Writing(r)'
    BY <1>4 DEF Writing
  <2>2. \A q \in Requests \ {r} : Writing(q)' =>
          \A f \in Files : file'[f] = req'[q].inode \/ tmp'[f] = req'[q].inode => f = PathOf(q)'
    BY <1>1, <1>2, <1>3, <1>5, <1>6 DEF HomeInv
  <2>3. \A p, q \in Requests \ {r} :
          Writing(p)' /\ Writing(q)' /\ req'[p].inode = req'[q].inode => PathOf(p)' = PathOf(q)'
    BY <1>1, <1>5 DEF HomeInv
  <2> QED
    BY <2>1, <2>2, <2>3 DEF HomeInv
<1> QED
  BY <1>7, <1>8, <1>9

\* Names appear by OpenTmp and move by RenameTmp only.
LEMMA DiskMoves ==
  ASSUME TypeInv, Step, ~\E r \in Requests : OpenTmp(r) \/ (RenameTmp(r) /\ tmp[PathOf(r)] # None)
  PROVE  \A f \in Files : file'[f] \in {None, file[f]} /\ tmp'[f] \in {None, tmp[f]}
<1>1. ASSUME NEW r \in Requests, RemoveFile(r) PROVE \A f \in Files : file'[f] \in {None, file[f]}
  BY <1>1 DEF RemoveFile, TypeInv, TypeOK
<1>2. ASSUME NEW v \in Requests, NEW n \in Nums, FreeChunk(v, n)
      PROVE  \A f \in Files : file'[f] \in {None, file[f]}
  BY <1>2 DEF FreeChunk, TypeInv, TypeOK
<1>3. SweepFile => \A f \in Files : file'[f] \in {None, file[f]}
  BY DEF SweepFile, TypeInv, TypeOK
<1>4. Restart => \A f \in Files : file'[f] \in {None, file[f]} /\ tmp'[f] \in {None, tmp[f]}
  BY DEF Restart
<1>5. \/ UNCHANGED <<file, tmp>>
      \/ \E r \in Requests : RemoveFile(r)
      \/ \E v \in Requests, n \in Nums : FreeChunk(v, n)
      \/ SweepFile
      \/ Restart
  BY DEF Step, PartStep, WriteTmp, RenameTmp, SavePart, EndStep, CommitComplete, CommitAbort,
         Respond, DropRequest, Initiate, StoreChunk, GcStep, ReadChunkPaths, ReadPartPaths,
         ListFiles, vars, disk
<1>6. \/ UNCHANGED tmp
      \/ Restart
  BY <1>5 DEF RemoveFile, FreeChunk, SweepFile
<1> QED
  BY <1>1, <1>2, <1>3, <1>4, <1>5, <1>6

LEMMA NamesStep == TypeInv /\ Names /\ [Next]_vars => Names'
<1> SUFFICES ASSUME TypeInv, Names, [Next]_vars PROVE Names'
  OBVIOUS
<1>1. ASSUME NEW r \in Requests, OpenTmp(r) PROVE Names'
  BY <1>1, NamesOpen
<1>2. ASSUME NEW r \in Requests, RenameTmp(r), tmp[PathOf(r)] # None PROVE Names'
  BY <1>2, NamesRename
<1>3. CASE Step /\ ~\E r \in Requests : OpenTmp(r) \/ (RenameTmp(r) /\ tmp[PathOf(r)] # None)
  <2>1. \A q \in Requests : Writing(q)' => /\ Writing(q) /\ req'[q].inode = req[q].inode
                                           /\ PathOf(q)' = PathOf(q)
    <3> SUFFICES ASSUME NEW q \in Requests, Writing(q)'
                 PROVE  Writing(q) /\ req'[q].inode = req[q].inode /\ PathOf(q)' = PathOf(q)
      OBVIOUS
    <3>1. Parting(q)'
      BY DEF Writing, Parting
    <3> QED
      BY <1>3, <3>1, PartsKept
  <2>2. \A q \in Requests : req'[q].pc \in {"idle", "checked"} => req[q].pc \in {"idle", "checked"}
    BY <1>3, NotYet
  <2> QED
    BY <1>3, <2>1, <2>2, DiskMoves, NamesShrink
<1>4. ASSUME NEW r \in Requests, NEW u \in Uploads, NEW kind \in Kinds,
             NEW n \in AskedNums \cup {None}, Begins(r, kind, u, n)
      PROVE  Names'
  <2>1. \A f \in Files : file'[f] \in {None, file[f]} /\ tmp'[f] \in {None, tmp[f]}
    BY <1>4 DEF Begins, disk
  <2>2. \A q \in Requests : Writing(q)' => Writing(q) /\ req'[q] = req[q] /\ PathOf(q)' = PathOf(q)
    BY <1>4, BeginsKept
  <2>3. \A q \in Requests : req'[q].pc \in {"idle", "checked"} => req[q].pc \in {"idle", "checked"}
    BY <1>4 DEF Begins
  <2> QED
    BY <2>1, <2>2, <2>3, NamesShrink
<1> QED
  BY <1>1, <1>2, <1>3, <1>4, EveryStep

-----------------------------------------------------------------------------
(* What may happen to a file *)

LEMMA OpenedInode ==
  ASSUME TypeInv, Names, NEW r \in Requests, OpenTmp(r)
  PROVE  /\ PathOf(r) \in Files
         /\ req'[r].inode \in Requests
         /\ tmp' = [tmp EXCEPT ![PathOf(r)] = req'[r].inode]
         /\ data' = [data EXCEPT ![req'[r].inode] = None]
         /\ \A f \in Files : file[f] # req'[r].inode
         /\ \A f \in Files : f # PathOf(r) => tmp[f] # req'[r].inode
<1> DEFINE P == PathOf(r)
           i == IF tmp[P] = None THEN r ELSE tmp[P]
<1>1. /\ req[r].pc = "checked" /\ tmp' = [tmp EXCEPT ![P] = i] /\ data' = [data EXCEPT ![i] = None]
      /\ req'[r] = [req[r] EXCEPT !.pc = "opened", !.inode = i]
  BY DEF OpenTmp, Become, TypeInv, TypeOK
<1>2. P \in Files /\ tmp[P] \in Requests \cup {None} /\ req[r] \in Request
  BY <1>1 DEF PathOf, Files, TypeInv, TypeOK, RequestShape
<1>3. i \in Requests /\ i # None
  BY <1>2, MultipartAssumption
<1>4. \A f \in Files : file[f] # i /\ (tmp[f] = i => f = P)
  BY <1>1, <1>2, MultipartAssumption DEF Names, NameInv, FreshInv
<1>5. req'[r].inode = i
  <2> HIDE DEF i
  <2> QED
    BY <1>1, <1>2 DEF Request
<1> HIDE DEF i, P
<1> QED
  BY <1>1, <1>2, <1>3, <1>4, <1>5 DEF P

\* Nobody writes into a file in place, but parts of an upload that clashed.
LEMMA DataKept ==
  ASSUME TypeInv, Names, WriterInv, Step, NEW f \in Files, f[1] \notin clashed, file[f] # None
  PROVE  data'[file[f]] = data[file[f]]
<1>1. file[f] \in Requests
  BY DEF TypeInv, TypeOK
<1>2. ASSUME NEW r \in Requests, OpenTmp(r) PROVE data'[file[f]] = data[file[f]]
  BY <1>1, <1>2, OpenedInode DEF TypeInv, TypeOK
<1>3. ASSUME NEW r \in Requests, WriteTmp(r) PROVE data'[file[f]] = data[file[f]]
  <2>1. Writing(r) /\ data' = [data EXCEPT ![req[r].inode] = req[r].body]
    BY <1>3 DEF WriteTmp, Writing
  <2>2. req[r].inode # file[f]
    <3> SUFFICES ASSUME req[r].inode = file[f] PROVE FALSE
      OBVIOUS
    <3>1. PathOf(r) = f
      BY <2>1 DEF Names, HomeInv
    <3>2. req[r].upload \notin clashed
      BY <3>1 DEF PathOf
    <3>3. tmp[f] = file[f]
      BY <2>1, <3>1, <3>2 DEF WriterInv
    <3> QED
      BY <3>3 DEF Names, NameInv
  <2> QED
    BY <1>1, <2>1, <2>2 DEF TypeInv, TypeOK
<1>4. CASE UNCHANGED data
  BY <1>4
<1> QED
  BY <1>2, <1>3, <1>4
     DEF Step, PartStep, RenameTmp, SavePart, EndStep, CommitComplete, CommitAbort, RemoveFile,
         Respond, DropRequest, Initiate, StoreChunk, FreeChunk, GcStep, ReadChunkPaths,
         ReadPartPaths, ListFiles, SweepFile, Restart, vars, disk

Kept(f) == Bytes(f)' = Bytes(f) /\ (file'[f] = None <=> file[f] = None)
Renamed(r, f) ==
  /\ RenameTmp(r) /\ PathOf(r) = f
  /\ req'[r].pc = "renamed" /\ file'[f] # None /\ Bytes(f)' = req[r].body
Removed(f) ==
  /\ file'[f] = None
  /\ \/ \E r \in Requests : req[r].pc = "removing" /\ f \in req[r].rm
     \/ \E v \in Requests, n \in Nums : FreeChunk(v, n) /\ f = <<objects[v].upload, n>>
     \/ SweepFile /\ f \in gc.paths
     \/ Restart /\ (f \notin FilesOf(Live) \cup PartFiles \/ f \in wiped')

LEMMA FileStep ==
  ASSUME TypeInv, Names, WriterInv, Step, NEW f \in Files, f[1] \notin clashed
  PROVE  \/ Kept(f)
         \/ \E r \in Requests : Renamed(r, f)
         \/ Removed(f)
<1>1. file'[f] = file[f] => Kept(f)
  BY DataKept DEF Kept, Bytes
<1>2. ASSUME NEW r \in Requests, RenameTmp(r), file'[f] # file[f] PROVE Renamed(r, f)
  <2>1. /\ tmp[PathOf(r)] # None /\ file' = [file EXCEPT ![PathOf(r)] = tmp[PathOf(r)]]
        /\ UNCHANGED data /\ req[r].pc = "written"
        /\ req'[r] = [req[r] EXCEPT !.pc = "renamed"]
    BY <1>2 DEF RenameTmp, Become, TypeInv, TypeOK
  <2>2. PathOf(r) = f /\ file'[f] = tmp[f] /\ req[r].upload = f[1]
    BY <1>2, <2>1 DEF TypeInv, TypeOK, PathOf
  <2>3. tmp[f] = req[r].inode /\ data[req[r].inode] = req[r].body
    BY <2>1, <2>2 DEF WriterInv, Writing
  <2>4. req'[r].pc = "renamed"
    BY <2>1 DEF TypeInv, TypeOK, Request
  <2> QED
    BY <1>2, <2>1, <2>2, <2>3, <2>4 DEF Renamed, Bytes
<1>3. ASSUME NEW r \in Requests, RemoveFile(r), file'[f] # file[f] PROVE Removed(f)
  <2> PICK g \in req[r].rm : file' = [file EXCEPT ![g] = None]
    BY <1>3 DEF RemoveFile
  <2>1. g = f /\ file'[f] = None
    BY <1>3 DEF TypeInv, TypeOK
  <2> QED
    BY <1>3, <2>1 DEF Removed, RemoveFile
<1>4. ASSUME NEW v \in Requests, NEW n \in Nums, FreeChunk(v, n), file'[f] # file[f]
      PROVE  Removed(f)
  BY <1>4 DEF Removed, FreeChunk, TypeInv, TypeOK
<1>5. ASSUME SweepFile, file'[f] # file[f] PROVE Removed(f)
  BY <1>5 DEF Removed, SweepFile, TypeInv, TypeOK
<1>6. ASSUME Restart, file'[f] # file[f] PROVE Removed(f)
  BY <1>6 DEF Removed, Restart, TypeInv, TypeOK
<1>7. \/ UNCHANGED file
      \/ \E r \in Requests : RenameTmp(r) \/ RemoveFile(r)
      \/ \E v \in Requests, n \in Nums : FreeChunk(v, n)
      \/ SweepFile
      \/ Restart
  BY DEF Step, PartStep, OpenTmp, WriteTmp, SavePart, EndStep, CommitComplete, CommitAbort,
         Respond, DropRequest, Initiate, StoreChunk, GcStep, ReadChunkPaths, ReadPartPaths,
         ListFiles, vars, disk
<1> QED
  BY <1>1, <1>2, <1>3, <1>4, <1>5, <1>6, <1>7

-----------------------------------------------------------------------------
(* Writers *)

LEMMA OnePart ==
  ASSUME KindInv, Alone, NEW q \in Requests, NEW r \in Requests, Parting(q), Parting(r),
         PathOf(q) = PathOf(r), req[r].upload \notin clashed
  PROVE  q = r
  BY DEF KindInv, Alone, InFlight, Parting, PathOf

LEMMA RenamesPart ==
  ASSUME TypeInv, WriterInv, NEW r \in Requests, RenameTmp(r), req'[r].pc = "renamed",
         req[r].upload \notin clashed, NEW f \in Files, PathOf(r) = f
  PROVE  Renamed(r, f)
<1>1. tmp[f] # None
  BY FreshClosed DEF RenameTmp, Become, TypeInv, TypeOK
<1>2. file' = [file EXCEPT ![f] = tmp[f]] /\ UNCHANGED data /\ req[r].pc = "written"
  BY <1>1 DEF RenameTmp
<1>3. file'[f] = tmp[f]
  BY <1>2 DEF TypeInv, TypeOK
<1>4. tmp[f] = req[r].inode /\ data[req[r].inode] = req[r].body
  BY <1>2 DEF WriterInv, Writing
<1> QED
  BY <1>1, <1>2, <1>3, <1>4 DEF Renamed, Bytes

LEMMA WriterStep ==
  ASSUME TypeInv, Names, KindInv, Alone, WriterInv, [Next]_vars
  PROVE  WriterInv'
<1> SUFFICES ASSUME NEW r \in Requests, Writing(r)', req'[r].upload \notin clashed'
             PROVE  /\ tmp'[PathOf(r)'] = req'[r].inode
                    /\ req'[r].pc = "written" => data'[req'[r].inode] = req'[r].body
  BY DEF WriterInv, PathOf
<1>1. CASE Step
  <2>1. /\ clashed \subseteq clashed' /\ Parting(r)'
        /\ req'[r].pc \in {"opened", "written"}
    BY <1>1, StepMoves DEF Writing, Parting
  <2>2. /\ Parting(r) /\ PathOf(r)' = PathOf(r)
        /\ req'[r].upload = req[r].upload /\ req'[r].body = req[r].body
        /\ OpenTmp(r) \/ (Writing(r) /\ req'[r].inode = req[r].inode)
        /\ req'[r].pc = "written" => req'[r] = req[r] \/ WriteTmp(r)
    BY <1>1, <2>1, PartsKept
  <2>3. PathOf(r) \in Files /\ req[r].upload \notin clashed
    BY <2>1, <2>2 DEF Parting, PathOf, Files, TypeInv, RequestShape
  <2>4. CASE OpenTmp(r)
    <3>1. tmp'[PathOf(r)] = req'[r].inode
      BY <2>3, <2>4, OpenedInode DEF TypeInv, TypeOK
    <3>2. req'[r].pc # "written"
      BY <2>2, <2>4 DEF OpenTmp, WriteTmp
    <3> QED
      BY <2>2, <3>1, <3>2
  <2>5. CASE Writing(r) /\ req'[r].inode = req[r].inode /\ ~OpenTmp(r)
    <3>1. tmp[PathOf(r)] = req[r].inode /\ req[r].inode \in Requests
      BY <2>3, <2>5 DEF WriterInv, Writing, TypeInv, RequestShape
    <3>2. ASSUME NEW q \in Requests, OpenTmp(q) \/ RenameTmp(q)
          PROVE  PathOf(q) # PathOf(r)
      <4> SUFFICES ASSUME PathOf(q) = PathOf(r) PROVE FALSE
        OBVIOUS
      <4>1. Parting(q)
        BY <3>2 DEF OpenTmp, RenameTmp, Parting
      <4>2. q = r
        BY <2>2, <2>3, <4>1, OnePart
      <4>3. RenameTmp(r) /\ req'[r].pc \in {"renamed", "closed"}
        <5>1. RenameTmp(r) /\ req'[r] \in {Closed, [req[r] EXCEPT !.pc = "renamed"]}
          BY <2>5, <3>2, <4>2 DEF RenameTmp, Become, TypeInv, TypeOK
        <5> QED
          BY <5>1, FreshClosed DEF TypeInv, TypeOK, Request
      <4> QED
        BY <2>1, <4>3
    <3>3. tmp'[PathOf(r)] = tmp[PathOf(r)]
      <4>1. ASSUME NEW q \in Requests, OpenTmp(q) PROVE tmp'[PathOf(r)] = tmp[PathOf(r)]
        BY <2>3, <3>2, <4>1, OpenedInode DEF TypeInv, TypeOK
      <4>2. ASSUME NEW q \in Requests, RenameTmp(q) PROVE tmp'[PathOf(r)] = tmp[PathOf(r)]
        BY <2>3, <3>2, <4>2 DEF RenameTmp, TypeInv, TypeOK
      <4>3. Restart => req'[r].pc \notin {"opened", "written"}
        BY <2>2, FreshClosed DEF Restart, InFlight, Parting
      <4> QED
        BY <1>1, <2>1, <4>1, <4>2, <4>3
           DEF Step, PartStep, WriteTmp, SavePart, EndStep, CommitComplete, CommitAbort,
               RemoveFile, Respond, DropRequest, Initiate, StoreChunk, FreeChunk, GcStep,
               ReadChunkPaths, ReadPartPaths, ListFiles, SweepFile, vars, disk
    <3>4. CASE WriteTmp(r)
      <4>1. data'[req[r].inode] = req[r].body
        BY <3>1, <3>4 DEF WriteTmp, TypeInv, TypeOK
      <4> QED
        BY <2>2, <2>5, <3>1, <3>3, <4>1
    <3>5. CASE ~WriteTmp(r)
      <4>1. data'[req[r].inode] = data[req[r].inode]
        <5>1. ASSUME NEW q \in Requests, OpenTmp(q) PROVE data'[req[r].inode] = data[req[r].inode]
          BY <2>3, <3>1, <3>2, <5>1, OpenedInode DEF TypeInv, TypeOK
        <5>2. ASSUME NEW q \in Requests, WriteTmp(q) PROVE data'[req[r].inode] = data[req[r].inode]
          <6>1. Writing(q) /\ Parting(q) /\ q # r
            BY <3>5, <5>2 DEF WriteTmp, Writing, Parting
          <6>2. PathOf(q) # PathOf(r)
            BY <2>2, <2>3, <6>1, OnePart
          <6>3. req[q].inode # req[r].inode
            BY <2>5, <6>1, <6>2 DEF Names, HomeInv
          <6> QED
            BY <5>2, <6>3 DEF WriteTmp, TypeInv, TypeOK
        <5> QED
          BY <1>1, <5>1, <5>2
             DEF Step, PartStep, RenameTmp, SavePart, EndStep, CommitComplete, CommitAbort,
                 RemoveFile, Respond, DropRequest, Initiate, StoreChunk, FreeChunk, GcStep,
                 ReadChunkPaths, ReadPartPaths, ListFiles, SweepFile, Restart, vars, disk
      <4>2. req'[r].pc = "written" => data[req[r].inode] = req[r].body
        BY <2>2, <2>3, <2>5, <3>5 DEF WriterInv
      <4> QED
        BY <2>2, <2>5, <3>1, <3>3, <4>1, <4>2
    <3> QED
      BY <3>4, <3>5
  <2> QED
    BY <2>2, <2>4, <2>5
<1>2. ASSUME NEW q \in Requests, NEW u \in Uploads, NEW kind \in Kinds,
             NEW n \in AskedNums \cup {None}, Begins(q, kind, u, n)
      PROVE  /\ tmp'[PathOf(r)'] = req'[r].inode
             /\ req'[r].pc = "written" => data'[req'[r].inode] = req'[r].body
  <2>1. Writing(r) /\ req'[r] = req[r] /\ PathOf(r)' = PathOf(r)
    BY <1>2, BeginsKept
  <2>2. clashed \subseteq clashed' /\ UNCHANGED disk
    BY <1>2 DEF Begins
  <2> QED
    BY <2>1, <2>2 DEF WriterInv, disk
<1> QED
  BY <1>1, <1>2, EveryStep

-----------------------------------------------------------------------------
(* Parts that are in place *)

\* Rows of chunks are of objects, and these of uploads that have ended.
LEMMA ChunkLive ==
  ASSUME LiveEnded, NEW v \in Requests, NEW n \in Nums, objects[v].chunks[n].state # "none"
  PROVE  v \in Live /\ objects[v].upload \in Uploads /\ uploads[objects[v].upload] = "ended"
  BY DEF LiveEnded, Live, NoObject, NoChunk

LEMMA Ending ==
  ASSUME TypeInv, [Next]_vars, NEW u \in Uploads
  PROVE  /\ uploads[u] = "ended" => uploads'[u] = "ended"
         /\ uploads[u] = "open" => uploads'[u] \in {"open", "ended"}
  BY DEF Next, Initiate, BeginPart, BeginComplete, BeginAbort, PartStep, OpenTmp, WriteTmp,
         RenameTmp, SavePart, EndStep, CommitComplete, CommitAbort, RemoveFile, Respond,
         DropRequest, StoreChunk, FreeChunk, GcStep, ReadChunkPaths, ReadPartPaths, ListFiles,
         SweepFile, Restart, vars, tables, TypeInv, TypeOK

LEMMA RenamedStep ==
  ASSUME TypeInv, Names, KindInv, Alone, Quiet, LiveEnded, WriterInv, RenamedInv, RemovalInv,
         [Next]_vars
  PROVE  RenamedInv'
<1> SUFFICES ASSUME NEW r \in Requests, req'[r].pc = "renamed", req'[r].upload \notin clashed',
                    uploads'[req'[r].upload] # "ended"
             PROVE  Bytes(PathOf(r))' = req'[r].body
  BY DEF RenamedInv
<1> DEFINE f == PathOf(r)
<1>1. ASSUME Step, req[r].upload \notin clashed PROVE Bytes(PathOf(r))' = req'[r].body
  <2>1. Parting(r)'
    BY DEF Parting
  <2>2. /\ Parting(r) /\ PathOf(r)' = PathOf(r) /\ req'[r].upload = req[r].upload
        /\ req'[r].body = req[r].body /\ (req'[r] = req[r] \/ RenameTmp(r))
    BY <1>1, <2>1, PartsKept
  <2>3. f \in Files /\ f[1] = req[r].upload /\ req[r].upload \in Uploads
    BY <2>2 DEF Parting, PathOf, Files, TypeInv, RequestShape
  <2> SUFFICES ASSUME NEW g \in Files, g = f PROVE Bytes(g)' = req[r].body
    BY <2>2, <2>3 DEF Bytes
  <2>4. CASE RenameTmp(r)
    BY <1>1, <2>4, RenamesPart DEF Renamed
  <2>5. CASE req'[r] = req[r]
    <3>1. uploads[req[r].upload] # "ended"
      BY <1>1, <2>2, <2>3, Ending
    <3>2. Bytes(g) = req[r].body
      BY <1>1, <2>5, <3>1 DEF RenamedInv
    <3>3. ~\E q \in Requests : Renamed(q, g)
      <4> SUFFICES ASSUME NEW q \in Requests, Renamed(q, g) PROVE FALSE
        OBVIOUS
      <4>1. req[q].pc = "written" /\ PathOf(q) = f
        BY DEF Renamed, RenameTmp
      <4>2. q = r
        BY <1>1, <2>2, <4>1, OnePart DEF Parting
      <4> QED
        BY <2>5, <4>1, <4>2
    <3>4. ~Removed(g)
      <4>1. ~\E q \in Requests : req[q].pc = "removing" /\ g \in req[q].rm
        BY <1>1, <2>3, <3>1 DEF RemovalInv
      <4>2. ASSUME NEW v \in Requests, NEW n \in Nums, FreeChunk(v, n)
            PROVE  g # <<objects[v].upload, n>>
        <5>1. uploads[objects[v].upload] = "ended"
          BY <4>2, ChunkLive DEF FreeChunk
        <5> QED
          BY <2>3, <3>1, <5>1
      <4>3. ~SweepFile
        BY <1>1, <2>2 DEF SweepFile, Quiet, InFlight, Parting
      <4>4. ~Restart
        BY <2>2, FreshClosed DEF Restart, InFlight, Parting
      <4> QED
        BY <4>1, <4>2, <4>3, <4>4 DEF Removed
    <3>5. Kept(g)
      BY <1>1, <2>3, <3>3, <3>4, FileStep
    <3> QED
      BY <3>2, <3>5 DEF Kept
  <2> QED
    BY <2>2, <2>4, <2>5
<1>2. ASSUME NEW q \in Requests, NEW u \in Uploads, NEW kind \in Kinds,
             NEW n \in AskedNums \cup {None}, Begins(q, kind, u, n)
      PROVE  Bytes(PathOf(r))' = req'[r].body
  <2>1. req'[r] = req[r] /\ UNCHANGED <<uploads, disk>> /\ clashed \subseteq clashed'
    BY <1>2 DEF Begins
  <2>2. PathOf(r)' = PathOf(r) /\ Bytes(PathOf(r)) = req[r].body
    BY <2>1 DEF RenamedInv, PathOf
  <2> QED
    BY <2>1, <2>2 DEF Bytes, disk
<1>3. Step => req[r].upload \notin clashed
  <2>1. Parting(r)'
    BY DEF Parting
  <2> QED
    BY <2>1, StepMoves, PartsKept
<1> QED
  BY <1>1, <1>2, <1>3, EveryStep

LEMMA DisruptionsGrow ==
  ASSUME TypeInv, [Next]_vars
  PROVE  /\ disruptions # 0 => disruptions' # 0
         /\ Disrupt => disruptions' # 0
<1>1. Disrupt \/ UNCHANGED disruptions
  BY DEF Next, Initiate, BeginPart, BeginComplete, BeginAbort, PartStep, OpenTmp, WriteTmp,
         RenameTmp, SavePart, EndStep, CommitComplete, CommitAbort, RemoveFile, Respond,
         DropRequest, StoreChunk, FreeChunk, GcStep, ReadChunkPaths, ReadPartPaths, ListFiles,
         SweepFile, Restart, vars
<1>2. Disrupt => disruptions' # 0
  BY DEF Disrupt, TypeInv, TypeOK
<1> QED
  BY <1>1, <1>2

LEMMA WipeStep ==
  ASSUME TypeInv, LateWipe, [Next]_vars
  PROVE  LateWipe'
<1>1. Disrupt \/ UNCHANGED wiped
  BY DEF Next, Initiate, BeginPart, BeginComplete, BeginAbort, Notice, NoticeBody, Remember,
         PartStep, OpenTmp, WriteTmp, RenameTmp, SavePart, EndStep, CommitComplete, CommitAbort,
         RemoveFile, Respond, DropRequest, StoreChunk, FreeChunk, GcStep, ReadChunkPaths,
         ReadPartPaths, ListFiles, SweepFile, Restart, vars, history
<1> QED
  BY <1>1, DisruptionsGrow DEF LateWipe

LEMMA LateStep ==
  ASSUME TypeInv, KindInv, Alone, LatePart, [Next]_vars
  PROVE  LatePart'
<1>1. disruptions # 0 => disruptions' # 0
  BY DisruptionsGrow
<1> SUFFICES ASSUME NEW r \in Requests, Parting(r)', req'[r].upload \notin clashed',
                    uploads'[req'[r].upload] # "open"
             PROVE  disruptions' # 0
  BY DEF LatePart, Parting
<1>2. CASE Step
  <2>1. /\ Parting(r) /\ req'[r].upload = req[r].upload
        /\ req[r].upload \in Uploads /\ req[r].upload \notin clashed
    BY <1>2, PartsKept, StepMoves DEF Parting, TypeInv, RequestShape
  <2>2. ~\E q \in Requests : Touches(q, req[r].upload) /\ req[q].pc # "renamed"
    BY <2>1 DEF Touches, Alone, KindInv, InFlight, Parting
  <2>3. uploads[req[r].upload] # "open"
    <3>1. ASSUME NEW q \in Requests, SavePart(q) PROVE UNCHANGED uploads
      BY <3>1 DEF SavePart
    <3>2. ASSUME NEW q \in Requests, CommitComplete(q) \/ CommitAbort(q),
                 req[q].upload = req[r].upload
          PROVE  FALSE
      BY <2>2, <3>2, CommitGoes DEF Touches, CommitComplete, CommitAbort
    <3>3. ASSUME NEW q \in Requests, CommitComplete(q) \/ CommitAbort(q)
          PROVE  uploads'[req[r].upload] = uploads[req[r].upload]
      BY <2>1, <3>2, <3>3 DEF CommitComplete, CommitAbort, TypeInv, TypeOK
    <3>4. ASSUME NEW u \in Uploads, Initiate(u), uploads[req[r].upload] = "open"
          PROVE  uploads'[req[r].upload] = "open"
      BY <2>1, <3>4 DEF Initiate, TypeInv, TypeOK
    <3> QED
      BY <1>2, <2>1, <3>1, <3>3, <3>4
         DEF Step, PartStep, OpenTmp, WriteTmp, RenameTmp, EndStep, RemoveFile, Respond,
             DropRequest, StoreChunk, FreeChunk, GcStep, ReadChunkPaths, ReadPartPaths,
             ListFiles, SweepFile, Restart, vars, tables
  <2> QED
    BY <1>1, <2>1, <2>3 DEF LatePart
<1>3. ASSUME NEW q \in Requests, NEW u \in Uploads, NEW n \in AskedNums, NEW b \in Bodies,
             BeginPart(q, u, n, b)
      PROVE  disruptions' # 0
  <2>1. Begins(q, "part", u, n)
    BY <1>3, PartBegins
  <2>2. CASE q = r
    <3>1. req'[r].upload = u /\ UNCHANGED uploads
      BY <2>1, <2>2 DEF Begins
    <3>2. Disrupt
      BY <1>3, <3>1 DEF BeginPart
    <3> QED
      BY <3>2 DEF Disrupt, TypeInv, TypeOK
  <2>3. CASE q # r
    <3>1. req'[r] = req[r] /\ UNCHANGED uploads /\ clashed \subseteq clashed'
      BY <2>1, <2>3 DEF Begins
    <3> QED
      BY <1>1, <3>1 DEF LatePart, Parting
  <2> QED
    BY <2>2, <2>3
<1>4. ASSUME NEW q \in Requests, NEW u \in Uploads, BeginComplete(q, u) \/ BeginAbort(q, u)
      PROVE  disruptions' # 0
  <2> PICK kind \in {"complete", "abort"} : Begins(q, kind, u, None)
    BY <1>4, EndBegins
  <2>1. /\ req'[r] = req[r] /\ UNCHANGED uploads /\ clashed \subseteq clashed'
    BY DEF Begins, Parting
  <2> QED
    BY <1>1, <2>1 DEF LatePart, Parting
<1> QED
  BY <1>2, <1>3, <1>4 DEF Next, Step

-----------------------------------------------------------------------------
(* Where rows come from *)

LEMMA LiveFrom ==
  ASSUME TypeInv, [Next]_vars, NEW q \in Live'
  PROVE  \/ CommitComplete(q) /\ objects'[q] = Made(q)
         \/ /\ q \in Live /\ objects'[q].upload = objects[q].upload
            /\ \A n \in Nums :
                 \/ objects'[q].chunks[n] = objects[q].chunks[n]
                 \/ StoreChunk(q, n) /\ objects'[q].chunks[n] = Sent(q, n)
                 \/ FreeChunk(q, n) /\ objects'[q].chunks[n] = Freed(q, n)
<1>1. q \in Requests /\ objects'[q].live
  BY DEF Live
<1>2. ASSUME NEW r \in Requests, CommitComplete(r)
      PROVE  (q = r /\ objects'[q] = Made(q)) \/ (objects'[q] = objects[q] /\ q \in Live)
  <2>1. q = r => objects'[q] = Made(q)
    BY <1>2, CommittedObjects
  <2>2. q # r => objects'[q] \in {NoObject, objects[q]}
    BY <1>1, <1>2, CommittedObjects
  <2>3. ~NoObject.live
    BY DEF NoObject
  <2> QED
    BY <1>1, <2>1, <2>2, <2>3 DEF Live
<1>3. ASSUME NEW v \in Requests, NEW m \in Nums, StoreChunk(v, m) \/ FreeChunk(v, m)
      PROVE  /\ q \in Live /\ objects'[q].upload = objects[q].upload
             /\ \A n \in Nums :
                 \/ objects'[q].chunks[n] = objects[q].chunks[n]
                 \/ StoreChunk(q, n) /\ objects'[q].chunks[n] = Sent(q, n)
                 \/ FreeChunk(q, n) /\ objects'[q].chunks[n] = Freed(q, n)
  <2>1. ASSUME NEW c \in ChunkRow, ChunkBecomes(v, m, c)
        PROVE  /\ q \in Live /\ objects'[q].upload = objects[q].upload
               /\ \A n \in Nums : q # v \/ n # m => objects'[q].chunks[n] = objects[q].chunks[n]
               /\ objects'[v].chunks[m] = c
    <3>1. objects[v].upload \in Uploads
      BY <1>3, WorkerRow
    <3>2. /\ objects'[v].chunks[m] = c
          /\ \A p \in Requests : /\ objects'[p].upload = objects[p].upload
                                 /\ objects'[p].live = objects[p].live
          /\ \A p \in Requests, n \in Nums :
               p # v \/ n # m => objects'[p].chunks[n] = objects[p].chunks[n]
      BY <2>1, <3>1, ChunkTurn
    <3> QED
      BY <1>1, <3>2 DEF Live
  <2>2. StoreChunk(v, m) => Sent(v, m) \in ChunkRow /\ ChunkBecomes(v, m, Sent(v, m))
    BY <1>3, WorkerRow DEF StoreChunk, Sent
  <2>3. FreeChunk(v, m) => Freed(v, m) \in ChunkRow /\ ChunkBecomes(v, m, Freed(v, m))
    BY <1>3, WorkerRow DEF FreeChunk, Freed
  <2>4. CASE StoreChunk(v, m)
    BY <2>1, <2>2, <2>4
  <2>5. CASE FreeChunk(v, m)
    BY <2>1, <2>3, <2>5
  <2> QED
    BY <1>3, <2>4, <2>5
<1>4. CASE UNCHANGED objects
  BY <1>1, <1>4 DEF Live
<1> QED
  BY <1>2, <1>3, <1>4
     DEF Next, Initiate, BeginPart, BeginComplete, BeginAbort, PartStep, OpenTmp, WriteTmp,
         RenameTmp, SavePart, EndStep, CommitAbort, RemoveFile, Respond, DropRequest, GcStep,
         ReadChunkPaths, ReadPartPaths, ListFiles, SweepFile, Restart, vars, tables

LEMMA RowFrom ==
  ASSUME TypeInv, [Next]_vars, NEW u \in Uploads, NEW n \in Nums
  PROVE  \/ parts'[u][n] \in {None, parts[u][n]}
         \/ \E r \in Requests : /\ SavePart(r) /\ PathOf(r) = <<u, n>> /\ uploads[u] = "open"
                                /\ parts'[u][n] = req[r].body
<1>1. ASSUME NEW r \in Requests, SavePart(r), parts'[u][n] # parts[u][n]
      PROVE  PathOf(r) = <<u, n>> /\ uploads[u] = "open" /\ parts'[u][n] = req[r].body
  <2>1. req[r].upload \in Uploads /\ req[r].num \in Nums
    BY <1>1 DEF SavePart, TypeInv, RequestShape
  <2> QED
    BY <1>1, <2>1 DEF SavePart, PathOf, TypeInv, TypeOK, PartRows
<1>2. ASSUME NEW r \in Requests, CommitComplete(r) \/ CommitAbort(r)
      PROVE  parts'[u][n] \in {None, parts[u][n]}
  BY <1>2 DEF CommitComplete, CommitAbort, NoParts, TypeInv, TypeOK
<1>3. UNCHANGED parts => parts'[u][n] = parts[u][n]
  OBVIOUS
<1> QED
  BY <1>1, <1>2, <1>3
     DEF Next, Initiate, BeginPart, BeginComplete, BeginAbort, PartStep, OpenTmp, WriteTmp,
         RenameTmp, EndStep, RemoveFile, Respond, DropRequest, StoreChunk, FreeChunk, GcStep,
         ReadChunkPaths, ReadPartPaths, ListFiles, SweepFile, Restart, vars, tables

LEMMA ChunkStep ==
  ASSUME TypeInv, LiveEnded, ChunkInv, [Next]_vars
  PROVE  ChunkInv'
<1> SUFFICES ASSUME NEW q \in Requests, NEW n \in Nums
             PROVE  LET c == objects'[q].chunks[n] IN
                    (c.state = "none" <=> c.body = None) /\ (c.state = "pending" => c.path)
  BY DEF ChunkInv
<1>1. CASE q \notin Live'
  <2>1. objects'[q] = NoObject
    BY <1>1, LiveStep DEF LiveEnded, Live
  <2> QED
    BY <2>1 DEF NoObject, NoChunk
<1>2. ASSUME q \in Live', CommitComplete(q), objects'[q] = Made(q)
      PROVE  LET c == objects'[q].chunks[n] IN
             (c.state = "none" <=> c.body = None) /\ (c.state = "pending" => c.path)
  BY <1>2 DEF Made, ChunksOf, NoChunk
<1>3. objects[q].chunks[n] \in ChunkRow
  BY DEF TypeInv, TypeOK, ObjectRow
<1>4. ASSUME objects'[q].chunks[n] = Sent(q, n), StoreChunk(q, n)
      PROVE  LET c == objects'[q].chunks[n] IN
             (c.state = "none" <=> c.body = None) /\ (c.state = "pending" => c.path)
  <2>1. objects[q].chunks[n].state = "pending" /\ objects[q].chunks[n].body # None
    BY <1>4 DEF StoreChunk, ChunkInv
  <2> QED
    BY <1>3, <1>4, <2>1 DEF Sent, ChunkRow
<1>5. ASSUME objects'[q].chunks[n] = Freed(q, n), FreeChunk(q, n)
      PROVE  LET c == objects'[q].chunks[n] IN
             (c.state = "none" <=> c.body = None) /\ (c.state = "pending" => c.path)
  <2>1. objects[q].chunks[n].state = "remote" /\ objects[q].chunks[n].body # None
    BY <1>5 DEF FreeChunk, ChunkInv
  <2> QED
    BY <1>3, <1>5, <2>1 DEF Freed, ChunkRow
<1>6. ASSUME objects'[q].chunks[n] = objects[q].chunks[n]
      PROVE  LET c == objects'[q].chunks[n] IN
             (c.state = "none" <=> c.body = None) /\ (c.state = "pending" => c.path)
  BY <1>6 DEF ChunkInv
<1> QED
  BY <1>1, <1>2, <1>4, <1>5, <1>6, LiveFrom

-----------------------------------------------------------------------------
(* Files that are to be removed *)

LEMMA RemovalFrom ==
  ASSUME TypeInv, [Next]_vars, NEW r \in Requests, req'[r].pc = "removing"
  PROVE  \/ CommitComplete(r) /\ req'[r].rm = FilesOf(Replaced)
         \/ /\ CommitAbort(r)
            /\ req'[r].rm = {<<req[r].upload, n>> : n \in {m \in Nums : req[r].snap[m] # None}}
         \/ req[r].pc = "removing" /\ req'[r].rm \subseteq req[r].rm
<1>1. ASSUME NEW q \in Requests, CommitComplete(q)
      PROVE  req'[r] = req[r] \/ (q = r /\ req'[r].rm = FilesOf(Replaced))
  BY <1>1 DEF CommitComplete, Become, RequestAt, TypeInv, TypeOK
<1>2. ASSUME NEW q \in Requests, CommitAbort(q)
      PROVE  \/ req'[r] = req[r]
             \/ /\ q = r
                /\ req'[r].rm = {<<req[r].upload, n>> : n \in {m \in Nums : req[r].snap[m] # None}}
  BY <1>2 DEF CommitAbort, Become, RequestAt, TypeInv, TypeOK
<1>3. ASSUME NEW q \in Requests, RemoveFile(q)
      PROVE  req[r].pc = "removing" /\ req'[r].rm \subseteq req[r].rm
  <2> PICK f : req[q].pc = "removing" /\ Become(q, [req[q] EXCEPT !.rm = @ \ {f}])
    BY <1>3 DEF RemoveFile
  <2> QED
    BY DEF Become, TypeInv, TypeOK, Request
<1>4. ASSUME Step, ~\E q \in Requests : CommitComplete(q) \/ CommitAbort(q) \/ RemoveFile(q)
      PROVE  req'[r] = req[r]
  <2>1. ASSUME NEW q \in Requests, PartStep(q) PROVE req'[r] = req[r]
    <3>1. q # r => req'[r] = req[r]
      BY <2>1 DEF PartStep, OpenTmp, WriteTmp, RenameTmp, SavePart, Become, TypeInv, TypeOK
    <3>2. req[q] \in Request
      BY DEF TypeInv, TypeOK
    <3>3. CASE OpenTmp(q)
      <4>1. \E i : req'[q] = [req[q] EXCEPT !.pc = "opened", !.inode = i]
        BY <3>3 DEF OpenTmp, Become, TypeInv, TypeOK
      <4>2. req'[q].pc = "opened"
        BY <3>2, <4>1 DEF Request
      <4> QED
        BY <3>1, <4>2
    <3>4. CASE WriteTmp(q) \/ RenameTmp(q) \/ SavePart(q)
      <4>1. \/ req'[q] = Closed
            \/ \E pc \in {"written", "renamed"} : req'[q] = [req[q] EXCEPT !.pc = pc]
        BY <3>4 DEF WriteTmp, RenameTmp, SavePart, Become, TypeInv, TypeOK
      <4>2. req'[q].pc # "removing"
        BY <3>2, <4>1, FreshClosed DEF Request
      <4> QED
        BY <3>1, <4>2
    <3> QED
      BY <2>1, <3>3, <3>4 DEF PartStep
  <2>2. ASSUME NEW q \in Requests, Respond(q) \/ DropRequest(q) PROVE req'[r] = req[r]
    BY <2>2, FreshClosed DEF Respond, DropRequest, Become, TypeInv, TypeOK
  <2>3. CASE Restart
    BY <2>3, FreshClosed DEF Restart
  <2> QED
    BY <1>4, <2>1, <2>2, <2>3
       DEF Step, EndStep, Initiate, StoreChunk, FreeChunk, GcStep, ReadChunkPaths,
           ReadPartPaths, ListFiles, SweepFile, vars
<1>5. ASSUME NEW q \in Requests, NEW u \in Uploads, NEW kind \in Kinds,
             NEW n \in AskedNums \cup {None}, Begins(q, kind, u, n)
      PROVE  req'[r] = req[r]
  BY <1>5 DEF Begins
<1> QED
  BY <1>1, <1>2, <1>3, <1>4, <1>5, EveryStep

\* A completion of an upload that is over has clashed.
LEMMA NoLateCommit ==
  ASSUME ReadyInv, NEW r \in Requests, CommitComplete(r), uploads[req[r].upload] = "ended"
  PROVE  req[r].upload \in clashed
  BY DEF ReadyInv, CommitComplete

LEMMA RemovalStep ==
  ASSUME TypeInv, TypeInv', EndedHasNoRows, ReadyInv, LiveEnded, UniqueInv, RemovalInv,
         [Next]_vars, clashed \subseteq clashed'
  PROVE  RemovalInv'
<1> SUFFICES ASSUME NEW r \in Requests, NEW f \in req'[r].rm, req'[r].pc = "removing",
                    f[1] \notin clashed'
             PROVE  /\ uploads'[f[1]] = "ended"
                    /\ \A q \in Live' : objects'[q].upload # f[1]
  BY DEF RemovalInv
<1>1. f \in Files /\ f[1] \in Uploads /\ f[1] \notin clashed
  BY DEF TypeInv, TypeOK, Request, Files
<1>2. ASSUME req[r].pc = "removing", f \in req[r].rm
      PROVE  /\ uploads'[f[1]] = "ended"
             /\ \A q \in Live' : objects'[q].upload # f[1]
  <2>1. uploads[f[1]] = "ended" /\ \A q \in Live : objects[q].upload # f[1]
    BY <1>1, <1>2 DEF RemovalInv
  <2>2. \A q \in Requests : CommitComplete(q) => Made(q).upload # f[1]
    BY <1>1, <2>1, NoLateCommit DEF Made
  <2> QED
    BY <1>1, <2>1, <2>2, Ending, LiveFrom DEF Live
<1>3. ASSUME CommitComplete(r), f \in FilesOf(Replaced)
      PROVE  /\ uploads'[f[1]] = "ended"
             /\ \A q \in Live' : objects'[q].upload # f[1]
  <2>1. PICK x \in Replaced : f[1] = objects[x].upload
    BY <1>3 DEF FilesOf
  <2>2. x \in Live
    BY DEF Replaced, TypeInv, TypeOK
  <2>3. uploads[f[1]] = "ended"
    BY <2>1, <2>2 DEF LiveEnded, Live
  <2>4. \A q \in Requests : CommitComplete(q) => Made(q).upload # f[1]
    BY <1>1, <2>3, NoLateCommit DEF Made
  <2>5. ASSUME NEW q \in Live', q \in Live, objects[q].upload = f[1], objects'[q].upload = f[1]
        PROVE  FALSE
    <3>1. q = x
      BY <1>1, <2>1, <2>2, <2>5 DEF UniqueInv
    <3>2. q # r
      BY <1>3, <2>4, <2>5, CommittedObjects
    <3>3. objects'[q] = NoObject
      BY <1>3, <3>1, <3>2 DEF CommitComplete, Live
    <3> QED
      BY <3>3 DEF Live, NoObject
  <2> QED
    BY <1>1, <2>3, <2>4, <2>5, Ending, LiveFrom DEF Live
<1>4. ASSUME CommitAbort(r),
             f \in {<<req[r].upload, n>> : n \in {m \in Nums : req[r].snap[m] # None}}
      PROVE  /\ uploads'[f[1]] = "ended"
             /\ \A q \in Live' : objects'[q].upload # f[1]
  <2>1. f[1] = req[r].upload /\ \E n \in Nums : req[r].snap[n] # None
    BY <1>4
  <2>2. \E n \in Nums : parts[f[1]][n] # None
    BY <1>1, <1>4, <2>1 DEF CommitAbort, ReadyInv
  <2>3. uploads[f[1]] = "open"
    BY <1>1, <2>2 DEF EndedHasNoRows, NoParts
  <2>4. UNCHANGED objects /\ uploads'[f[1]] = "ended"
    BY <1>1, <1>4, <2>1 DEF CommitAbort, TypeInv, TypeOK
  <2> QED
    BY <2>3, <2>4 DEF LiveEnded, Live
<1> QED
  BY <1>2, <1>3, <1>4, RemovalFrom

-----------------------------------------------------------------------------
(* Files that are swept *)

LEMMA PendingFrom ==
  ASSUME TypeInv, [Next]_vars, NEW f \in Files, Pending(f)'
  PROVE  Pending(f) \/ \E q \in Requests : CommitComplete(q) /\ req[q].upload = f[1]
<1> PICK q \in Live' : objects'[q].upload = f[1] /\ objects'[q].chunks[f[2]].state = "pending"
  BY DEF Pending
<1>1. f[2] \in Nums
  BY DEF Files
<1>2. objects[q].chunks[f[2]] \in ChunkRow
  BY <1>1 DEF TypeInv, TypeOK, ObjectRow, Live
<1>3. CASE CommitComplete(q) /\ objects'[q] = Made(q)
  BY <1>3 DEF Made, Live
<1>4. CASE q \in Live /\ objects'[q].upload = objects[q].upload
           /\ \/ objects'[q].chunks[f[2]] = objects[q].chunks[f[2]]
              \/ StoreChunk(q, f[2]) /\ objects'[q].chunks[f[2]] = Sent(q, f[2])
              \/ FreeChunk(q, f[2]) /\ objects'[q].chunks[f[2]] = Freed(q, f[2])
  <2>1. Sent(q, f[2]).state # "pending"
    BY <1>2 DEF Sent, ChunkRow
  <2>2. FreeChunk(q, f[2]) => Freed(q, f[2]).state # "pending"
    BY <1>2 DEF FreeChunk, Freed, ChunkRow
  <2> QED
    BY <1>4, <2>1, <2>2 DEF Pending
<1> QED
  BY <1>1, <1>3, <1>4, LiveFrom

LEMMA HasRowFrom ==
  ASSUME TypeInv, [Next]_vars, NEW f \in Files, HasRow(f)'
  PROVE  HasRow(f) \/ \E r \in Requests : SavePart(r) /\ req[r].upload = f[1]
<1>1. f[1] \in Uploads /\ f[2] \in Nums /\ f = <<f[1], f[2]>>
  BY DEF Files
<1>2. \/ parts'[f[1]][f[2]] \in {None, parts[f[1]][f[2]]}
      \/ \E r \in Requests : SavePart(r) /\ PathOf(r) = <<f[1], f[2]>>
  BY <1>1, RowFrom
<1> QED
  BY <1>2 DEF HasRow, PathOf

LEMMA SweepStep ==
  ASSUME TypeInv, Quiet, ChunkInv, SweepInv, [Next]_vars, clashed \subseteq clashed'
  PROVE  SweepInv'
<1> SUFFICES ASSUME NEW f \in Files, f[1] \notin clashed'
             PROVE  /\ gc'.pc = "chunks" /\ Pending(f)' => f \in gc'.paths
                    /\ gc'.pc = "parts" /\ (Pending(f)' \/ HasRow(f)') => f \in gc'.paths
                    /\ gc'.pc = "sweeping" /\ (Pending(f)' \/ HasRow(f)') => f \notin gc'.paths
  BY DEF SweepInv
<1>1. /\ gc.pc = "chunks" /\ Pending(f) => f \in gc.paths
      /\ gc.pc = "parts" /\ (Pending(f) \/ HasRow(f)) => f \in gc.paths
      /\ gc.pc = "sweeping" /\ (Pending(f) \/ HasRow(f)) => f \notin gc.paths
  BY DEF SweepInv
<1>2. GcStep => Pending(f)' = Pending(f) /\ HasRow(f)' = HasRow(f)
  BY DEF GcStep, ReadChunkPaths, ReadPartPaths, ListFiles, SweepFile, tables, Pending, HasRow, Live
<1>3. CASE ReadChunkPaths
  <2>1. Pending(f) => f \in FilesOf(Live)
    <3> SUFFICES ASSUME NEW q \in Live, objects[q].upload = f[1],
                        objects[q].chunks[f[2]].state = "pending"
                 PROVE  f \in FilesOf(Live)
      BY DEF Pending
    <3>1. f[2] \in Nums /\ f = <<objects[q].upload, f[2]>>
      BY DEF Files
    <3>2. <<q, f[2]>> \in {y \in Live \X Nums : objects[y[1]].chunks[y[2]].path}
      BY <3>1 DEF ChunkInv, Live
    <3> QED
      BY <3>1, <3>2 DEF FilesOf
  <2>2. gc'.pc = "chunks" /\ gc'.paths = FilesOf(Live)
    BY <1>3 DEF ReadChunkPaths, SweepBecomes
  <2> QED
    BY <1>2, <1>3, <2>1, <2>2 DEF GcStep
<1>4. CASE ReadPartPaths
  <2>1. gc.pc = "chunks" /\ gc'.pc = "parts" /\ gc'.paths = gc.paths \cup PartFiles
    BY <1>4 DEF ReadPartPaths, SweepBecomes
  <2>2. HasRow(f) => f \in PartFiles
    BY DEF HasRow, PartFiles
  <2> QED
    BY <1>1, <1>2, <1>4, <2>1, <2>2 DEF GcStep
<1>5. CASE ListFiles
  <2>1. /\ gc.pc = "parts" /\ gc'.pc \in {"idle", "sweeping"}
        /\ gc'.paths = {g \in Files : file[g] # None} \ gc.paths
    BY <1>5 DEF ListFiles, SweepGoesOn, SweepBecomes
  <2> QED
    BY <1>1, <1>2, <1>5, <2>1 DEF GcStep
<1>6. CASE SweepFile
  <2>1. /\ gc.pc = "sweeping" /\ gc'.pc \in {"idle", "sweeping"}
        /\ gc'.paths \subseteq gc.paths
    BY <1>6 DEF SweepFile, SweepGoesOn, SweepBecomes
  <2> QED
    BY <1>1, <1>2, <1>6, <2>1 DEF GcStep
<1>7. CASE Restart
  BY <1>7 DEF Restart, SweepBecomes
<1>8. CASE UNCHANGED gc
  <2>1. ASSUME NEW q \in Requests, CommitComplete(q) \/ SavePart(q), req[q].upload = f[1]
        PROVE  gc.pc = "idle"
    BY <2>1 DEF CommitComplete, SavePart, Quiet, InFlight
  <2> QED
    BY <1>1, <1>8, <2>1, PendingFrom, HasRowFrom
<1>9. \/ GcStep
      \/ Restart
      \/ UNCHANGED gc
  BY DEF Next, Initiate, BeginPart, BeginComplete, BeginAbort, PartStep, OpenTmp, WriteTmp,
         RenameTmp, SavePart, EndStep, CommitComplete, CommitAbort, RemoveFile, Respond,
         DropRequest, StoreChunk, FreeChunk, vars
<1> QED
  BY <1>3, <1>4, <1>5, <1>6, <1>7, <1>8, <1>9 DEF GcStep

-----------------------------------------------------------------------------
(* One body per part *)

LEMMA Remembered ==
  ASSUME NEW clash, NEW first, NEW twice, Remember(clash, first, twice),
         rewritten.twice \subseteq twice, NEW u \in Uploads, u \notin clashed'
  PROVE  /\ u \notin clashed
         /\ u \notin rewritten'.twice =>
              u \notin twice /\ u \notin rewritten.twice /\ rewritten'.first[u] = first[u]
  BY DEF Remember

\* What is remembered of a part, where nothing is sent, ...
LEMMA FirstKept ==
  ASSUME Step \/ \E r \in Requests, v \in Uploads : BeginComplete(r, v) \/ BeginAbort(r, v),
         NEW u \in Uploads, u \notin clashed'
  PROVE  /\ u \notin clashed
         /\ u \notin rewritten'.twice =>
              u \notin rewritten.twice /\ rewritten'.first[u] = rewritten.first[u]
<1>1. ASSUME NEW clash, Notice(clash)
      PROVE  /\ u \notin clashed
             /\ u \notin rewritten'.twice =>
                  u \notin rewritten.twice /\ rewritten'.first[u] = rewritten.first[u]
  BY <1>1, Remembered DEF Notice
<1>2. \/ UNCHANGED <<clashed, rewritten>>
      \/ \E clash : Notice(clash)
  BY DEF Step, Initiate, BeginComplete, BeginAbort, PartStep, OpenTmp, WriteTmp,
         RenameTmp, SavePart, EndStep, CommitComplete, CommitAbort, RemoveFile, Respond,
         DropRequest, StoreChunk, FreeChunk, GcStep, ReadChunkPaths, ReadPartPaths, ListFiles,
         SweepFile, Restart, vars, history
<1>3. CASE UNCHANGED <<clashed, rewritten>>
  BY <1>3
<1> QED
  BY <1>1, <1>2, <1>3

\* ... and where a part is.
LEMMA FirstSent ==
  ASSUME TypeInv, NEW r \in Requests, NEW v \in Uploads, NEW m \in AskedNums, NEW b \in Bodies,
         BeginPart(r, v, m, b), NEW u \in Uploads, u \notin clashed'
  PROVE  /\ u \notin clashed
         /\ u \notin rewritten'.twice =>
              /\ u \notin rewritten.twice
              /\ \A n \in Nums :
                   IF u = v /\ n = m
                   THEN rewritten'.first[u][n] = b /\ rewritten.first[u][n] \in {None, b}
                   ELSE rewritten'.first[u][n] = rewritten.first[u][n]
<1> DEFINE first == [rewritten.first EXCEPT ![v][m] = IF @ = None THEN b ELSE @]
           twice == rewritten.twice \cup (IF rewritten.first[v][m] \in {None, b} THEN {} ELSE {v})
<1>1. Remember(Clash(r, "part", v, m), first, twice)
  BY DEF BeginPart, NoticeBody
<1>2. /\ u \notin clashed
      /\ u \notin rewritten'.twice =>
           u \notin twice /\ u \notin rewritten.twice /\ rewritten'.first[u] = first[u]
  <2>1. rewritten.twice \subseteq twice
    OBVIOUS
  <2> HIDE DEF first, twice
  <2> QED
    BY <1>1, <2>1, Remembered
<1>3. \A n \in Nums : first[u][n] = IF u = v /\ n = m
                                    THEN IF rewritten.first[v][m] = None THEN b ELSE rewritten.first[v][m]
                                    ELSE rewritten.first[u][n]
  <2>1. rewritten.first \in [Uploads -> [AskedNums -> Bodies \cup {None}]]
    BY DEF TypeInv, TypeOK
  <2>2. Nums \subseteq AskedNums
    BY MultipartAssumption DEF Nums, AskedNums
  <2> QED
    BY <2>1, <2>2
<1>4. u = v /\ u \notin twice => rewritten.first[u][m] \in {None, b}
  OBVIOUS
<1> HIDE DEF first, twice
<1> QED
  BY <1>2, <1>3, <1>4

LEMMA FirstMoves ==
  ASSUME TypeInv, Names, WriterInv, ReadyInv, ChunkInv, Step,
         NEW u \in Uploads, NEW n \in Nums, NEW first, u \notin clashed, FirstOf(u, n, first)
  PROVE  FirstOf(u, n, first)'
<1> DEFINE f == <<u, n>>
<1>1. f \in Files /\ f[1] = u /\ f[2] = n
  BY DEF Files
<1>2. [Next]_vars
  BY DEF Step, Next
<1>3. parts'[u][n] \in {None, first}
  <2>1. ASSUME NEW r \in Requests, SavePart(r), PathOf(r) = <<u, n>> PROVE req[r].body = first
    BY <2>1 DEF SavePart, FirstOf, Parting
  <2> QED
    BY <1>2, <2>1, RowFrom DEF FirstOf
<1>4. ASSUME file'[f] # None PROVE first # None /\ Bytes(f)' = first
  <2>1. ASSUME NEW r \in Requests, Renamed(r, f) PROVE req[r].body = first /\ first # None
    <3>1. Parting(r) /\ PathOf(r) = <<u, n>>
      BY <2>1 DEF Renamed, RenameTmp, Parting
    <3>2. req[r].body \in Bodies
      BY <3>1 DEF Parting, TypeInv, RequestShape
    <3> QED
      BY <3>1, <3>2, MultipartAssumption DEF FirstOf
  <2>2. Kept(f) => first # None /\ Bytes(f)' = first
    BY <1>4 DEF Kept, FirstOf
  <2>3. ~Removed(f)
    BY <1>4 DEF Removed
  <2> QED
    BY <1>1, <2>1, <2>2, <2>3, FileStep DEF Renamed
<1>5. ASSUME NEW r \in Requests, Parting(r)', PathOf(r)' = <<u, n>> PROVE req'[r].body = first
  BY <1>5, PartsKept DEF FirstOf
<1>6. ASSUME NEW r \in Live', objects'[r].upload = u, objects'[r].chunks[n].state # "none"
      PROVE  objects'[r].chunks[n].body = first
  <2>1. CASE CommitComplete(r) /\ objects'[r] = Made(r)
    <3>1. req[r].upload = u /\ req[r].snap = parts[u]
      BY <1>6, <2>1 DEF CommitComplete, Made, ReadyInv, Live
    <3>2. objects'[r].chunks[n] = ChunksOf(parts[u])[n]
      BY <2>1, <3>1 DEF Made
    <3>3. parts[u][n] # None /\ objects'[r].chunks[n].body = parts[u][n]
      BY <1>6, <3>2 DEF ChunksOf, NoChunk
    <3> QED
      BY <3>3 DEF FirstOf
  <2>2. ASSUME r \in Live, objects'[r].upload = objects[r].upload
        PROVE  objects[r].chunks[n].state # "none" => objects[r].chunks[n].body = first
    BY <1>6, <2>2 DEF FirstOf
  <2>3. objects[r].chunks[n] \in ChunkRow
    BY <1>6 DEF TypeInv, TypeOK, ObjectRow, Live
  <2>4. StoreChunk(r, n) => Sent(r, n).body = objects[r].chunks[n].body /\ objects[r].chunks[n].state # "none"
    BY <2>3 DEF StoreChunk, Sent, ChunkRow
  <2>5. FreeChunk(r, n) => Freed(r, n).body = objects[r].chunks[n].body /\ objects[r].chunks[n].state # "none"
    BY <2>3 DEF FreeChunk, Freed, ChunkRow
  <2> QED
    BY <1>2, <1>6, <2>1, <2>2, <2>4, <2>5, LiveFrom
<1> HIDE DEF f
<1> QED
  BY <1>3, <1>4, <1>5, <1>6 DEF FirstOf, f

LEMMA FirstBegins ==
  ASSUME TypeInv, ChunkInv, NEW r \in Requests, NEW v \in Uploads, NEW kind \in Kinds,
         NEW m \in AskedNums \cup {None}, Begins(r, kind, v, m),
         NEW u \in Uploads, NEW n \in Nums, NEW old, NEW first, FirstOf(u, n, old),
         old = first \/ (old = None /\ first # None),
         kind = "part" /\ v = u /\ m = n => req'[r].body = first,
         kind = "part" => PathOf(r)' = <<v, m>>
  PROVE  FirstOf(u, n, first)'
<1>1. UNCHANGED <<parts, objects, file, data>>
  BY DEF Begins, disk
<1>2. ASSUME NEW q \in Requests, Parting(q)', PathOf(q)' = <<u, n>> PROVE req'[q].body = first
  <2>1. CASE q = r
    BY <1>2, <2>1 DEF Begins, Parting, Kinds
  <2>2. CASE q # r
    <3>1. req'[q] = req[q] /\ PathOf(q)' = PathOf(q)
      BY <2>2, BeginsKept
    <3>2. Parting(q) /\ req[q].body = old
      BY <1>2, <3>1 DEF FirstOf, Parting
    <3>3. req[q].body # None
      BY <3>2, MultipartAssumption DEF Parting, TypeInv, RequestShape
    <3> QED
      BY <3>1, <3>2, <3>3
  <2> QED
    BY <2>1, <2>2
<1>3. \A q \in Live : objects[q].upload = u /\ objects[q].chunks[n].state # "none"
                     => objects[q].chunks[n].body = first
  BY DEF FirstOf, ChunkInv, Live
<1>4. /\ parts[u][n] \in {None, first}
      /\ file[<<u, n>>] # None => first # None /\ Bytes(<<u, n>>) = first
  BY DEF FirstOf
<1> QED
  BY <1>1, <1>2, <1>3, <1>4 DEF FirstOf, Live, Bytes

LEMMA FirstStep ==
  ASSUME TypeInv, Names, WriterInv, ReadyInv, ChunkInv, FirstInv, [Next]_vars
  PROVE  FirstInv'
<1> SUFFICES ASSUME NEW u \in Uploads, NEW n \in Nums, u \notin clashed',
                    u \notin rewritten'.twice
             PROVE  FirstOf(u, n, rewritten.first[u][n])'
  BY DEF FirstInv
<1> SUFFICES ASSUME NEW first, first = rewritten'.first[u][n]
             PROVE  FirstOf(u, n, first)'
  BY Zenon DEF FirstOf
<1>1. CASE Step
  <2>1. u \notin clashed /\ u \notin rewritten.twice /\ rewritten'.first[u] = rewritten.first[u]
    BY <1>1, FirstKept
  <2>2. FirstOf(u, n, first)
    BY <2>1 DEF FirstInv
  <2> QED
    BY <1>1, <2>1, <2>2, FirstMoves
<1>2. ASSUME NEW r \in Requests, NEW v \in Uploads, BeginComplete(r, v) \/ BeginAbort(r, v)
      PROVE  FirstOf(u, n, first)'
  <2> PICK kind \in {"complete", "abort"} : Begins(r, kind, v, None)
    BY <1>2, EndBegins
  <2>1. u \notin clashed /\ u \notin rewritten.twice /\ rewritten'.first[u] = rewritten.first[u]
    BY <1>2, FirstKept
  <2>2. FirstOf(u, n, first)
    BY <2>1 DEF FirstInv
  <2>3. kind \in Kinds /\ kind # "part"
    BY DEF Kinds
  <2> QED
    BY <2>2, <2>3, FirstBegins
<1>3. ASSUME NEW r \in Requests, NEW v \in Uploads, NEW m \in AskedNums, NEW b \in Bodies,
             BeginPart(r, v, m, b)
      PROVE  FirstOf(u, n, first)'
  <2>1. /\ u \notin clashed /\ u \notin rewritten.twice
        /\ IF u = v /\ n = m
           THEN first = b /\ rewritten.first[u][n] \in {None, b}
           ELSE first = rewritten.first[u][n]
    BY <1>3, FirstSent
  <2>2. FirstOf(u, n, rewritten.first[u][n])
    BY <2>1 DEF FirstInv
  <2>3. Begins(r, "part", v, m) /\ "part" \in Kinds
    BY <1>3, PartBegins DEF Kinds
  <2>4. req'[r].body = b /\ PathOf(r)' = <<v, m>>
    <3>1. req'[r] = [RequestAt("checked", "part", v) EXCEPT !.num = m, !.body = b]
      BY <1>3 DEF BeginPart, Become, TypeInv, TypeOK
    <3> QED
      BY <3>1 DEF RequestAt, PathOf
  <2>5. b # None
    BY MultipartAssumption
  <2>6. \/ rewritten.first[u][n] = first
        \/ rewritten.first[u][n] = None /\ first # None
    BY <2>1, <2>5
  <2> QED
    BY <2>1, <2>2, <2>3, <2>4, <2>6, FirstBegins
<1> QED
  BY <1>1, <1>2, <1>3 DEF Next, Step

-----------------------------------------------------------------------------
(* Rows and what they describe *)

LEMMA WipedGrows ==
  ASSUME [Next]_vars
  PROVE  wiped \subseteq wiped'
  BY DEF Next, BeginPart, BeginComplete, BeginAbort, Notice, NoticeBody, Remember, Initiate,
         PartStep, OpenTmp, WriteTmp, RenameTmp, SavePart, EndStep, CommitComplete, CommitAbort,
         RemoveFile, Respond, DropRequest, StoreChunk, FreeChunk, GcStep, ReadChunkPaths,
         ReadPartPaths, ListFiles, SweepFile, Restart, vars, history

LEMMA OrderlyBefore ==
  ASSUME TypeInv, [Next]_vars, NEW u \in Uploads, Orderly(u)'
  PROVE  Orderly(u) /\ (disruptions' # 0 => u \notin rewritten.twice)
<1>1. disruptions' = 0 => disruptions = 0
  BY DisruptionsGrow
<1>2. u \notin clashed'
  BY DEF Orderly
<1>3. u \notin clashed /\ (u \notin rewritten'.twice => u \notin rewritten.twice)
  <2>1. ASSUME NEW r \in Requests, NEW v \in Uploads, NEW m \in AskedNums, NEW b \in Bodies,
               BeginPart(r, v, m, b)
        PROVE  <1>3
    BY <1>2, <2>1, FirstSent
  <2>2. ASSUME Step \/ \E r \in Requests, v \in Uploads : BeginComplete(r, v) \/ BeginAbort(r, v)
        PROVE  <1>3
    BY <1>2, <2>2, FirstKept
  <2> QED
    BY <2>1, <2>2 DEF Next, Step
<1> QED
  BY <1>1, <1>3 DEF Orderly

LEMMA RenamedLeaves ==
  ASSUME TypeInv, Step, NEW r \in Requests, req[r].pc = "renamed", req'[r].pc # "renamed"
  PROVE  SavePart(r) \/ DropRequest(r) \/ Restart
<1>1. ASSUME NEW q \in Requests, PartStep(q) PROVE SavePart(r)
  <2>1. q = r
    BY <1>1 DEF PartStep, OpenTmp, WriteTmp, RenameTmp, SavePart, Become, TypeInv, TypeOK
  <2> QED
    BY <1>1, <2>1 DEF PartStep, OpenTmp, WriteTmp, RenameTmp
<1>2. ASSUME NEW q \in Requests, EndStep(q) PROVE FALSE
  <2>1. q = r
    BY <1>2 DEF EndStep, CommitComplete, CommitAbort, RemoveFile, Respond, Become, TypeInv, TypeOK
  <2> QED
    BY <1>2, <2>1 DEF EndStep, CommitComplete, CommitAbort, RemoveFile, Respond
<1>3. ASSUME NEW q \in Requests, DropRequest(q) PROVE DropRequest(r)
  <2>1. q = r
    BY <1>3 DEF DropRequest, Become, TypeInv, TypeOK
  <2> QED
    BY <1>3, <2>1
<1>4. req' # req
  OBVIOUS
<1> QED
  BY <1>1, <1>2, <1>3, <1>4
     DEF Step, Initiate, StoreChunk, FreeChunk, GcStep, ReadChunkPaths, ReadPartPaths,
         ListFiles, SweepFile, vars

\* A file whose row is there, or whose chunk is pending, is not removed.
LEMMA NeededStays ==
  ASSUME TypeInv, Quiet, LiveEnded, UniqueInv, EndedHasNoRows, ChunkInv, RemovalInv, SweepInv,
         NEW f \in Files, f[1] \notin clashed, f \notin wiped', HasRow(f) \/ Pending(f)
  PROVE  ~Removed(f)
<1>1. f[1] \in Uploads /\ f[2] \in Nums /\ f = <<f[1], f[2]>>
  BY DEF Files
<1>2. ~\E r \in Requests : req[r].pc = "removing" /\ f \in req[r].rm
  BY <1>1 DEF RemovalInv, HasRow, Pending, EndedHasNoRows, NoParts
<1>3. ASSUME NEW v \in Requests, NEW n \in Nums, FreeChunk(v, n), f = <<objects[v].upload, n>>
      PROVE  FALSE
  <2>1. objects[v].chunks[n].state = "remote"
    BY <1>3 DEF FreeChunk
  <2>2. v \in Live /\ objects[v].upload = f[1] /\ f[2] = n /\ uploads[f[1]] = "ended"
    BY <1>3, <2>1, ChunkLive
  <2>3. ~HasRow(f)
    BY <1>1, <2>2 DEF HasRow, EndedHasNoRows, NoParts
  <2>4. PICK q \in Live : objects[q].upload = f[1] /\ objects[q].chunks[f[2]].state = "pending"
    BY <2>3 DEF Pending
  <2>5. q = v
    BY <2>2, <2>4 DEF UniqueInv
  <2> QED
    BY <2>1, <2>2, <2>4, <2>5
<1>4. ~(SweepFile /\ f \in gc.paths)
  BY DEF SweepFile, SweepInv
<1>5. f \in FilesOf(Live) \cup PartFiles
  <2>1. HasRow(f) => f \in PartFiles
    BY DEF HasRow, PartFiles
  <2>2. ASSUME NEW q \in Live, objects[q].upload = f[1], objects[q].chunks[f[2]].state = "pending"
        PROVE  f \in FilesOf(Live)
    <3>1. <<q, f[2]>> \in {y \in Live \X Nums : objects[y[1]].chunks[y[2]].path}
      BY <1>1, <2>2 DEF ChunkInv, Live
    <3> QED
      BY <1>1, <2>2, <3>1 DEF FilesOf
  <2> QED
    BY <2>1, <2>2 DEF Pending
<1> QED
  BY <1>2, <1>3, <1>4, <1>5 DEF Removed

LEMMA RowStep ==
  ASSUME TypeInv, Names, KindInv, Alone, Quiet, LiveEnded, UniqueInv, EndedHasNoRows, WriterInv,
         RenamedInv, FirstInv, ChunkInv, RemovalInv, SweepInv, RowInv, [Next]_vars
  PROVE  RowInv'
<1> SUFFICES ASSUME NEW u \in Uploads, NEW n \in Nums, Orderly(u)', parts'[u][n] # None,
                    <<u, n>> \notin wiped',
                    ~\E r \in Requests : req'[r].pc = "renamed" /\ PathOf(r)' = <<u, n>>,
                    NEW f \in Files, f = <<u, n>>
             PROVE  Bytes(f)' = parts'[u][n]
  BY DEF RowInv, Bytes, Files
<1>1. Orderly(u) /\ u \notin clashed /\ f[1] = u /\ f[2] = n /\ <<u, n>> \notin wiped
      /\ (disruptions' # 0 => u \notin rewritten.twice)
  BY OrderlyBefore, WipedGrows DEF Orderly
<1>2. ASSUME NEW r \in Requests, SavePart(r), PathOf(r) = f, uploads[u] = "open",
             parts'[u][n] = req[r].body
      PROVE  Bytes(f)' = parts'[u][n]
  <2>1. req[r].pc = "renamed" /\ req[r].upload = u /\ UNCHANGED disk
    BY <1>2 DEF SavePart, PathOf
  <2>2. Bytes(f) = req[r].body
    BY <1>1, <1>2, <2>1 DEF RenamedInv
  <2> QED
    BY <1>2, <2>1, <2>2 DEF Bytes, disk
<1>3. ASSUME parts'[u][n] = parts[u][n], Step,
             ~\E r \in Requests : req[r].pc = "renamed" /\ PathOf(r) = f
      PROVE  Bytes(f)' = parts'[u][n]
  <2>1. Bytes(f) = parts[u][n]
    BY <1>1, <1>3 DEF RowInv
  <2>2. ~Removed(f)
    BY <1>1, <1>3, NeededStays DEF HasRow
  <2>3. ~\E r \in Requests : Renamed(r, f)
    <3> SUFFICES ASSUME NEW r \in Requests, Renamed(r, f) PROVE FALSE
      OBVIOUS
    <3>1. req'[r].pc = "renamed" /\ PathOf(r) = f /\ Parting(r)'
      BY DEF Renamed, Parting
    <3> QED
      BY <1>3, <3>1, PartsKept
  <2> QED
    BY <1>1, <1>3, <2>1, <2>2, <2>3, FileStep DEF Kept
<1>4. ASSUME parts'[u][n] = parts[u][n], Step,
             NEW r \in Requests, req[r].pc = "renamed", PathOf(r) = f
      PROVE  Bytes(f)' = parts'[u][n]
  <2>1. uploads[u] = "open" /\ req[r].upload = u
    BY <1>4 DEF EndedHasNoRows, NoParts, PathOf
  <2>2. Bytes(f) = req[r].body
    BY <1>1, <1>4, <2>1 DEF RenamedInv
  <2>3. req'[r].pc # "renamed"
    <3>1. req'[r].pc = "renamed" => PathOf(r)' = PathOf(r)
      BY <1>4, PartsKept DEF Parting
    <3> QED
      BY <1>4, <3>1
  <2>4. CASE SavePart(r)
    <3>1. parts'[u][n] = req[r].body
      BY <1>4, <2>1, <2>4 DEF SavePart, PathOf, TypeInv, TypeOK, PartRows
    <3> QED
      BY <1>2, <1>4, <2>1, <2>4, <3>1
  <2>5. CASE DropRequest(r) \/ Restart
    <3>1. u \notin rewritten.twice
      BY <1>1, <2>5, DisruptionsGrow DEF DropRequest, Restart
    <3>2. FirstOf(u, n, rewritten.first[u][n])
      BY <1>1, <3>1 DEF FirstInv
    <3>3. req[r].body = parts[u][n]
      BY <1>4, <3>2 DEF FirstOf, Parting
    <3>4. f \in PartFiles
      BY <1>4 DEF PartFiles
    <3>5. file'[f] = file[f] /\ UNCHANGED data
      BY <2>5, <3>4 DEF DropRequest, Restart, disk, TypeInv, TypeOK
    <3> QED
      BY <1>4, <2>2, <3>3, <3>5 DEF Bytes
  <2> QED
    BY <1>4, <2>3, <2>4, <2>5, RenamedLeaves
<1>5. ASSUME NEW q \in Requests, NEW v \in Uploads, NEW kind \in Kinds,
             NEW m \in AskedNums \cup {None}, Begins(q, kind, v, m)
      PROVE  Bytes(f)' = parts'[u][n]
  <2>1. UNCHANGED <<parts, disk>>
    BY <1>5 DEF Begins
  <2>2. \A r \in Requests : req[r].pc = "renamed" => req'[r] = req[r] /\ PathOf(r)' = PathOf(r)
    BY <1>5, BeginsKept DEF Begins
  <2>3. Bytes(f) = parts[u][n]
    BY <1>1, <2>1, <2>2 DEF RowInv
  <2> QED
    BY <2>1, <2>3 DEF Bytes, disk
<1>6. \/ parts'[u][n] = parts[u][n]
      \/ \E r \in Requests : /\ SavePart(r) /\ PathOf(r) = f /\ uploads[u] = "open"
                             /\ parts'[u][n] = req[r].body
  BY RowFrom
<1> QED
  BY <1>2, <1>3, <1>4, <1>5, <1>6, EveryStep

LEMMA IntactStep ==
  ASSUME TypeInv, Names, KindInv, Alone, Quiet, ReadyInv, LiveEnded, UniqueInv, EndedHasNoRows,
         WriterInv, FirstInv, LatePart, LateWipe, ChunkInv, RemovalInv, SweepInv, RowInv, Intact,
         [Next]_vars
  PROVE  Intact'
<1> SUFFICES ASSUME NEW q \in Live', NEW n \in Nums, NEW u \in Uploads, NEW f \in Files,
                    u = objects'[q].upload, f = <<u, n>>, Orderly(u)',
                    NEW c, c = objects'[q].chunks[n]
             PROVE  /\ c.state = "pending" /\ f \notin wiped' => Bytes(f)' = c.body
                    /\ c.state = "remote" => c.stored = c.body
  <2>1. \A q \in Live' : objects'[q].upload \in Uploads
    BY LiveStep DEF LiveEnded, Live
  <2> QED
    BY <2>1 DEF Intact, Files, Bytes, Orderly
<1>1. Orderly(u) /\ u \notin clashed /\ f[1] = u /\ f[2] = n /\ (f \in wiped => f \in wiped')
      /\ (disruptions' # 0 => u \notin rewritten.twice)
  BY OrderlyBefore, WipedGrows DEF Orderly
<1>2. CASE CommitComplete(q) /\ objects'[q] = Made(q)
  <2>1. /\ req[q].upload = u /\ req[q].snap = parts[u] /\ UNCHANGED disk
        /\ req[q].pc = "ready" /\ req[q].kind = "complete"
    BY <1>1, <1>2 DEF CommitComplete, Made, ReadyInv, Live
  <2>2. c = ChunksOf(parts[u])[n]
    BY <1>2, <2>1 DEF Made
  <2>3. c.state # "remote" /\ (c.state = "pending" => parts[u][n] # None /\ c.body = parts[u][n])
    BY <2>2 DEF ChunksOf, NoChunk
  <2>4. ~\E r \in Requests : req[r].pc = "renamed" /\ PathOf(r) = <<u, n>>
    BY <1>1, <2>1 DEF Alone, InFlight, PathOf, Live
  <2>5. parts[u][n] # None /\ f \notin wiped => Bytes(f) = parts[u][n]
    BY <1>1, <2>4 DEF RowInv
  <2> QED
    BY <1>1, <2>1, <2>3, <2>5 DEF Bytes, disk
<1>3. ASSUME q \in Live, objects[q].upload = u
      PROVE  /\ objects[q].chunks[n].state = "pending" /\ f \notin wiped =>
                  Bytes(f) = objects[q].chunks[n].body
             /\ objects[q].chunks[n].state = "remote" =>
                  objects[q].chunks[n].stored = objects[q].chunks[n].body
             /\ objects[q].chunks[n] \in ChunkRow
  <2>1. objects[q].chunks[n] \in ChunkRow
    BY <1>3 DEF TypeInv, TypeOK, ObjectRow, Live
  <2> QED
    BY <1>1, <1>3, <2>1 DEF Intact
<1>4. ASSUME q \in Live, objects[q].upload = u, StoreChunk(q, n), c = Sent(q, n)
      PROVE  c.state = "remote" /\ c.stored = c.body
  <2>1. /\ objects[q].chunks[n].state = "pending" /\ file[f] # None
        /\ c = [objects[q].chunks[n] EXCEPT !.state = "remote", !.stored = data[file[f]]]
    BY <1>4 DEF StoreChunk, Sent
  <2>2. CASE f \notin wiped
    <3>1. data[file[f]] = objects[q].chunks[n].body
      BY <1>3, <1>4, <2>1, <2>2 DEF Bytes
    <3> QED
      BY <1>3, <1>4, <2>1, <3>1 DEF ChunkRow
  <2>3. CASE f \in wiped
    <3>1. u \notin rewritten.twice
      BY <1>1, <2>3, DisruptionsGrow DEF LateWipe
    <3>2. FirstOf(u, n, rewritten.first[u][n])
      BY <1>1, <3>1 DEF FirstInv
    <3>3. data[file[f]] = objects[q].chunks[n].body
      BY <1>4, <2>1, <3>2 DEF FirstOf, Bytes
    <3> QED
      BY <1>3, <1>4, <2>1, <3>3 DEF ChunkRow
  <2> QED
    BY <2>2, <2>3
<1>5. ASSUME q \in Live, objects[q].upload = u, FreeChunk(q, n), c = Freed(q, n)
      PROVE  c.state = "remote" /\ c.stored = c.body
  BY <1>3, <1>5 DEF FreeChunk, Freed, ChunkRow
<1>6. ASSUME q \in Live, objects[q].upload = u, c = objects[q].chunks[n]
      PROVE  /\ c.state = "pending" /\ f \notin wiped' => Bytes(f)' = c.body
             /\ c.state = "remote" => c.stored = c.body
  <2> SUFFICES ASSUME c.state = "pending", f \notin wiped' PROVE Bytes(f)' = c.body
    BY <1>3, <1>6
  <2>1. Bytes(f) = c.body /\ Pending(f)
    BY <1>1, <1>3, <1>6 DEF Pending
  <2>2. CASE Step
    <3>1. ~Removed(f)
      BY <1>1, <2>1, NeededStays
    <3>2. ASSUME NEW r \in Requests, Renamed(r, f) PROVE req[r].body = c.body
      <4>1. Parting(r) /\ PathOf(r) = <<u, n>> /\ req[r].upload = u
        BY <3>2 DEF Renamed, RenameTmp, Parting, PathOf
      <4>2. uploads[u] = "ended"
        BY <1>6 DEF LiveEnded, Live
      <4>3. u \notin rewritten.twice
        BY <1>1, <4>1, <4>2, DisruptionsGrow DEF LatePart
      <4>4. FirstOf(u, n, rewritten.first[u][n])
        BY <1>1, <4>3 DEF FirstInv
      <4> QED
        BY <1>6, <4>1, <4>4 DEF FirstOf
    <3> QED
      BY <1>1, <2>1, <2>2, <3>1, <3>2, FileStep DEF Kept, Renamed
  <2>3. ASSUME NEW r \in Requests, NEW v \in Uploads, NEW kind \in Kinds,
               NEW m \in AskedNums \cup {None}, Begins(r, kind, v, m)
        PROVE  Bytes(f)' = c.body
    BY <2>1, <2>3 DEF Begins, Bytes, disk
  <2> QED
    BY <2>2, <2>3, EveryStep
<1> QED
  BY <1>2, <1>4, <1>5, <1>6, LiveFrom

-----------------------------------------------------------------------------
(* Theorems *)

LEMMA PartInit == Init => FileInv /\ RowsInv
<1> SUFFICES ASSUME NEW past \in BOOLEAN, NEW u \in Uploads, NEW r \in Requests,
                    NEW b \in Bodies, InitAfter(past, u, r, b)
             PROVE  FileInv /\ RowsInv
  BY DEF Init
<1> DEFINE first == [n \in Nums |-> IF n = 1 THEN b ELSE None]
<1>1. \A q \in Requests : \/ req[q].pc = "closed" /\ q = r /\ past
                          \/ req[q].pc = "idle" /\ ~(q = r /\ past)
  BY FreshClosed, FreshRequest DEF InitAfter
<1>2. /\ tmp = [f \in Files |-> None]
      /\ \A f \in Files : file[f] = IF past /\ f[1] = u /\ f[2] = 1 THEN r ELSE None
      /\ \A v \in Uploads, n \in Nums : parts[v][n] = None
      /\ past => data[r] = b
  BY DEF InitAfter, NoParts
<1>3. /\ clashed = {} /\ rewritten.twice = {} /\ gc.pc = "idle"
      /\ \A v \in Uploads, n \in Nums :
           rewritten.first[v][n] = IF past /\ v = u /\ n = 1 THEN b ELSE None
  <2>1. Nums \subseteq AskedNums
    BY MultipartAssumption DEF Nums, AskedNums
  <2> QED
    BY <2>1 DEF InitAfter
<1>4. ASSUME NEW q \in Requests, NEW n \in Nums
      PROVE  LET c == objects[q].chunks[n] IN
             /\ IF past /\ q = r /\ n = 1
                THEN c.state = "pending" /\ c.body = b /\ c.path
                ELSE c.state = "none" /\ c.body = None
             /\ q \in Live => q = r /\ past /\ objects[q].upload = u
  <2>1. CASE past /\ q = r
    <3>1. objects[q].chunks = ChunksOf(first) /\ objects[q].upload = u
      BY <2>1 DEF InitAfter
    <3>2. first \in PartRows /\ first[n] = IF n = 1 THEN b ELSE None
      BY DEF PartRows
    <3> QED
      BY <2>1, <3>1, <3>2, MultipartAssumption DEF ChunksOf, NoChunk
  <2>2. CASE ~(past /\ q = r)
    <3>1. objects[q] = NoObject
      BY <2>2 DEF InitAfter
    <3> QED
      BY <2>2, <3>1 DEF NoObject, NoChunk, Live
  <2> QED
    BY <2>1, <2>2
<1>5. \A q \in Requests : ~Parting(q) /\ ~Writing(q) /\ req[q].pc \notin {"removing", "renamed"}
  BY <1>1 DEF Parting, Writing
<1>6. r # None /\ b # None
  BY MultipartAssumption
<1>7. NameInv /\ FreshInv /\ HomeInv
  <2>1. NameInv
    BY <1>2, <1>6 DEF NameInv, Files
  <2>2. FreshInv
    BY <1>1, <1>2, <1>5, <1>6, MultipartAssumption DEF FreshInv
  <2> QED
    BY <1>5, <2>1, <2>2 DEF HomeInv
<1>8. WriterInv /\ RenamedInv /\ LatePart /\ LateWipe
  BY <1>5 DEF WriterInv, RenamedInv, LatePart, LateWipe, InitAfter
<1>9. FirstInv
  <2> SUFFICES ASSUME NEW v \in Uploads, NEW n \in Nums
               PROVE  FirstOf(v, n, rewritten.first[v][n])
    BY DEF FirstInv
  <2>1. parts[v][n] = None /\ \A q \in Requests : ~Parting(q)
    BY <1>2, <1>5
  <2>2. file[<<v, n>>] # None => rewritten.first[v][n] = b /\ Bytes(<<v, n>>) = b
    BY <1>2, <1>3, <1>6 DEF Files, Bytes
  <2>3. \A q \in Live : objects[q].upload = v /\ objects[q].chunks[n].state # "none"
          => objects[q].chunks[n].body = rewritten.first[v][n]
    BY <1>3, <1>4 DEF Live
  <2> QED
    BY <1>6, <2>1, <2>2, <2>3 DEF FirstOf
<1>10. ChunkInv
  BY <1>4, <1>6 DEF ChunkInv
<1>11. RemovalInv /\ SweepInv /\ RowInv
  BY <1>2, <1>3, <1>5 DEF RemovalInv, SweepInv, RowInv
<1>12. Intact
  <2> SUFFICES ASSUME NEW q \in Live, NEW n \in Nums
               PROVE  LET c == objects[q].chunks[n] IN
                      /\ c.state = "pending" => Bytes(<<objects[q].upload, n>>) = c.body
                      /\ c.state = "remote" => c.stored = c.body
    BY DEF Intact
  <2>1. q \in Requests
    BY DEF Live
  <2>2. CASE n = 1
    <3>1. q = r /\ past /\ objects[q].upload = u
          /\ objects[q].chunks[n].state = "pending" /\ objects[q].chunks[n].body = b
      BY <1>4, <2>1, <2>2
    <3>2. Bytes(<<u, n>>) = b
      BY <1>2, <1>6, <2>2, <3>1 DEF Files, Bytes
    <3> QED
      BY <3>1, <3>2
  <2>3. CASE n # 1
    BY <1>4, <2>1, <2>3
  <2> QED
    BY <2>2, <2>3
<1> QED
  BY <1>7, <1>8, <1>9, <1>10, <1>11, <1>12 DEF FileInv, RowsInv

LEMMA PartStepInv ==
  /\ TypeInv /\ EndedHasNoRows /\ OrderInv
  /\ TypeInv'
  /\ FileInv /\ RowsInv /\ [Next]_vars
  => FileInv' /\ RowsInv'
<1> SUFFICES ASSUME TypeInv, EndedHasNoRows, OrderInv, TypeInv', FileInv, RowsInv, [Next]_vars
             PROVE  FileInv' /\ RowsInv'
  OBVIOUS
<1>1. KindInv /\ Alone /\ Quiet /\ ReadyInv /\ LiveEnded /\ UniqueInv
  BY DEF OrderInv
<1>2. Names /\ WriterInv /\ RenamedInv /\ FirstInv /\ LatePart /\ LateWipe
  BY DEF FileInv, Names
<1>3. ChunkInv /\ RemovalInv /\ SweepInv /\ RowInv /\ Intact
  BY DEF RowsInv
<1>4. clashed \subseteq clashed'
  BY EveryStep, StepMoves DEF Begins
<1>5. Names' /\ WriterInv' /\ RenamedInv' /\ FirstInv' /\ LatePart' /\ LateWipe'
  BY <1>1, <1>2, <1>3, NamesStep, WriterStep, RenamedStep, FirstStep, LateStep, WipeStep
<1>6. ChunkInv' /\ RemovalInv' /\ SweepInv' /\ RowInv' /\ Intact'
  BY <1>1, <1>2, <1>3, <1>4, ChunkStep, RemovalStep, SweepStep, RowStep, IntactStep
<1> QED
  BY <1>5, <1>6 DEF FileInv, RowsInv, Names

\* The inductive invariant of part files: what is written, renamed, needed and
\* removed, whatever requests, workers, the sweep and restarts do.
THEOREM PartInvariant == Spec => []PartInv
<1> DEFINE Order == TypeInv /\ EndedHasNoRows /\ OrderInv
           Rest == FileInv /\ RowsInv
<1>1. Order /\ Order' /\ Rest /\ [Next]_vars => Rest'
  BY PartStepInv
<1>2. Init => Rest
  BY PartInit
<1>3. Spec => []Order
  BY OrderInvariant
<1>4. Spec => []Rest
  <2> HIDE DEF Order, Rest
  <2> QED
    BY <1>1, <1>2, <1>3, PTL DEF Spec
<1>5. Order /\ Rest => PartInv
  BY DEF PartInv
<1> HIDE DEF Order, Rest
<1> QED
  BY <1>3, <1>4, <1>5, PTL

\* CompleteMultipartUpload with workers, GC, aborts, other uploads and crashes
\* in between: an object of an orderly upload has the bytes of its parts.
THEOREM ObjectsAreIntact == Spec => []Intact
<1>1. PartInv => Intact
  BY DEF PartInv, RowsInv
<1> QED
  BY <1>1, PartInvariant, PTL

\* UploadPart: what a part row of an orderly upload describes is in its file.
THEOREM PartsHaveFiles == Spec => []PartHasFile
<1>1. PartInv => PartHasFile
  BY DEF PartInv, RowsInv, RowInv, PartHasFile, PathOf, InFlight
<1> QED
  BY <1>1, PartInvariant, PTL
=============================================================================
