---------------------------- MODULE GatewayProofs ----------------------------
(***************************************************************************)
(* The front end, for every value of the constants: its types, that        *)
(* nothing outlives its bucket, that conditions held, that locked versions *)
(* stay, that listings are exact, and that decisions had grounds.          *)
(***************************************************************************)
EXTENDS Gateway, FiniteSetTheorems, WellFoundedInduction, TLAPS

\* What requests ask for does not change, and where a handler is fits it.
AskInv == \E s \in Scenes : ask = s.ask

Fits(pc, op) ==
  /\ pc = "head" => op \in {"Put", "Delete", "DeleteMany", "DeleteBucket"} \cup Lists
  /\ pc = "cond" => op = "Put"
  /\ pc = "commit" => op \in {"Put", "PostForm"}
  /\ pc \in {"find", "hold", "retention", "drop", "mode", "mark", "match"} => op = "Delete"
  /\ pc = "dropall" => op \in {"Delete", "DeleteMany", "DashDelete"}
  /\ pc \in {"target", "lock"} => op \in {"Retain", "Hold"}
  /\ pc \in {"look", "create"} => op = "CreateBucket"
  /\ pc \in {"count", "remove"} => op = "DeleteBucket"
  /\ pc = "admit" => op = "PutPolicy"
  /\ pc = "apply" => op \in {"Get", "PutPolicy", "DeletePolicy", "PutBlock", "PutVersioning"}
  /\ pc = "list" => op \in Lists

Placed(r) ==
  /\ ask[r] = None => req[r].pc = "done"
  /\ ask[r] # None => Fits(req[r].pc, ask[r].op)
  /\ req[r].pc \in {"policy", "block"} => ask[r].op \notin ByKeyAlone /\ ~FromDashboard(r)
  /\ req[r].pc \in {"hold", "retention", "lock"} => req[r].vid \in Versions
  /\ req[r].time <= now
HandlerInv == \A r \in Requests : Placed(r)

TypeInv == TypeOK /\ AskInv /\ HandlerInv

\* The bucket and its rows.
BucketInv == NothingOutlivesBucket /\ (bucket.mode = "Disabled" => OnePerKey(rows))

\* Who is about to write or delete has found its condition to hold, or could
\* not read the object and took it for none.
Excused(r) == "object" \in Lost(r) /\ ask[r].cond.kind = "absent"
MetInv == \A r \in Conditional : req[r].pc \in {"commit", "dropall"} => r \in met \/ Excused(r)

\* What is left of the locks that a DELETE has found in force all along, but
\* for those it could not read, and for all if it could not read what to look at.
Guarded(r, x) == \E lock \in {"hold", "retention"} \ Lost(r) : <<r, x.vid, lock>> \in guarded
KeyIsFree(r) == \A x \in rows : x.key = ask[r].key => ~Guarded(r, x)
VersionIsFree(r) ==
  \A x \in rows : x.key = ask[r].key /\ x.vid = ask[r].vid /\ x.vid # Null => ~Guarded(r, x)
Looked(r) ==
  /\ req[r].pc = "retention" => "hold" \in Lost(r) \/ <<r, req[r].vid, "hold">> \notin guarded
  /\ req[r].pc \in {"hold", "retention"} /\ ask[r].vid \notin {None, Null} => req[r].vid = ask[r].vid
  /\ req[r].pc = "drop" => ask[r].vid # None /\ ("version" \in Lost(r) \/ VersionIsFree(r))
  /\ req[r].pc \in {"mode", "mark", "match"} => ask[r].vid = None
  /\ req[r].pc \in {"hold", "retention"} /\ ask[r].vid = None /\ bucket.mode = "Disabled" =>
       \A x \in rows : x.key = ask[r].key /\ Guarded(r, x) => x.vid = req[r].vid
  /\ req[r].pc \in {"mode", "mark"} /\ bucket.mode = "Disabled" =>
       "version" \in Lost(r) \/ KeyIsFree(r)
  /\ req[r].pc \in {"match", "dropall"} => {"version", "mode"} \cap Lost(r) # {} \/ KeyIsFree(r)
LockInv == \A r \in Deleting : Looked(r)

\* What a request is judged by was seen, but for what it failed to read.
UserAt(r, m, failed) ==
  IF Signed(r, Mix(m, m, m, failed)) THEN ask[r].sig.user ELSE Anonymous
DocAt(m, failed) == IF "policy" \in failed THEN None ELSE m.doc
Judged(r, failed) ==
  /\ req[r].pc \in Authorizing => Moment(r) \in seen[r]
  /\ req[r].pc = "auth" => failed = {}
  /\ req[r].pc = "policy" => failed \subseteq {"key"}
  /\ req[r].pc = "block" => failed \subseteq {"key", "policy"}
  /\ req[r].pc \in {"policy", "block"} => \E m \in seen[r] : req[r].user = UserAt(r, m, failed)
  /\ req[r].pc = "block" => \E m \in seen[r] : req[r].policy = DocAt(m, failed)
SeenInv == \A r \in Requests, failed \in SUBSET Queries : failed = Lost(r) => Judged(r, failed)

\* The client that lists, and its page.
Told(r, k) == k \in page.listed \/ (ask[r].op = "ListDirs" /\ DirOf[k] \in page.dirs)
PageInv ==
  /\ page.token <= page.cursor
  /\ \A k \in page.found : page.token < k /\ k <= page.cursor
  /\ ~Asking => page.cursor = 0 /\ page.listed = {} /\ page.found = {}
  /\ Asking => shown.always \subseteq Visible /\ Visible \subseteq shown.ever
  /\ page.listed \cup page.found \subseteq shown.ever
  /\ \A r \in Listing :
       /\ req[r].pc # "list" => page.found = {} /\ page.cursor = page.token
       /\ \A k \in shown.always : k <= page.cursor => k \in page.found \/ Told(r, k)
       /\ At(r, "done") /\ ~page.cut => \A k \in shown.always : Told(r, k)
       /\ req[r].pc \notin Over => \A k \in page.listed : k <= page.token
       /\ ask[r].op = "ListDirs" => \A k \in page.listed : DirOf[k] = 0

-----------------------------------------------------------------------------
(* Numbers: least and greatest, the first of a set *)

LEMMA HasLeast ==
  ASSUME NEW S, S \subseteq Nat, S # {}
  PROVE  \E x \in S : \A y \in S : x <= y
<1>1. PICK x \in S : \A y \in S : <<y, x>> \notin OpToRel(<, Nat)
  BY NatLessThanWellFounded, WFMin
<1>2. ASSUME NEW y \in S
      PROVE  ~(y < x)
  BY <1>1 DEF OpToRel
<1> QED
  BY <1>2

LEMMA HasGreatest ==
  ASSUME NEW S, S \subseteq Nat, S # {}, IsFiniteSet(S)
  PROVE  \E x \in S : \A y \in S : y <= x
<1>1. Cardinality(S) \in Nat
  BY FS_CardinalityType
<1> DEFINE above(x) == {y \in S : x < y}
           Rank == {Cardinality(above(x)) : x \in S}
<1>2. \A x \in S : IsFiniteSet(above(x)) /\ Cardinality(above(x)) \in Nat
  BY FS_Subset, FS_CardinalityType
<1>3. Rank \subseteq Nat /\ Rank # {}
  BY <1>2
<1>4. PICK n \in Rank : \A m \in Rank : n <= m
  BY <1>3, HasLeast
<1>5. PICK x \in S : n = Cardinality(above(x))
  BY <1>4
<1>6. ASSUME NEW y \in S, x < y
      PROVE  FALSE
  <2>1. x \in Nat /\ y \in Nat
    OBVIOUS
  <2>3. \A z \in above(y) : z \in above(x)
    BY <1>6, <2>1
  <2>4. y \in above(x) /\ y \notin above(y)
    BY <1>6, <2>1
  <2>2. Cardinality(above(y)) <= Cardinality(above(x))
        /\ (Cardinality(above(y)) = Cardinality(above(x)) => above(y) = above(x))
    BY <2>3, <1>2, FS_Subset
  <2>5. Cardinality(above(x)) <= Cardinality(above(y))
    BY <1>4, <1>5
  <2> QED
    BY <2>4, <2>2, <2>5, <1>2
<1> QED
  BY <1>6

LEMMA MaxIs ==
  ASSUME NEW S, S \subseteq Nat, S # {}, IsFiniteSet(S)
  PROVE  Max(S) \in S /\ \A y \in S : y <= Max(S)
  BY HasGreatest DEF Max

LEMMA FirstOfIs ==
  ASSUME NEW S, S \subseteq Nat, IsFiniteSet(S), NEW n \in Nat \ {0}
  PROVE  /\ FirstOf(S, n) \subseteq S
         /\ \A k \in FirstOf(S, n), j \in S : j <= k => j \in FirstOf(S, n)
         /\ Cardinality(S) <= n => FirstOf(S, n) = S
         /\ S # {} => FirstOf(S, n) # {}
<1> DEFINE below(k) == {j \in S : j <= k}
<1>1. \A k \in S : IsFiniteSet(below(k)) /\ Cardinality(below(k)) \in Nat
                   /\ Cardinality(below(k)) <= Cardinality(S)
  BY FS_Subset, FS_CardinalityType
<1>2. Cardinality(S) \in Nat
  BY FS_CardinalityType
<1>3. FirstOf(S, n) = {k \in S : Cardinality(below(k)) <= n}
  BY DEF FirstOf
<1>4. ASSUME NEW k \in FirstOf(S, n), NEW j \in S, j <= k
      PROVE  j \in FirstOf(S, n)
  <2>1. j \in Nat /\ k \in Nat /\ k \in S
    BY <1>3
  <2>2. \A i \in below(j) : i \in below(k)
    BY <1>4, <2>1
  <2>3. Cardinality(below(j)) <= Cardinality(below(k))
    BY <2>1, <2>2, <1>1, FS_Subset
  <2>4. Cardinality(below(k)) <= n
    BY <1>3, <1>4
  <2>5. Cardinality(below(j)) <= n
    BY <2>1, <2>3, <2>4, <1>1
  <2> QED
    BY <2>5, <1>3
<1>5. ASSUME S # {}
      PROVE  FirstOf(S, n) # {}
  <2>1. PICK x \in S : \A y \in S : x <= y
    BY <1>5, HasLeast
  <2>2. x \in below(x) /\ \A y \in below(x) : y = x
    BY <2>1
  <2>4. below(x) = {x}
    BY <2>2
  <2>3. Cardinality(below(x)) = 1
    BY <2>4, FS_Singleton
  <2> QED
    BY <2>3, <1>3
<1>6. ASSUME Cardinality(S) <= n
      PROVE  FirstOf(S, n) = S
  <2>1. \A k \in S : Cardinality(below(k)) <= n
    BY <1>1, <1>2, <1>6
  <2> HIDE DEF below
  <2> QED
    BY <2>1, <1>3
<1> QED
  BY <1>3, <1>4, <1>5, <1>6

LEMMA NumsFinite ==
  ASSUME NEW S, IsFiniteSet(S)
  PROVE  IsFiniteSet({x.num : x \in S})
<1> DEFINE f == [x \in S |-> x.num]
           T == {x.num : x \in S}
<1>1. f \in [S -> T] /\ \A t \in T : \E x \in S : f[x] = t
  OBVIOUS
<1>2. f \in Surjection(S, T)
  BY <1>1 DEF Surjection
<1> QED
  BY <1>2, FS_Surjection

LEMMA BeyondIs ==
  ASSUME TypeOK
  PROVE  /\ IsFiniteSet(Beyond) /\ Cardinality(Beyond) \in Nat
         /\ \A x \in Beyond : /\ x \in rows /\ x \in Row /\ x.key \in Nat /\ x.key \in ObjectKeys
                              /\ x.num \in Nat /\ x.key > page.cursor
  BY DirAssumption, FS_Subset, FS_CardinalityType DEF TypeOK, Beyond, Row

\* What is in a window is what is first: by key, the newest row of a key first.
LEMMA WindowIs ==
  ASSUME TypeOK, NEW n \in Nat \ {0}
  PROVE  /\ Window(n) \subseteq Beyond /\ IsFiniteSet(Window(n))
         /\ \A y \in Window(n), x \in Beyond :
              x.key < y.key \/ (x.key = y.key /\ x.num >= y.num) => x \in Window(n)
         /\ Cardinality(Beyond) < n => Window(n) = Beyond
         /\ Beyond # {} => Window(n) # {}
<1>1. \A x \in Beyond : /\ IsFiniteSet(UpTo(x)) /\ Cardinality(UpTo(x)) \in Nat
                        /\ Cardinality(UpTo(x)) <= Cardinality(Beyond)
  BY BeyondIs, FS_Subset, FS_CardinalityType DEF UpTo
<1>2. ASSUME NEW y \in Window(n), NEW x \in Beyond,
             x.key < y.key \/ (x.key = y.key /\ x.num >= y.num)
      PROVE  x \in Window(n)
  <2>1. y \in Beyond /\ Cardinality(UpTo(y)) <= n
    BY DEF Window
  <2>2. ASSUME NEW z \in UpTo(x)
        PROVE  z \in UpTo(y)
    <3>1. z \in Beyond /\ (z.key < x.key \/ (z.key = x.key /\ z.num >= x.num))
      BY DEF UpTo
    <3>2. {x.key, y.key, z.key, x.num, y.num, z.num} \subseteq Nat
      BY <2>1, <3>1, BeyondIs
    <3>3. z.key < y.key \/ (z.key = y.key /\ z.num >= y.num)
      BY <1>2, <3>1, <3>2
    <3> QED
      BY <3>1, <3>3 DEF UpTo
  <2>3. Cardinality(UpTo(x)) <= Cardinality(UpTo(y))
    BY <1>1, <2>1, <2>2, FS_Subset
  <2>4. Cardinality(UpTo(x)) <= n
    BY <1>1, <2>1, <2>3
  <2> QED
    BY <2>4 DEF Window
<1>3. ASSUME Cardinality(Beyond) < n
      PROVE  Window(n) = Beyond
  <2>1. Cardinality(Beyond) \in Nat
    BY BeyondIs
  <2>2. \A x \in Beyond : Cardinality(UpTo(x)) <= n
    BY <1>1, <1>3, <2>1
  <2> QED
    BY <2>2 DEF Window
<1>4. ASSUME Beyond # {}
      PROVE  Window(n) # {}
  <2> DEFINE ks == {x.key : x \in Beyond}
  <2>1. ks \subseteq Nat /\ ks # {}
    BY <1>4, BeyondIs
  <2>2. PICK k \in ks : \A j \in ks : k <= j
    BY <2>1, HasLeast
  <2> DEFINE S == {x \in Beyond : x.key = k}
             ns == {x.num : x \in S}
  <2>3. ns \subseteq Nat /\ ns # {} /\ IsFiniteSet(ns)
    <3>1. IsFiniteSet(S) /\ S # {}
      BY <2>2, BeyondIs, FS_Subset
    <3>2. ns \subseteq Nat /\ ns # {}
      BY <3>1, BeyondIs
    <3>3. IsFiniteSet(ns)
      BY <3>1, NumsFinite
    <3> QED
      BY <3>2, <3>3
  <2>4. PICK m \in ns : \A i \in ns : i <= m
    BY <2>3, HasGreatest
  <2>5. PICK x \in S : x.num = m
    BY <2>4
  <2>6. ASSUME NEW z \in UpTo(x)
        PROVE  z = x
    <3>1. z \in Beyond /\ (z.key < k \/ (z.key = k /\ z.num >= m))
      BY <2>5 DEF UpTo
    <3>2. z.key \in ks /\ k <= z.key /\ {k, z.key, z.num, m} \subseteq Nat
      BY <3>1, <2>1, <2>2, <2>3, BeyondIs
    <3>3. z \in S /\ z.num >= m
      BY <3>1, <3>2
    <3>4. z.num \in ns /\ z.num <= m
      BY <3>3, <2>4
    <3>5. z.num = x.num
      BY <3>2, <3>3, <3>4, <2>5
    <3> QED
      BY <3>3, <3>5, BeyondIs DEF TypeOK, Apart
  <2>7. x \in UpTo(x)
    BY <2>5, BeyondIs DEF UpTo
  <2>8. UpTo(x) = {x}
    BY <2>6, <2>7
  <2>9. Cardinality(UpTo(x)) = 1
    BY <2>8, FS_Singleton
  <2> QED
    BY <2>9, <2>5 DEF Window
<1>5. Window(n) \subseteq Beyond /\ IsFiniteSet(Window(n))
  BY BeyondIs, FS_Subset DEF Window
<1> QED
  BY <1>2, <1>3, <1>4, <1>5

-----------------------------------------------------------------------------
(* Types *)

LEMMA AskIs ==
  ASSUME AskInv
  PROVE  /\ \A r \in Requests : ask[r] # None => IsAsk(ask[r])
         /\ \A q, r \in Listing : q = r
  BY SceneAssumption DEF AskInv, Listing, Doing

LEMMA LatestIs ==
  ASSUME TypeOK, NEW k, HasRow(k)
  PROVE  Latest(k) \in rows /\ Latest(k).key = k /\ IsLatest(Latest(k), rows)
<1> DEFINE S == {x \in rows : x.key = k}
           ns == {x.num : x \in S}
<1>1. IsFiniteSet(S) /\ S # {}
  BY FS_Subset DEF TypeOK, HasRow
<1>2. ns \subseteq Nat /\ ns # {} /\ IsFiniteSet(ns)
  BY <1>1, NumsFinite DEF TypeOK, Row
<1>3. PICK m \in ns : \A i \in ns : i <= m
  BY <1>2, HasGreatest
<1>4. PICK x \in S : x.num = m
  BY <1>3
<1>5. IsLatest(x, rows)
  BY <1>3, <1>4 DEF IsLatest
<1> QED
  BY <1>4, <1>5 DEF Latest

LEMMA AskedIs ==
  ASSUME TypeOK, NEW r \in Requests, IsAsk(ask[r])
  PROVE  Asked(r) \in Versions \cup {None}
<1>1. HasRow(ask[r].key) => Latest(ask[r].key).vid \in Versions
  BY LatestIs DEF TypeOK, Row
<1> QED
  BY <1>1 DEF Asked, IsAsk

LEMMA VersionIs ==
  ASSUME TypeOK, NEW x \in rows
  PROVE  HasVersion(x.vid) /\ Version(x.vid) = x
<1>1. \A y \in rows : y.vid = x.vid => y = x
  BY DEF TypeOK, Apart
<1> QED
  BY <1>1 DEF HasVersion, Version

\* A turn of r: the other handlers keep still.
Turn(r, pc) == /\ req' \in [Requests -> Handling]
               /\ req'[r].pc = pc
               /\ \A q \in Requests \ {r} : req'[q] = req[q]
KeepsRest(r) == /\ req'[r].user = req[r].user /\ req'[r].policy = req[r].policy
                /\ req'[r].vid = req[r].vid /\ req'[r].time = req[r].time
Starts(r) == /\ req'[r].user = Anonymous /\ req'[r].policy = None
             /\ req'[r].vid = None /\ req'[r].time = 0

LEMMA IdleIs == Idle \in Handling /\ Idle.user = Anonymous /\ Idle.policy = None /\ Idle.vid = None
                /\ Idle.time = 0 /\ Idle.pc = "new"
  BY GatewayAssumption DEF Idle, Handling, Pcs

LEMMA GoIs ==
  ASSUME TypeOK, NEW r \in Requests, NEW pc \in Pcs, Go(r, pc)
  PROVE  Turn(r, pc) /\ KeepsRest(r)
<1> DEFINE x == [req[r] EXCEPT !.pc = pc]
<1>1. req[r] \in Handling
  BY DEF TypeOK
<1>2. x \in Handling /\ x.pc = pc /\ x.user = req[r].user /\ x.policy = req[r].policy
      /\ x.vid = req[r].vid /\ x.time = req[r].time
  BY <1>1 DEF Handling
<1>3. req' = [req EXCEPT ![r] = x]
  BY DEF Go, Become
<1> HIDE DEF x
<1> QED
  BY <1>2, <1>3 DEF TypeOK, Turn, KeepsRest

LEMMA StartIs ==
  ASSUME TypeOK, NEW r \in Requests, NEW pc \in Pcs, Become(r, [Idle EXCEPT !.pc = pc])
  PROVE  Turn(r, pc) /\ Starts(r)
<1> DEFINE x == [Idle EXCEPT !.pc = pc]
<1>1. x \in Handling /\ x.pc = pc /\ x.user = Anonymous /\ x.policy = None
      /\ x.vid = None /\ x.time = 0
  BY IdleIs DEF Handling
<1>2. req' = [req EXCEPT ![r] = x]
  BY DEF Become
<1> HIDE DEF x
<1> QED
  BY <1>1, <1>2 DEF TypeOK, Turn, Starts

LEMMA AnswerIs ==
  ASSUME TypeOK, NEW r \in Requests, NEW how \in Pcs, Answer(r, how)
  PROVE  Turn(r, how) /\ Starts(r)
  BY StartIs DEF Answer

Places == {"head", "target", "commit", "dropall", "look", "admit", "apply"}
LEMMA HandlerIs ==
  ASSUME NEW a, IsAsk(a)
  PROVE  /\ Handler(a.op) \in Places /\ Places \subseteq Pcs \ (Authorizing \cup Over)
         /\ Fits(Handler(a.op), a.op)
         /\ Handler(a.op) = "commit" => a.op = "PostForm"
         /\ Handler(a.op) = "dropall" => a.op = "DashDelete"
<1>1. a.op \in OnObjects \cup OnBuckets \cup Lists
  BY DEF IsAsk
<1>2. Places \subseteq Pcs \ (Authorizing \cup Over)
  BY DEF Places, Pcs, Authorizing, Over
<1> QED
  BY <1>1, <1>2 DEF Handler, Places, Fits, OnObjects, OnBuckets, Lists

LEMMA BecomeIs ==
  ASSUME TypeOK, NEW r \in Requests, NEW x \in Handling, Become(r, x)
  PROVE  Turn(r, x.pc) /\ req'[r] = x
  BY DEF TypeOK, Become, Turn

\* A query that fails is remembered, of the request it failed.
LEMMA QueryIs ==
  ASSUME TypeOK, NEW r \in Requests, NEW query \in Queries, NEW fails \in BOOLEAN, Query(r, query, fails)
  PROVE  /\ UNCHANGED <<acts, tables, page>>
         /\ lost' \subseteq Requests \X Queries
         /\ \A q \in Requests \ {r} : Lost(q)' = Lost(q)
         /\ Lost(r)' = Lost(r) \cup (IF fails THEN {query} ELSE {})
<1>1. lost \subseteq Requests \X Queries /\ lost' = lost \cup (IF fails THEN {<<r, query>>} ELSE {})
  BY DEF TypeOK, Query
<1>2. ASSUME NEW q \in Requests, NEW x \in Queries
      PROVE  <<q, x>> \in lost' <=> <<q, x>> \in lost \/ (fails /\ q = r /\ x = query)
  BY <1>1
<1>3. lost' \subseteq Requests \X Queries
  BY <1>1
<1> QED
  BY <1>2, <1>3 DEF Query, Lost

LEMMA FailureIs ==
  ASSUME TypeOK, NEW r \in Requests, NEW query \in Queries, NEW fails \in BOOLEAN,
         Query(r, query, fails), fails
  PROVE  query \in Lost(r)'
<1>1. lost' = lost \cup {<<r, query>>}
  BY DEF Query
<1> QED
  BY <1>1 DEF Lost

\* How a handler gets to the steps that count: what it has found, in a step
\* that changes no table.
NotHeld(r) == ~(HasVersion(req[r].vid) /\ Version(req[r].vid).hold)
NotRetained(r) ==
  ~(HasVersion(req[r].vid) /\ Retained(Version(req[r].vid), ask[r].bypass, req[r].time))
Checked(r) == \/ req[r].pc = "find" /\ (Asked(r) = None \/ "version" \in Lost(r)')
              \/ req[r].pc = "retention" /\ (NotRetained(r) \/ "retention" \in Lost(r)')
Passed(r) == \/ Matches(ask[r].cond, ask[r].key)
             \/ "object" \in Lost(r)' /\ ask[r].cond.kind # "etag"
Enters(r) ==
  /\ req'[r].pc = "auth" => req[r].pc = "new"
  /\ req'[r].pc = "commit" => ask[r].op = "PostForm" \/ (req[r].pc = "cond" /\ Passed(r))
  /\ req'[r].pc = "dropall" => ask[r].op # "Delete" \/ (req[r].pc = "match" /\ Passed(r))
  /\ req'[r].pc = "hold" => req[r].pc = "find" /\ Asked(r) # None /\ req'[r].vid = Asked(r)
  /\ req'[r].pc = "retention" => req[r].pc = "hold" /\ req'[r].vid = req[r].vid
                                   /\ (NotHeld(r) \/ "hold" \in Lost(r)')
  /\ req'[r].pc = "drop" => ask[r].vid # None /\ Checked(r)
  /\ req'[r].pc = "mode" => ask[r].vid = None /\ Checked(r)
  /\ req'[r].pc = "mark" => req[r].pc = "mode" /\ bucket.mode # "Disabled"
  /\ req'[r].pc = "match" => req[r].pc = "mode" /\ (bucket.mode = "Disabled" \/ "mode" \in Lost(r)')
  /\ req'[r].pc = "list" => req[r].pc \in {"head", "list"}
  /\ req'[r].pc \in {"policy", "block"} => req[r].pc \in {"auth", "policy", "block"}
  /\ req[r].pc = "find" => req'[r].pc \in {"hold", "drop", "mode"}

Turns(r) == (\E pc \in Pcs : Turn(r, pc)) /\ Placed(r)' /\ Enters(r)

\* Steps to an ordinary place, and ends.
LEMMA Ends ==
  ASSUME TypeInv, NEW r \in Requests, ask[r] # None, req[r].pc # "find", UNCHANGED <<now, ask>>,
         \E how \in Over : Answer(r, how)
  PROVE  Turns(r)
<1> PICK how \in Over : Answer(r, how)
  OBVIOUS
<1>1. how \in Pcs /\ how \in {"refused", "failed", "done"}
  BY DEF Over, Pcs
<1>2. Turn(r, how) /\ Starts(r)
  BY <1>1, AnswerIs DEF TypeInv
<1>3. now \in Nat
  BY GatewayAssumption DEF TypeInv, TypeOK
<1>4. Placed(r)'
  BY <1>1, <1>2, <1>3 DEF Placed, Fits, Turn, Starts
<1>5. Enters(r)
  BY <1>1, <1>2 DEF Enters, Turn
<1> QED
  BY <1>1, <1>2, <1>4, <1>5 DEF Turns

LEMMA Arrives ==
  ASSUME TypeInv, NEW r \in Requests, ask[r] # None, UNCHANGED <<now, ask>>, Arrive(r)
  PROVE  Turns(r)
<1>1. "auth" \in Pcs
  BY DEF Pcs, Authorizing
<1>2. Turn(r, "auth") /\ KeepsRest(r)
  BY <1>1, GoIs DEF TypeInv, Arrive
<1>3. Placed(r)'
  BY <1>2 DEF TypeInv, HandlerInv, Placed, Fits, Turn, KeepsRest
<1> QED
  BY <1>1, <1>2, <1>3 DEF Turns, Enters, Turn, Arrive, At

LEMMA ToHandler ==
  ASSUME TypeInv, NEW r \in Requests, ask[r] # None, req[r].pc \in Authorizing, UNCHANGED <<now, ask>>,
         NEW x \in Handling, Become(r, x), x.pc = Handler(ask[r].op), x.time = 0 \/ x.time = req[r].time
  PROVE  Turns(r)
<1>1. IsAsk(ask[r])
  BY AskIs DEF TypeInv
<1>2. /\ x.pc \in Places /\ x.pc \in Pcs /\ Fits(x.pc, ask[r].op)
      /\ x.pc = "commit" => ask[r].op = "PostForm"
      /\ x.pc = "dropall" => ask[r].op = "DashDelete"
  BY <1>1, HandlerIs
<1>3. Turn(r, x.pc) /\ req'[r] = x
  BY BecomeIs DEF TypeInv
<1>4. now \in Nat /\ req[r].time <= now
  BY GatewayAssumption DEF TypeInv, TypeOK, HandlerInv, Placed
<1>5. Placed(r)'
  BY <1>2, <1>3, <1>4 DEF Placed, Places
<1>6. Enters(r)
  BY <1>2, <1>3 DEF Enters, Places, Authorizing
<1> QED
  BY <1>2, <1>3, <1>5, <1>6 DEF Turns

LEMMA Authenticates ==
  ASSUME TypeInv, NEW r \in Requests, ask[r] # None, UNCHANGED <<now, ask>>, Authenticate(r)
  PROVE  Turns(r)
<1>1. IsAsk(ask[r]) /\ req[r] \in Handling /\ req[r].pc = "auth" /\ req[r].time <= now
  BY AskIs DEF TypeInv, TypeOK, Authenticate, At, HandlerInv, Placed
<1>0. PICK fails \in BOOLEAN :
        LET proven == Proven(r, IF fails THEN None ELSE KeyOf(r)) IN
        IF ask[r].op \in ByKeyAlone \/ FromDashboard(r)
        THEN IF proven THEN Go(r, Handler(ask[r].op)) ELSE Answer(r, "refused")
        ELSE Become(r, [req[r] EXCEPT !.pc = "policy",
                                      !.user = IF proven THEN ask[r].sig.user ELSE Anonymous])
  BY DEF Authenticate
<1> DEFINE proven == Proven(r, IF fails THEN None ELSE KeyOf(r))
<1> HIDE DEF proven
<1>2. CASE Answer(r, "refused")
  BY <1>1, <1>2, Ends DEF Over
<1>3. CASE Go(r, Handler(ask[r].op))
  <2> DEFINE x == [req[r] EXCEPT !.pc = Handler(ask[r].op)]
  <2>1. x \in Handling /\ x.pc = Handler(ask[r].op) /\ x.time = req[r].time
    BY <1>1, HandlerIs DEF Handling
  <2>2. Become(r, x)
    BY <1>3 DEF Go
  <2> HIDE DEF x
  <2> QED
    BY <1>1, <2>1, <2>2, ToHandler DEF Authorizing
<1>4. CASE /\ ~(ask[r].op \in ByKeyAlone \/ FromDashboard(r))
           /\ Become(r, [req[r] EXCEPT !.pc = "policy",
                                       !.user = IF proven THEN ask[r].sig.user ELSE Anonymous])
  <2> DEFINE u == IF proven THEN ask[r].sig.user ELSE Anonymous
             x == [req[r] EXCEPT !.pc = "policy", !.user = u]
  <2>1. u \in Users \cup {Root, Anonymous}
    BY <1>1, <1>4 DEF IsAsk, IsSig, FromDashboard
  <2>2. "policy" \in Pcs
    BY DEF Pcs, Authorizing
  <2> HIDE DEF u
  <2>3. x \in Handling /\ x.pc = "policy" /\ x.time = req[r].time
    BY <1>1, <2>1, <2>2 DEF Handling
  <2>4. Become(r, x)
    BY <1>4 DEF u
  <2> HIDE DEF x
  <2>5. Turn(r, "policy") /\ req'[r] = x
    BY <2>3, <2>4, BecomeIs DEF TypeInv
  <2>6. Placed(r)'
    BY <1>1, <1>4, <2>3, <2>5 DEF Placed, Fits, FromDashboard
  <2> QED
    BY <1>1, <2>2, <2>3, <2>5, <2>6 DEF Turns, Enters
<1> QED
  BY <1>0, <1>2, <1>3, <1>4 DEF proven

LEMMA Goes ==
  ASSUME TypeInv, NEW r \in Requests, ask[r] # None, UNCHANGED <<now, ask>>,
         NEW pc \in Pcs \ Authorizing, Go(r, pc), Fits(pc, ask[r].op),
         pc \in {"hold", "retention", "lock"} => req[r].vid \in Versions
  PROVE  Turn(r, pc) /\ KeepsRest(r) /\ Placed(r)'
<1>1. Turn(r, pc) /\ KeepsRest(r)
  BY GoIs DEF TypeInv
<1> QED
  BY <1>1 DEF TypeInv, HandlerInv, Placed, Turn, KeepsRest, Authorizing

LEMMA LoadsPolicy ==
  ASSUME TypeInv, NEW r \in Requests, ask[r] # None, UNCHANGED <<now, ask>>, LoadPolicy(r)
  PROVE  Turns(r)
<1>0. PICK fails \in BOOLEAN :
        Become(r, [req[r] EXCEPT !.pc = "block", !.policy = IF fails THEN None ELSE bucket.policy])
  BY DEF LoadPolicy
<1> DEFINE doc == IF fails THEN None ELSE bucket.policy
           x == [req[r] EXCEPT !.pc = "block", !.policy = doc]
<1>1. req[r] \in Handling /\ req[r].pc = "policy" /\ doc \in Docs \cup {None} /\ "block" \in Pcs
  BY DEF TypeInv, TypeOK, LoadPolicy, At, Bucket, Pcs, Authorizing
<1> HIDE DEF doc
<1>2. x \in Handling /\ x.pc = "block" /\ x.time = req[r].time
  BY <1>1 DEF Handling
<1>3. Become(r, x)
  BY <1>0 DEF doc
<1> HIDE DEF x
<1>4. Turn(r, "block") /\ req'[r] = x
  BY <1>2, <1>3, BecomeIs DEF TypeInv
<1>5. Placed(r)'
  BY <1>1, <1>2, <1>4 DEF TypeInv, HandlerInv, Placed, Fits, FromDashboard
<1> QED
  BY <1>1, <1>2, <1>4, <1>5 DEF Turns, Enters

LEMMA LoadsBlock ==
  ASSUME TypeInv, NEW r \in Requests, ask[r] # None, UNCHANGED <<now, ask>>, LoadBlock(r)
  PROVE  Turns(r)
<1>1. IsAsk(ask[r]) /\ req[r].pc = "block"
  BY AskIs DEF TypeInv, LoadBlock, At
<1>2. CASE Answer(r, "refused")
  BY <1>1, <1>2, Ends DEF Over
<1>3. CASE Become(r, [Idle EXCEPT !.pc = Handler(ask[r].op)])
  <2> DEFINE x == [Idle EXCEPT !.pc = Handler(ask[r].op)]
  <2>1. x \in Handling /\ x.pc = Handler(ask[r].op) /\ x.time = 0
    BY <1>1, HandlerIs, IdleIs DEF Handling
  <2>2. Become(r, x)
    BY <1>3
  <2> HIDE DEF x
  <2> QED
    BY <1>1, <2>1, <2>2, ToHandler DEF Authorizing
<1> QED
  BY <1>2, <1>3 DEF LoadBlock

LEMMA Continues ==
  ASSUME TypeInv, NEW r \in Requests, ask[r] # None, UNCHANGED <<now, ask>>,
         CheckBucket(r) \/ CheckCondition(r) \/ CheckDelete(r) \/ ReadMode(r) \/ FindBucket(r)
         \/ CountObjects(r) \/ AdmitPolicy(r)
  PROVE  Turns(r)
<1>1. Fits(req[r].pc, ask[r].op)
  BY DEF TypeInv, HandlerInv, Placed
<1>2. CASE \E how \in Over : Answer(r, how)
  <2>1. req[r].pc # "find"
    BY DEF CheckBucket, CheckCondition, CheckDelete, ReadMode, FindBucket, CountObjects, AdmitPolicy, At
  <2> QED
    BY <1>2, <2>1, Ends
<1>3. ASSUME NEW pc \in Pcs \ Authorizing, Go(r, pc), Fits(pc, ask[r].op),
             pc \notin {"hold", "retention", "lock", "drop", "mode"},
             pc = "commit" => req[r].pc = "cond" /\ Passed(r),
             pc = "dropall" => ask[r].op # "Delete" \/ (req[r].pc = "match" /\ Passed(r)),
             pc = "mark" => req[r].pc = "mode" /\ bucket.mode # "Disabled",
             pc = "match" => req[r].pc = "mode" /\ (bucket.mode = "Disabled" \/ "mode" \in Lost(r)'),
             pc = "list" => req[r].pc = "head",
             req[r].pc # "find"
      PROVE  Turns(r)
  <2>1. Turn(r, pc) /\ Placed(r)'
    BY <1>3, Goes
  <2>2. Enters(r)
    BY <1>3, <2>1 DEF Enters, Turn, Authorizing
  <2> QED
    BY <2>1, <2>2 DEF Turns
<1>4. {"cond", "find", "dropall", "count", "list", "commit", "mark", "match", "create", "remove", "apply"}
      \subseteq Pcs \ Authorizing
  BY DEF Pcs, Authorizing
<1>5. {"failed", "done"} \subseteq Over /\ {"object", "mode"} \subseteq Queries /\ TypeOK
  BY DEF Over, Queries, TypeInv
\* Who goes on has found the precondition to hold, or nothing.
<1>13. ASSUME NEW fails \in BOOLEAN, Query(r, "object", fails), Passes(ask[r].cond, ask[r].key, fails)
       PROVE  Passed(r)
  <2>1. fails => "object" \in Lost(r)'
    BY <1>5, <1>13, FailureIs
  <2> QED
    BY <1>13, <2>1 DEF Passes, Passed
<1>6. CASE CheckBucket(r)
  <2>1. req[r].pc = "head" /\ ask[r].op \in {"Put", "Delete", "DeleteMany", "DeleteBucket"} \cup Lists
    BY <1>1, <1>6 DEF CheckBucket, At, Fits
  <2>2. CASE Answer(r, "failed")
    BY <1>2, <1>5, <2>2
  <2>3. CASE ~Answer(r, "failed")
    <3> DEFINE next == CASE ask[r].op = "Put" -> "cond"
                         [] ask[r].op = "Delete" -> "find"
                         [] ask[r].op = "DeleteMany" -> "dropall"
                         [] ask[r].op = "DeleteBucket" -> "count"
                         [] ask[r].op \in Lists -> "list"
    <3>1. Go(r, next)
      BY <1>6, <2>3 DEF CheckBucket
    <3>2. /\ next \in {"cond", "find", "dropall", "count", "list"}
          /\ Fits(next, ask[r].op) /\ (next = "dropall" => ask[r].op # "Delete")
      BY <2>1 DEF Fits, Lists
    <3> HIDE DEF next
    <3> QED
      BY <1>3, <1>4, <2>1, <3>1, <3>2
  <2> QED
    BY <2>2, <2>3
<1>7. CASE CheckCondition(r)
  <2>1. req[r].pc = "cond" /\ ask[r].op = "Put"
    BY <1>1, <1>7 DEF CheckCondition, At, Fits
  <2>2. CASE Answer(r, "failed")
    BY <1>2, <1>5, <2>2
  <2>3. CASE ~Answer(r, "failed")
    <3>1. Go(r, "commit") /\ Passed(r)
      BY <1>7, <1>13, <2>3 DEF CheckCondition
    <3> QED
      BY <1>3, <1>4, <2>1, <3>1 DEF Fits
  <2> QED
    BY <2>2, <2>3
<1>8. CASE CheckDelete(r)
  <2>1. req[r].pc = "match" /\ ask[r].op = "Delete"
    BY <1>1, <1>8 DEF CheckDelete, At, Fits
  <2>2. CASE Answer(r, "failed")
    BY <1>2, <1>5, <2>2
  <2>3. CASE ~Answer(r, "failed")
    <3>1. Go(r, "dropall") /\ Passed(r)
      BY <1>8, <1>13, <2>3 DEF CheckDelete
    <3> QED
      BY <1>3, <1>4, <2>1, <3>1 DEF Fits
  <2> QED
    BY <2>2, <2>3
<1>9. CASE ReadMode(r)
  <2>1. req[r].pc = "mode" /\ ask[r].op = "Delete"
    BY <1>1, <1>9 DEF ReadMode, At, Fits
  <2>4. PICK fails \in BOOLEAN :
          /\ Go(r, IF fails \/ bucket.mode = "Disabled" THEN "match" ELSE "mark")
          /\ Query(r, "mode", fails)
    BY <1>9 DEF ReadMode
  <2>5. fails => "mode" \in Lost(r)'
    BY <1>5, <2>4, FailureIs
  <2>2. CASE fails \/ bucket.mode = "Disabled"
    <3>1. Go(r, "match")
      BY <2>4, <2>2
    <3> QED
      BY <1>3, <1>4, <2>1, <2>2, <2>5, <3>1 DEF Fits
  <2>3. CASE ~(fails \/ bucket.mode = "Disabled")
    <3>1. Go(r, "mark")
      BY <2>4, <2>3
    <3> QED
      BY <1>3, <1>4, <2>1, <2>3, <3>1 DEF Fits
  <2> QED
    BY <2>2, <2>3
<1>10. CASE FindBucket(r)
  <2>1. req[r].pc = "look" /\ ask[r].op = "CreateBucket"
    BY <1>1, <1>10 DEF FindBucket, At, Fits
  <2>2. Answer(r, "done") \/ Go(r, "create")
    BY <1>10 DEF FindBucket
  <2> QED
    BY <1>2, <1>3, <1>4, <1>5, <2>1, <2>2 DEF Fits
<1>11. CASE CountObjects(r)
  <2>1. req[r].pc = "count" /\ ask[r].op = "DeleteBucket"
    BY <1>1, <1>11 DEF CountObjects, At, Fits
  <2>2. Answer(r, "failed") \/ Go(r, "remove")
    BY <1>11 DEF CountObjects
  <2> QED
    BY <1>2, <1>3, <1>4, <1>5, <2>1, <2>2 DEF Fits
<1>12. CASE AdmitPolicy(r)
  <2>1. req[r].pc = "admit" /\ ask[r].op = "PutPolicy"
    BY <1>1, <1>12 DEF AdmitPolicy, At, Fits
  <2>2. Answer(r, "failed") \/ Go(r, "apply")
    BY <1>12 DEF AdmitPolicy
  <2> QED
    BY <1>2, <1>3, <1>4, <1>5, <2>1, <2>2 DEF Fits
<1> QED
  BY <1>6, <1>7, <1>8, <1>9, <1>10, <1>11, <1>12

LEMMA LooksForLocks ==
  ASSUME TypeInv, NEW r \in Requests, ask[r] # None, UNCHANGED <<now, ask>>,
         FindVersion(r) \/ ReadHold(r) \/ ReadRetention(r) \/ FindTarget(r)
  PROVE  Turns(r)
<1>1. /\ IsAsk(ask[r]) /\ Fits(req[r].pc, ask[r].op) /\ req[r] \in Handling /\ now \in 0..MaxTime
      /\ req[r].time <= now
      /\ req[r].pc \in {"hold", "retention", "lock"} => req[r].vid \in Versions
  BY AskIs DEF TypeInv, TypeOK, HandlerInv, Placed
<1>2. Asked(r) \in Versions \cup {None}
  BY <1>1, AskedIs DEF TypeInv
<1>3. /\ {"hold", "drop", "mode", "retention", "lock"} \subseteq Pcs \ Authorizing /\ "failed" \in Over
      /\ {"version", "hold", "retention"} \subseteq Queries /\ TypeOK
  BY DEF Pcs, Authorizing, Over, Queries, TypeInv
<1>4. ASSUME Go(r, IF ask[r].vid # None THEN "drop" ELSE "mode"), Checked(r), ask[r].op = "Delete"
      PROVE  Turns(r)
  <2> DEFINE pc == IF ask[r].vid # None THEN "drop" ELSE "mode"
  <2>1. pc \in Pcs \ Authorizing /\ Fits(pc, ask[r].op) /\ pc \in {"drop", "mode"}
        /\ (pc = "drop" => ask[r].vid # None) /\ (pc = "mode" => ask[r].vid = None)
    BY <1>3, <1>4 DEF Fits
  <2>2. Go(r, pc)
    BY <1>4
  <2> HIDE DEF pc
  <2>3. Turn(r, pc) /\ Placed(r)'
    BY <2>1, <2>2, Goes
  <2>4. Enters(r)
    BY <1>4, <2>1, <2>3 DEF Enters, Turn, Authorizing
  <2> QED
    BY <2>1, <2>3, <2>4 DEF Turns
<1>5. CASE FindVersion(r)
  <2>1. req[r].pc = "find" /\ ask[r].op = "Delete"
    BY <1>1, <1>5 DEF FindVersion, At, Fits
  <2>4. PICK fails \in BOOLEAN :
          LET vid == IF fails THEN None ELSE Asked(r) IN
          /\ IF vid # None THEN Become(r, [req[r] EXCEPT !.vid = vid, !.time = now, !.pc = "hold"])
             ELSE Go(r, IF ask[r].vid # None THEN "drop" ELSE "mode")
          /\ Query(r, "version", fails)
    BY <1>5 DEF FindVersion
  <2>5. fails => "version" \in Lost(r)'
    BY <1>3, <2>4, FailureIs
  <2>2. CASE fails \/ Asked(r) = None
    BY <1>4, <2>1, <2>2, <2>4, <2>5 DEF Checked
  <2>3. CASE ~fails /\ Asked(r) # None
    <3> DEFINE x == [req[r] EXCEPT !.vid = Asked(r), !.time = now, !.pc = "hold"]
    <3>1. x \in Handling /\ x.pc = "hold" /\ x.vid = Asked(r) /\ x.time = now
      BY <1>1, <1>2, <1>3 DEF Handling
    <3>2. Become(r, x)
      BY <2>3, <2>4
    <3> HIDE DEF x
    <3>3. Turn(r, "hold") /\ req'[r] = x
      BY <3>1, <3>2, BecomeIs DEF TypeInv
    <3>4. Placed(r)'
      BY <1>1, <1>2, <2>1, <2>3, <3>1, <3>3 DEF Placed, Fits
    <3>5. Enters(r)
      BY <2>1, <2>3, <3>1, <3>3 DEF Enters, Authorizing
    <3> QED
      BY <1>3, <3>3, <3>4, <3>5 DEF Turns
  <2> QED
    BY <2>2, <2>3
<1>6. CASE ReadHold(r)
  <2>1. req[r].pc = "hold" /\ ask[r].op = "Delete"
    BY <1>1, <1>6 DEF ReadHold, At, Fits
  <2>2. CASE Answer(r, "failed")
    BY <1>3, <2>1, <2>2, Ends
  <2>3. CASE ~Answer(r, "failed")
    <3>4. PICK fails \in BOOLEAN :
            /\ IF ~fails /\ HasVersion(req[r].vid) /\ Version(req[r].vid).hold
               THEN Answer(r, "failed") ELSE Go(r, "retention")
            /\ Query(r, "hold", fails)
      BY <1>6 DEF ReadHold
    <3>5. fails => "hold" \in Lost(r)'
      BY <1>3, <3>4, FailureIs
    <3>1. Go(r, "retention") /\ (NotHeld(r) \/ "hold" \in Lost(r)')
      BY <2>3, <3>4, <3>5 DEF NotHeld
    <3>2. Turn(r, "retention") /\ KeepsRest(r) /\ Placed(r)'
      BY <1>1, <1>3, <2>1, <3>1, Goes DEF Fits
    <3>3. Enters(r)
      BY <2>1, <3>1, <3>2 DEF Enters, Turn, KeepsRest, Authorizing
    <3> QED
      BY <1>3, <3>2, <3>3 DEF Turns
  <2> QED
    BY <2>2, <2>3
<1>7. CASE ReadRetention(r)
  <2>1. req[r].pc = "retention" /\ ask[r].op = "Delete"
    BY <1>1, <1>7 DEF ReadRetention, At, Fits
  <2>2. CASE Answer(r, "failed")
    BY <1>3, <2>1, <2>2, Ends
  <2>3. CASE ~Answer(r, "failed")
    <3>1. PICK fails \in BOOLEAN :
            /\ IF ~fails /\ HasVersion(req[r].vid)
                  /\ Retained(Version(req[r].vid), ask[r].bypass, req[r].time)
               THEN Answer(r, "failed")
               ELSE Go(r, IF ask[r].vid # None THEN "drop" ELSE "mode")
            /\ Query(r, "retention", fails)
      BY <1>7 DEF ReadRetention
    <3>2. fails => "retention" \in Lost(r)'
      BY <1>3, <3>1, FailureIs
    <3> QED
      BY <1>4, <2>1, <2>3, <3>1, <3>2 DEF Checked, NotRetained
  <2> QED
    BY <2>2, <2>3
<1>8. CASE FindTarget(r)
  <2>1. req[r].pc = "target" /\ ask[r].op \in {"Retain", "Hold"}
    BY <1>1, <1>8 DEF FindTarget, At, Fits
  <2>2. CASE Asked(r) = None
    BY <1>3, <1>8, <2>1, <2>2, Ends DEF FindTarget
  <2>3. CASE Asked(r) # None
    <3> DEFINE x == [req[r] EXCEPT !.pc = "lock", !.vid = Asked(r)]
    <3>1. x \in Handling /\ x.pc = "lock" /\ x.vid = Asked(r) /\ x.time = req[r].time
      BY <1>1, <1>2, <1>3 DEF Handling
    <3>2. Become(r, x)
      BY <1>8, <2>3 DEF FindTarget
    <3> HIDE DEF x
    <3>3. Turn(r, "lock") /\ req'[r] = x
      BY <3>1, <3>2, BecomeIs DEF TypeInv
    <3>4. Placed(r)'
      BY <1>1, <1>2, <2>1, <2>3, <3>1, <3>3 DEF Placed, Fits
    <3>5. Enters(r)
      BY <2>1, <3>1, <3>3 DEF Enters, Authorizing
    <3> QED
      BY <1>3, <3>3, <3>4, <3>5 DEF Turns
  <2> QED
    BY <2>2, <2>3
<1> QED
  BY <1>5, <1>6, <1>7, <1>8

LEMMA InsertAnswers ==
  ASSUME NEW r, NEW k, NEW marker, NEW etag, Insert(r, k, marker, etag)
  PROVE  Answer(r, "done") \/ Answer(r, "failed")
  BY DEF Insert

LEMMA Finishes ==
  ASSUME TypeInv, NEW r \in Requests, ask[r] # None, UNCHANGED <<now, ask>>,
         \/ CommitPut(r) \/ DropVersion(r) \/ Mark(r) \/ DropAll(r) \/ SetRetention(r) \/ SetHold(r)
         \/ CreateBucket(r) \/ RemoveBucket(r) \/ Apply(r)
  PROVE  Turns(r)
<1>1. req[r].pc # "find" /\ {"done", "failed"} \subseteq Over
  BY DEF CommitPut, DropVersion, Mark, DropAll, SetRetention, SetHold, CreateBucket, RemoveBucket,
     Apply, At, Over
<1>2. CASE CommitPut(r)
  BY <1>1, <1>2, InsertAnswers, Ends DEF CommitPut
<1>3. CASE Mark(r)
  BY <1>1, <1>3, InsertAnswers, Ends DEF Mark
<1>4. CASE DropVersion(r) \/ DropAll(r)
  BY <1>1, <1>4, Ends DEF DropVersion, DropAll
<1>5. CASE SetRetention(r) \/ SetHold(r)
  <2>1. \E how : Answer(r, how) /\ how \in {"done", "failed"}
    BY <1>5 DEF SetRetention, SetHold, Upsert
  <2> QED
    BY <1>1, <2>1, Ends
<1>6. CASE CreateBucket(r) \/ RemoveBucket(r) \/ Apply(r)
  BY <1>1, <1>6, Ends DEF CreateBucket, RemoveBucket, Apply
<1> QED
  BY <1>2, <1>3, <1>4, <1>5, <1>6

LEMMA ReadsOn ==
  ASSUME TypeInv, NEW r \in Requests, ask[r] # None, UNCHANGED <<now, ask>>, ListWindow(r)
  PROVE  Turns(r)
<1>1. req[r].pc = "list" /\ req[r].pc \in Pcs /\ Placed(r)
  BY DEF ListWindow, At, TypeInv, HandlerInv, Pcs
<1>2. CASE \E how : Answer(r, how) /\ how \in {"new", "done"}
  <2> PICK how : Answer(r, how) /\ how \in {"new", "done"}
    BY <1>2
  <2>1. how \in Pcs
    BY DEF Pcs, Over
  <2>2. Turn(r, how) /\ Starts(r)
    BY <2>1, AnswerIs DEF TypeInv
  <2>3. now \in Nat
    BY GatewayAssumption DEF TypeInv, TypeOK
  <2>4. Placed(r)'
    BY <1>1, <2>2, <2>3 DEF Placed, Fits, Turn, Starts
  <2> QED
    BY <1>1, <2>1, <2>2, <2>4 DEF Turns, Enters, Turn
<1>3. CASE UNCHANGED req
  BY <1>1, <1>3 DEF Turns, Turn, Enters, Placed, TypeInv, TypeOK, FromDashboard
<1> QED
  BY <1>2, <1>3 DEF ListWindow, Respond

LEMMA EveryTurn ==
  ASSUME TypeInv, NEW r \in Requests, UNCHANGED <<now, ask>>, RequestStep(r)
  PROVE  ask[r] # None /\ Turns(r)
<1>1. req[r].pc # "done"
  BY DEF RequestStep, Arrive, Authorize, Authenticate, LoadPolicy, LoadBlock, CheckBucket, Write,
     CheckCondition, CommitPut, Delete, FindVersion, ReadHold, ReadRetention, DropVersion, ReadMode,
     Mark, CheckDelete, DropAll, Lock, FindTarget, SetRetention, SetHold, Administer, FindBucket,
     CreateBucket, CountObjects, RemoveBucket, AdmitPolicy, Apply, ListWindow, At
<1>2. ask[r] # None
  BY <1>1 DEF TypeInv, HandlerInv, Placed
<1> QED
  BY <1>2, Arrives, Authenticates, LoadsPolicy, LoadsBlock, Continues, LooksForLocks, Finishes, ReadsOn
  DEF RequestStep, Authorize, Write, Delete, Lock, Administer

-----------------------------------------------------------------------------
(* What a step does to the tables *)

\* Rows are inserted, dropped, or locked.
Inserts(r) ==
  \E marker \in BOOLEAN, etag \in Etags \cup {None} :
    LET kept == {x \in rows : Kept(x, ask[r].key)}
        id == FreshId(r, marker) IN
    /\ req[r].pc \in {"commit", "mark"} /\ bucket.live
    /\ \A x \in kept : x.vid # id
    /\ rows' = kept \cup {NewRow(NextNum(kept), ask[r].key, id, marker, etag)}
DropsVersion(r) ==
  /\ req[r].pc = "drop"
  /\ rows' = {x \in rows : x.key # ask[r].key \/ x.vid # ask[r].vid}
DropsAll(r) ==
  /\ req[r].pc = "dropall"
  /\ rows' = {x \in rows : x.key # ask[r].key}
SameRow(x, y) == /\ y.num = x.num /\ y.key = x.key /\ y.vid = x.vid /\ y.marker = x.marker
                 /\ y.etag = x.etag
Locks(r) ==
  /\ req[r].pc = "lock"
  /\ \E f \in [rows -> Row] : /\ rows' = {f[x] : x \in rows}
                              /\ \A x \in rows : SameRow(x, f[x])
RowsMove(r) == Inserts(r) \/ DropsVersion(r) \/ DropsAll(r) \/ Locks(r)

BucketMoves(r) ==
  \/ req[r].pc = "create" /\ ~bucket.live /\ bucket' = FreshBucket
  \/ req[r].pc = "remove" /\ rows = {} /\ bucket' = NoBucket
  \/ /\ req[r].pc = "apply" /\ bucket.live
     /\ bucket' \in Bucket /\ bucket'.live
     /\ bucket'.mode \in {bucket.mode, "Enabled", "Suspended"}

TablesMove(r) ==
  /\ UNCHANGED <<keys, sessions, acts>>
  /\ \/ UNCHANGED <<bucket, rows>>
     \/ UNCHANGED bucket /\ RowsMove(r) /\ req'[r].pc \in {"done", "failed"}
     \/ UNCHANGED rows /\ BucketMoves(r) /\ req'[r].pc \in {"done", "failed"}
  /\ req[r].pc # "list" => UNCHANGED page

LEMMA InsertMoves ==
  ASSUME TypeInv, NEW r \in Requests, IsAsk(ask[r]), NEW marker \in BOOLEAN,
         NEW etag \in Etags \cup {None}, req[r].pc \in {"commit", "mark"},
         Insert(r, ask[r].key, marker, etag)
  PROVE  (rows' = rows \/ Inserts(r)) /\ req'[r].pc \in {"done", "failed"}
<1>1. {"done", "failed"} \subseteq Pcs
  BY DEF Pcs, Over
<1>2. Answer(r, "done") \/ Answer(r, "failed")
  BY InsertAnswers
<1>3. req'[r].pc \in {"done", "failed"}
  BY <1>1, <1>2, AnswerIs DEF TypeInv, Turn
<1> QED
  BY <1>3 DEF Insert, Inserts

LEMMA UpsertMoves ==
  ASSUME TypeInv, NEW r \in Requests, req[r].pc = "lock", NEW f \in [rows -> Row],
         \A x \in rows : SameRow(x, f[x]), Upsert(r, f)
  PROVE  Locks(r) /\ req'[r].pc \in {"done", "failed"}
<1> DEFINE g == [x \in rows |-> IF x.vid = req[r].vid THEN f[x] ELSE x]
<1>1. g \in [rows -> Row] /\ \A x \in rows : SameRow(x, g[x])
  BY DEF SameRow, TypeInv, TypeOK
<1>2. rows' = {g[x] : x \in rows}
  BY DEF Upsert
<1>3. {"done", "failed"} \subseteq Pcs
  BY DEF Pcs, Over
<1>4. Answer(r, "done") \/ Answer(r, "failed")
  BY DEF Upsert
<1>5. req'[r].pc \in {"done", "failed"}
  BY <1>3, <1>4, AnswerIs DEF TypeInv, Turn
<1> HIDE DEF g
<1> QED
  BY <1>1, <1>2, <1>5 DEF Locks

\* The steps one query of which may fail unnoticed.
MayFail(r) == \/ Authenticate(r) \/ LoadPolicy(r) \/ LoadBlock(r) \/ CheckCondition(r)
               \/ CheckDelete(r) \/ FindVersion(r) \/ ReadHold(r) \/ ReadRetention(r)
               \/ ReadMode(r) \/ AdmitPolicy(r)

LEMMA QueriesAre ==
  ASSUME NEW r, MayFail(r)
  PROVE  /\ req[r].pc # "new" /\ UNCHANGED <<acts, tables, page>>
         /\ \E query \in Queries, fails \in BOOLEAN : Query(r, query, fails)
<1>1. {"key", "policy", "block", "version", "hold", "retention", "mode", "object"} \subseteq Queries
  BY DEF Queries
<1>2. \E query \in Queries, fails \in BOOLEAN : req[r].pc # "new" /\ Query(r, query, fails)
  <2>1. CASE Authenticate(r)
    BY <1>1, <2>1 DEF Authenticate, At
  <2>2. CASE LoadPolicy(r) \/ LoadBlock(r)
    BY <1>1, <2>2 DEF LoadPolicy, LoadBlock, At
  <2>3. CASE CheckCondition(r) \/ CheckDelete(r)
    BY <1>1, <2>3 DEF CheckCondition, CheckDelete, At
  <2>4. CASE FindVersion(r) \/ ReadHold(r)
    BY <1>1, <2>4 DEF FindVersion, ReadHold, At
  <2>5. CASE ReadRetention(r) \/ ReadMode(r) \/ AdmitPolicy(r)
    BY <1>1, <2>5 DEF ReadRetention, ReadMode, AdmitPolicy, At
  <2> QED
    BY <2>1, <2>2, <2>3, <2>4, <2>5 DEF MayFail
<1> QED
  BY <1>2 DEF Query

LEMMA EveryTableMove ==
  ASSUME TypeInv, NEW r \in Requests, UNCHANGED <<now, ask>>, RequestStep(r)
  PROVE  TablesMove(r)
<1>1. /\ ask[r] # None /\ IsAsk(ask[r]) /\ Fits(req[r].pc, ask[r].op)
      /\ bucket \in Bucket /\ rows \subseteq Row /\ {"done", "failed"} \subseteq Pcs
  BY EveryTurn, AskIs DEF TypeInv, TypeOK, HandlerInv, Placed, Pcs, Over
<1>2. CASE Arrive(r) \/ CheckBucket(r) \/ FindTarget(r) \/ FindBucket(r) \/ CountObjects(r)
  BY <1>2 DEF Arrive, CheckBucket, FindTarget, FindBucket, CountObjects, Reads, tables, TablesMove
<1>10. CASE MayFail(r)
  BY <1>10, QueriesAre DEF tables, TablesMove
<1>3. CASE CommitPut(r)
  <2>1. ask[r].etag \in Etags /\ req[r].pc = "commit"
    BY <1>1, <1>3 DEF IsAsk, CommitPut, At
  <2> QED
    BY <1>1, <1>3, <2>1, InsertMoves DEF CommitPut, WritesRows, TablesMove, RowsMove
<1>4. CASE Mark(r)
  <2>1. req[r].pc = "mark"
    BY <1>4 DEF Mark, At
  <2> QED
    BY <1>1, <1>4, <2>1, InsertMoves DEF Mark, WritesRows, TablesMove, RowsMove
<1>5. CASE DropVersion(r) \/ DropAll(r)
  <2>1. req'[r].pc = "done"
    BY <1>1, <1>5, AnswerIs DEF DropVersion, DropAll, TypeInv, Turn
  <2> QED
    BY <1>5, <2>1 DEF DropVersion, DropAll, WritesRows, TablesMove, RowsMove, DropsVersion, DropsAll, At
<1>6. CASE SetRetention(r)
  <2> DEFINE f == [x \in rows |-> [x EXCEPT !.retention = ask[r].lock]]
  <2>1. ask[r].lock \in Retention
    BY <1>1, <1>6 DEF SetRetention, IsAsk
  <2>2. f \in [rows -> Row] /\ \A x \in rows : SameRow(x, f[x])
    BY <1>1, <2>1 DEF Row, SameRow
  <2>3. Upsert(r, f) /\ req[r].pc = "lock"
    BY <1>6 DEF SetRetention, At
  <2> HIDE DEF f
  <2>4. Locks(r) /\ req'[r].pc \in {"done", "failed"}
    BY <2>2, <2>3, UpsertMoves
  <2> QED
    BY <2>3, <2>4 DEF Upsert, WritesRows, TablesMove, RowsMove
<1>7. CASE SetHold(r)
  <2> DEFINE f == [x \in rows |-> [x EXCEPT !.hold = ask[r].flag]]
  <2>1. ask[r].flag \in BOOLEAN
    BY <1>1 DEF IsAsk
  <2>2. f \in [rows -> Row] /\ \A x \in rows : SameRow(x, f[x])
    BY <1>1, <2>1 DEF Row, SameRow
  <2>3. Upsert(r, f) /\ req[r].pc = "lock"
    BY <1>7 DEF SetHold, At
  <2> HIDE DEF f
  <2>4. Locks(r) /\ req'[r].pc \in {"done", "failed"}
    BY <2>2, <2>3, UpsertMoves
  <2> QED
    BY <2>3, <2>4 DEF Upsert, WritesRows, TablesMove, RowsMove
<1>8. CASE CreateBucket(r) \/ RemoveBucket(r) \/ Apply(r)
  <2>1. req'[r].pc \in {"done", "failed"}
    BY <1>1, <1>8, AnswerIs DEF CreateBucket, RemoveBucket, Apply, TypeInv, Turn
  <2>2. req[r].pc \in {"create", "remove", "apply"}
    BY <1>8 DEF CreateBucket, RemoveBucket, Apply, At
  <2>3. CASE UNCHANGED bucket
    BY <1>8, <2>1, <2>2, <2>3 DEF CreateBucket, RemoveBucket, Apply, WritesBucket, TablesMove
  <2>4. CASE CreateBucket(r) \/ RemoveBucket(r)
    BY <2>1, <2>2, <2>3, <2>4 DEF CreateBucket, RemoveBucket, At, WritesBucket, TablesMove, BucketMoves
  <2>5. CASE Apply(r) /\ bucket.live /\ bucket' = Changed(r)
    <3>1. /\ ask[r].op \in {"Get", "PutPolicy", "DeletePolicy", "PutBlock", "PutVersioning"}
          /\ req[r].pc = "apply"
      BY <1>1, <2>5 DEF Apply, At, Fits
    <3>2. Changed(r) \in Bucket /\ Changed(r).live /\ Changed(r).mode \in {bucket.mode, "Enabled", "Suspended"}
      BY <1>1, <2>5, <3>1 DEF Changed, Bucket, IsAsk, Modes
    <3> QED
      BY <2>1, <2>5, <3>1, <3>2 DEF Apply, WritesBucket, TablesMove, BucketMoves
  <2> QED
    BY <1>8, <2>3, <2>4, <2>5 DEF Apply
<1>9. CASE ListWindow(r)
  BY <1>9 DEF ListWindow, At, tables, TablesMove
<1> QED
  BY <1>2, <1>3, <1>4, <1>5, <1>6, <1>7, <1>8, <1>9, <1>10
  DEF RequestStep, Authorize, Write, Delete, Lock, Administer, MayFail

\* What a step does to the failures: it may add to its request's, and they are
\* forgotten when the next request arrives.
Loses(r) ==
  /\ lost' \subseteq Requests \X Queries
  /\ \A q \in Requests \ {r} : Lost(q)' = Lost(q)
  /\ req[r].pc = "new" => Lost(r)' = {} /\ req'[r].pc = "auth"
  /\ req[r].pc # "new" => Lost(r) \subseteq Lost(r)'

LEMMA EveryLoss ==
  ASSUME TypeOK, NEW r \in Requests, RequestStep(r)
  PROVE  Loses(r)
<1>0. lost \subseteq Requests \X Queries
  BY DEF TypeOK
<1>1. CASE Arrive(r)
  <2>1. "auth" \in Pcs
    BY DEF Pcs, Authorizing
  <2>2. req'[r].pc = "auth"
    BY <1>1, <2>1, GoIs DEF Arrive, Turn
  <2> QED
    BY <1>0, <1>1, <2>2 DEF Arrive, At, Loses, Lost
<1>2. CASE MayFail(r)
  <2>1. req[r].pc # "new"
    BY <1>2, QueriesAre
  <2>2. PICK query \in Queries, fails \in BOOLEAN : Query(r, query, fails)
    BY <1>2, QueriesAre
  <2>3. /\ lost' \subseteq Requests \X Queries
        /\ \A q \in Requests \ {r} : Lost(q)' = Lost(q)
        /\ Lost(r) \subseteq Lost(r)'
    BY <2>2, QueryIs
  <2> QED
    BY <2>1, <2>3 DEF Loses
<1>3. ASSUME UNCHANGED lost, req[r].pc # "new"
      PROVE  Loses(r)
  BY <1>0, <1>3 DEF Loses, Lost
<1>4. CASE CheckBucket(r) \/ FindTarget(r) \/ FindBucket(r) \/ CountObjects(r) \/ ListWindow(r)
  BY <1>3, <1>4 DEF CheckBucket, FindTarget, FindBucket, CountObjects, ListWindow, Reads, At
<1>5. CASE CommitPut(r) \/ Mark(r) \/ DropVersion(r) \/ DropAll(r) \/ SetRetention(r) \/ SetHold(r)
  BY <1>3, <1>5 DEF CommitPut, Mark, DropVersion, DropAll, SetRetention, SetHold, Upsert, WritesRows, At
<1>6. CASE CreateBucket(r) \/ RemoveBucket(r) \/ Apply(r)
  BY <1>3, <1>6 DEF CreateBucket, RemoveBucket, Apply, WritesBucket, At
<1> QED
  BY <1>1, <1>2, <1>4, <1>5, <1>6
  DEF RequestStep, Authorize, Write, Delete, Lock, Administer, MayFail

-----------------------------------------------------------------------------
(* The tables keep their types *)

LEMMA NextNumIs ==
  ASSUME NEW S, S \subseteq Row, IsFiniteSet(S)
  PROVE  NextNum(S) \in Nat /\ \A x \in S : x.num < NextNum(S)
<1> DEFINE ns == {x.num : x \in S}
<1>1. ns \subseteq Nat /\ IsFiniteSet(ns) /\ \A x \in S : x.num \in ns
  BY NumsFinite DEF Row
<1>2. CASE S = {}
  BY <1>2 DEF NextNum
<1>3. CASE S # {}
  <2>1. ns # {}
    BY <1>3
  <2>2. Max(ns) \in Nat /\ \A n \in ns : n <= Max(ns)
    BY <1>1, <2>1, MaxIs
  <2> DEFINE m == Max(ns)
  <2>3. NextNum(S) = 1 + m
    BY <1>3 DEF NextNum
  <2>4. m \in Nat /\ \A n \in ns : n \in Nat /\ n <= m
    BY <1>1, <2>2
  <2> HIDE DEF m
  <2>5. \A x \in S : x.num \in Nat /\ x.num <= m
    BY <1>1, <2>4
  <2> QED
    BY <2>3, <2>4, <2>5
<1> QED
  BY <1>2, <1>3

LEMMA NoRetentionIs == NoRetention \in Retention /\ NoRetention.until = 0 /\ NoRetention.mode = None
  BY DEF NoRetention, Retention

LEMMA FreshIdIs ==
  ASSUME NEW r \in Requests, NEW marker
  PROVE  FreshId(r, marker) \in {r, Null} /\ FreshId(r, marker) \in Versions
  BY GatewayAssumption DEF FreshId

\* An inserted row is the newest, and the only one of its id.
LEMMA InsertsIs ==
  ASSUME TypeOK, NEW r \in Requests, ask[r].key \in ObjectKeys, Inserts(r)
  PROVE  \E new \in Row :
           LET kept == {x \in rows : Kept(x, ask[r].key)} IN
           /\ rows' = kept \cup {new}
           /\ \A x \in kept : x.vid # new.vid /\ x.num < new.num
           /\ new.key = ask[r].key /\ new.vid \in {r, Null}
           /\ new.hold = FALSE /\ new.retention = NoRetention
<1> DEFINE kept == {x \in rows : Kept(x, ask[r].key)}
<1>1. PICK marker \in BOOLEAN, etag \in Etags \cup {None} :
           /\ \A x \in kept : x.vid # FreshId(r, marker)
           /\ rows' = kept \cup {NewRow(NextNum(kept), ask[r].key, FreshId(r, marker), marker, etag)}
  BY DEF Inserts
<1>2. kept \subseteq Row /\ IsFiniteSet(kept)
  BY FS_Subset DEF TypeOK
<1>3. NextNum(kept) \in Nat /\ \A x \in kept : x.num < NextNum(kept)
  BY <1>2, NextNumIs
<1> DEFINE new == NewRow(NextNum(kept), ask[r].key, FreshId(r, marker), marker, etag)
<1>4. /\ new.num = NextNum(kept) /\ new.key = ask[r].key /\ new.vid = FreshId(r, marker)
      /\ new.hold = FALSE /\ new.retention = NoRetention
  BY DEF NewRow
<1>5. FreshId(r, marker) \in {r, Null} /\ FreshId(r, marker) \in Versions
  BY FreshIdIs
<1>6. new \in Row
  BY <1>3, <1>5, NoRetentionIs DEF NewRow, Row
<1>7. rows' = kept \cup {new}
  BY <1>1
<1> HIDE DEF new, kept
<1>8. \A x \in kept : x.vid # new.vid /\ x.num < new.num
  BY <1>1, <1>3, <1>4
<1> QED
  BY <1>4, <1>5, <1>6, <1>7, <1>8 DEF kept

LEMMA RowsStay ==
  ASSUME TypeInv, NEW r \in Requests, ask[r] # None, RowsMove(r)
  PROVE  rows' \subseteq Row /\ IsFiniteSet(rows') /\ Apart(rows')
<1>0. /\ IsAsk(ask[r]) /\ Fits(req[r].pc, ask[r].op)
      /\ TypeOK /\ rows \subseteq Row /\ IsFiniteSet(rows) /\ Apart(rows)
  BY AskIs DEF TypeInv, TypeOK, HandlerInv, Placed
<1>1. CASE Inserts(r)
  <2>1. ask[r].op \in OnObjects
    BY <1>0, <1>1 DEF Inserts, Fits, OnObjects
  <2>2. ask[r].key \in ObjectKeys
    BY <1>0, <2>1 DEF IsAsk
  <2> DEFINE kept == {x \in rows : Kept(x, ask[r].key)}
  <2>3. PICK new \in Row : rows' = kept \cup {new} /\ \A x \in kept : x.vid # new.vid /\ x.num < new.num
    BY <1>0, <1>1, <2>2, InsertsIs
  <2>4. kept \subseteq rows /\ IsFiniteSet(kept)
    BY <1>0, FS_Subset
  <2> HIDE DEF kept
  <2>5. IsFiniteSet(rows') /\ rows' \subseteq Row
    BY <1>0, <2>3, <2>4, FS_AddElement
  <2>6. \A x \in kept : x.num \in Nat /\ x.num # new.num
    BY <1>0, <2>3, <2>4 DEF Row
  <2>7. Apart(rows')
    BY <1>0, <2>3, <2>4, <2>6 DEF Apart
  <2> QED
    BY <2>5, <2>7
<1>2. CASE DropsVersion(r) \/ DropsAll(r)
  <2>1. rows' \subseteq rows
    BY <1>2 DEF DropsVersion, DropsAll
  <2> QED
    BY <1>0, <2>1, FS_Subset DEF Apart
<1>3. CASE Locks(r)
  <2>1. PICK f \in [rows -> Row] : rows' = {f[x] : x \in rows} /\ \A x \in rows : SameRow(x, f[x])
    BY <1>3 DEF Locks
  <2>2. rows' \subseteq Row
    BY <2>1
  <2>3. f \in [rows -> rows'] /\ \A y \in rows' : \E x \in rows : f[x] = y
    BY <2>1
  <2>4. f \in Surjection(rows, rows')
    BY <2>3 DEF Surjection
  <2>5. IsFiniteSet(rows')
    BY <1>0, <2>4, FS_Surjection
  <2>6. Apart(rows')
    BY <1>0, <2>1 DEF Apart, SameRow
  <2> QED
    BY <2>2, <2>5, <2>6
<1> QED
  BY <1>1, <1>2, <1>3 DEF RowsMove

LEMMA BucketStays ==
  ASSUME TypeInv, NEW r \in Requests, BucketMoves(r)
  PROVE  bucket' \in Bucket
<1>1. NoBucket \in Bucket
  BY DEF NoBucket, Bucket, Modes
<1>2. FreshBucket \in Bucket
  BY <1>1 DEF FreshBucket, Bucket
<1> QED
  BY <1>1, <1>2 DEF BucketMoves

LEMMA FetchIs ==
  ASSUME TypeOK
  PROVE  Fetch \in Nat \ {0} /\ Cardinality(page.found) \in Nat
<1>1. IsFiniteSet(page.found)
  BY DirAssumption, FS_Subset DEF TypeOK, Page
<1>2. Cardinality(page.found) \in Nat /\ Cardinality(page.found) <= MaxKeys
  BY <1>1, FS_CardinalityType DEF TypeOK
<1>3. /\ MaxKeys \in Nat \ {0} /\ FetchFactor \in Nat \ {0} /\ FetchCap \in Nat \ {0}
      /\ FetchSlack \in Nat
  BY GatewayAssumption
<1>4. Need \in Nat \ {0}
  BY <1>2, <1>3 DEF Need
<1>5. Need * FetchFactor \in Nat \ {0}
  BY <1>3, <1>4
<1>6. Need * FetchFactor + FetchSlack \in Nat \ {0}
  BY <1>3, <1>5
<1> QED
  BY <1>2, <1>3, <1>6 DEF Fetch

\* The keys a listing collects.
LEMMA KeysInIs ==
  ASSUME TypeOK, NEW n \in Nat \ {0}
  PROVE  KeysIn(Window(n)) \subseteq {x.key : x \in Window(n)}
         /\ KeysIn(Window(n)) \subseteq ObjectKeys
  BY WindowIs, BeyondIs DEF KeysIn

LEMMA RoomIs == ASSUME NEW S, S \subseteq ObjectKeys
  PROVE IsFiniteSet(S) /\ Cardinality(S) \in Nat /\ S \subseteq Nat
  BY DirAssumption, FS_Subset, FS_CardinalityType

-----------------------------------------------------------------------------
(* The page of a listing *)

\* What list_keys has once it has read a window, and what is made of it.
Collected == page.found \cup KeysIn(Window(Fetch))
Items(found) == FirstOf(found, MaxKeys)
Contents(r, found) == {k \in Items(found) : ask[r].op = "List" \/ DirOf[k] = 0}
More(found) == Cardinality(found) > MaxKeys
NextToken(r, found) ==
  IF More(found) THEN Token(Items(found), Contents(r, found)) ELSE page.token

Responds(r) ==
  LET found == Collected IN
  /\ page'.token = NextToken(r, found) /\ page'.cursor = page'.token
  /\ page'.found = {} /\ page'.round = 0
  /\ page'.contents = Contents(r, found)
  /\ page'.listed = page.listed \cup Contents(r, found)
  /\ page'.dirs = page.dirs \cup {DirOf[k] : k \in Items(found) \ Contents(r, found)}
  /\ page.cut => page'.cut
  /\ More(found) \/ Cardinality(Beyond) < Fetch \/ page'.cut
  /\ Turn(r, IF More(found) THEN "new" ELSE "done")
Collects(r) ==
  /\ Window(Fetch) # {} /\ ~More(Collected)
  /\ page'.cursor = Max({x.key : x \in Window(Fetch)}) /\ page'.found = Collected
  /\ page'.round = page.round + 1 /\ page.round # Rounds - 1
  /\ page'.token = page.token /\ page'.listed = page.listed /\ page'.dirs = page.dirs
  /\ page'.contents = page.contents /\ page'.cut = page.cut
  /\ UNCHANGED req

LEMMA DirIs ==
  ASSUME NEW k \in ObjectKeys
  PROVE  k \in Nat \ {0} /\ DirOf[k] \in Nat /\ DirOf[k] <= k
  BY DirAssumption

LEMMA CollectedIs ==
  ASSUME TypeOK
  PROVE  Collected \subseteq ObjectKeys /\ page.found \subseteq Collected
  BY FetchIs, KeysInIs DEF Collected, TypeOK, Page

LEMMA ItemsIs ==
  ASSUME TypeOK, NEW r \in Requests
  PROVE  LET found == Collected
             items == Items(Collected)
             contents == Contents(r, Collected)
         IN /\ contents \subseteq items /\ items \subseteq found /\ items \subseteq ObjectKeys
            /\ \A k \in items, j \in found : j <= k => j \in items
            /\ ~More(found) => items = found
            /\ More(found) => items # {}
<1>1. Collected \subseteq ObjectKeys
  BY CollectedIs
<1>2. Collected \subseteq Nat /\ IsFiniteSet(Collected) /\ Cardinality(Collected) \in Nat
  BY <1>1, RoomIs
<1>3. MaxKeys \in Nat \ {0}
  BY GatewayAssumption
<1>4. More(Collected) => Collected # {}
  BY <1>3, FS_EmptySet DEF More
<1>5. ~More(Collected) => Cardinality(Collected) <= MaxKeys
  BY <1>2, <1>3 DEF More
<1> QED
  BY <1>1, <1>2, <1>3, <1>4, <1>5, FirstOfIs DEF Items, Contents

LEMMA TokenIs ==
  ASSUME TypeOK, NEW r \in Requests, More(Collected)
  PROVE  LET items == Items(Collected)
             contents == Contents(r, Collected)
         IN /\ contents # {} => /\ NextToken(r, Collected) \in contents
                                /\ \A k \in contents : k <= NextToken(r, Collected)
            /\ contents = {} => \E k \in items : /\ NextToken(r, Collected) = DirOf[k]
                                                 /\ \A j \in items : j <= k
<1>1. /\ Contents(r, Collected) \subseteq ObjectKeys /\ Items(Collected) \subseteq ObjectKeys
      /\ Items(Collected) # {}
  BY ItemsIs
<1>2. Items(Collected) \subseteq Nat /\ IsFiniteSet(Items(Collected))
  BY <1>1, RoomIs
<1>3. Contents(r, Collected) \subseteq Nat /\ IsFiniteSet(Contents(r, Collected))
  BY <1>1, RoomIs
<1>4. /\ Max(Items(Collected)) \in Items(Collected)
      /\ \A k \in Items(Collected) : k <= Max(Items(Collected))
  BY <1>1, <1>2, MaxIs
<1>5. Contents(r, Collected) # {} =>
        /\ Max(Contents(r, Collected)) \in Contents(r, Collected)
        /\ \A k \in Contents(r, Collected) : k <= Max(Contents(r, Collected))
  BY <1>3, MaxIs
<1>6. NextToken(r, Collected) = IF Contents(r, Collected) # {} THEN Max(Contents(r, Collected))
                                ELSE DirOf[Max(Items(Collected))]
  BY DEF NextToken, Token
<1> QED
  BY <1>4, <1>5, <1>6

LEMMA NextTokenIs ==
  ASSUME TypeOK, NEW r \in Requests
  PROVE  NextToken(r, Collected) \in Nat
<1>1. CASE More(Collected)
  <2>1. Contents(r, Collected) \subseteq ObjectKeys /\ Items(Collected) \subseteq ObjectKeys
    BY ItemsIs
  <2> QED
    BY <1>1, <2>1, TokenIs, DirIs
<1>2. CASE ~More(Collected)
  BY <1>2 DEF NextToken, TypeOK, Page
<1> QED
  BY <1>1, <1>2

LEMMA PageMoves ==
  ASSUME TypeInv, NEW r \in Requests, ask[r] # None, ListWindow(r)
  PROVE  page' \in Page /\ (Responds(r) \/ Collects(r))
<1>0. /\ TypeOK /\ page \in Page /\ Rounds \in Nat \ {0} /\ page.round \in 0..(Rounds - 1)
  BY GatewayAssumption DEF TypeInv, TypeOK, Page
<1>1. /\ Fetch \in Nat \ {0} /\ Cardinality(Beyond) \in Nat
      /\ Collected \subseteq ObjectKeys
  BY <1>0, FetchIs, BeyondIs, CollectedIs
<1> DEFINE found == Collected
           full == Cardinality(Beyond) >= Fetch
           enough == Cardinality(found) > MaxKeys
<1>2. CASE enough \/ ~full \/ page.round = Rounds - 1
  <2> DEFINE contents == Contents(r, found)
             token == NextToken(r, found)
             dirs == {DirOf[k] : k \in Items(found) \ contents}
             cut == ~enough /\ full
             how == IF enough THEN "new" ELSE "done"
             listed == page.listed \cup contents
             alldirs == page.dirs \cup dirs
             cut2 == page.cut \/ cut
  <2>1. Respond(r, found, cut)
    BY <1>2 DEF ListWindow, Collected
  <2>2. /\ page' = [page EXCEPT
                   !.token = token, !.cursor = token, !.found = {}, !.round = 0,
                   !.contents = contents, !.listed = listed, !.dirs = alldirs, !.cut = cut2]
        /\ Answer(r, how)
    BY <2>1 DEF Respond, Contents, Items, NextToken, More
  <2>3. contents \subseteq ObjectKeys /\ Items(found) \subseteq ObjectKeys
    BY <1>0, ItemsIs
  <2>4. dirs \subseteq Nat
    BY <2>3, DirIs
  <2>5. token \in Nat
    BY <1>0, NextTokenIs
  <2>6. cut \in BOOLEAN /\ (enough \/ ~full \/ cut)
    OBVIOUS
  <2>7. how \in Pcs
    BY DEF Pcs, Over
  <2>8. Turn(r, how)
    BY <1>0, <2>2, <2>7, AnswerIs
  <2>9. how = (IF More(Collected) THEN "new" ELSE "done") /\ enough = More(Collected)
        /\ (~full => Cardinality(Beyond) < Fetch)
    BY <1>1 DEF More
  <2>a. /\ listed \in SUBSET ObjectKeys /\ alldirs \in SUBSET Nat /\ cut2 \in BOOLEAN
        /\ 0 \in 0..(Rounds - 1)
    BY <1>0, <2>3, <2>4, <2>6 DEF Page
  <2> HIDE DEF contents, token, dirs, cut, how, enough, full, listed, alldirs, cut2
  <2>10. /\ page' \in Page
         /\ page'.token = token /\ page'.cursor = token /\ page'.found = {} /\ page'.round = 0
         /\ page'.contents = contents /\ page'.listed = listed
         /\ page'.dirs = alldirs /\ page'.cut = cut2
    BY <1>0, <2>2, <2>3, <2>5, <2>a DEF Page
  <2> QED
    BY <2>6, <2>8, <2>9, <2>10 DEF Responds, contents, token, dirs, listed, alldirs, cut2
<1>3. CASE ~(enough \/ ~full \/ page.round = Rounds - 1)
  <2> DEFINE ks == {x.key : x \in Window(Fetch)}
             cursor == Max(ks)
  <2>1. /\ page' = [page EXCEPT !.cursor = cursor, !.found = found, !.round = @ + 1]
        /\ UNCHANGED req
    BY <1>3 DEF ListWindow, Collected
  <2>2. Beyond # {}
    <3>1. Cardinality(Beyond) >= Fetch
      BY <1>3
    <3>2. Beyond = {} => Cardinality(Beyond) = 0
      BY FS_EmptySet
    <3> QED
      BY <1>1, <3>1, <3>2
  <2>3. Window(Fetch) # {} /\ Window(Fetch) \subseteq Beyond
    BY <1>0, <1>1, <2>2, WindowIs
  <2>4. ks # {} /\ ks \subseteq ObjectKeys
    BY <1>0, <2>3, BeyondIs
  <2>5. cursor \in Nat
    BY <2>4, RoomIs, MaxIs
  <2>6. page.round + 1 \in 0..(Rounds - 1) /\ page.round # Rounds - 1
    BY <1>0, <1>3
  <2>7. ~More(Collected)
    BY <1>3 DEF More
  <2> HIDE DEF cursor
  <2>8. /\ page' \in Page
        /\ page'.cursor = cursor /\ page'.found = found /\ page'.round = page.round + 1
        /\ page'.token = page.token /\ page'.listed = page.listed /\ page'.dirs = page.dirs
        /\ page'.contents = page.contents /\ page'.cut = page.cut
    BY <1>0, <1>1, <2>1, <2>5, <2>6 DEF Page
  <2> QED
    BY <2>1, <2>3, <2>6, <2>7, <2>8 DEF Collects, cursor
<1> QED
  BY <1>2, <1>3

LEMMA PageStays ==
  ASSUME TypeInv, NEW r \in Requests, ask[r] # None, ListWindow(r)
  PROVE  page' \in Page /\ Cardinality(page'.found) <= MaxKeys
<1>0. MaxKeys \in Nat \ {0} /\ TypeOK
  BY GatewayAssumption DEF TypeInv
<1>1. page' \in Page /\ (Responds(r) \/ Collects(r))
  BY PageMoves
<1>2. CASE Responds(r)
  BY <1>0, <1>1, <1>2, FS_EmptySet DEF Responds
<1>3. CASE Collects(r)
  <2>1. page'.found = Collected /\ ~More(Collected)
    BY <1>3 DEF Collects
  <2>2. Cardinality(Collected) \in Nat
    BY <1>0, CollectedIs, RoomIs
  <2> QED
    BY <1>0, <1>1, <2>1, <2>2 DEF More
<1> QED
  BY <1>1, <1>2, <1>3

-----------------------------------------------------------------------------
(* Type correctness *)

LEMMA VisibleIs ==
  ASSUME rows \subseteq Row
  PROVE  Visible \subseteq ObjectKeys
  BY DEF Visible, Row

LEMMA ShownStays ==
  ASSUME TypeOK, rows' \subseteq Row, Observe
  PROVE  shown' \in [always : SUBSET ObjectKeys, ever : SUBSET ObjectKeys]
<1>1. Visible' \subseteq ObjectKeys
  BY DEF Visible, Row
<1>2. /\ shown \in [always : SUBSET ObjectKeys, ever : SUBSET ObjectKeys]
      /\ shown.always \subseteq ObjectKeys /\ shown.ever \subseteq ObjectKeys
  BY DEF TypeOK
<1> DEFINE both == shown.always \cap Visible'
           either == shown.ever \cup Visible'
<1>3. both \subseteq ObjectKeys /\ either \subseteq ObjectKeys
  BY <1>1, <1>2
<1>4. shown' \in {[always |-> {}, ever |-> {}], [always |-> Visible', ever |-> Visible'],
                  [always |-> both, ever |-> either]}
  BY DEF Observe
<1> HIDE DEF both, either
<1> QED
  BY <1>1, <1>3, <1>4

LEMMA TypesOfTurn ==
  ASSUME TypeInv, NEW r \in Requests, RequestStep(r), UNCHANGED <<now, ask>>, Observe
  PROVE  TypeInv'
<1>1. ask[r] # None /\ Turns(r) /\ TablesMove(r) /\ TypeOK
  BY EveryTurn, EveryTableMove DEF TypeInv
<1>2. UNCHANGED <<now, ask, keys, sessions, acts>>
  BY <1>1 DEF TablesMove
<1>3. rows' \subseteq Row /\ IsFiniteSet(rows') /\ Apart(rows')
  BY <1>1, RowsStay DEF TablesMove, TypeOK
<1>4. bucket' \in Bucket
  BY <1>1, BucketStays DEF TablesMove, TypeOK
<1>5. page' \in Page /\ Cardinality(page'.found) <= MaxKeys
  <2>1. CASE req[r].pc = "list"
    <3>1. ListWindow(r)
      BY <2>1 DEF RequestStep, Arrive, Authorize, Authenticate, LoadPolicy, LoadBlock, CheckBucket,
         Write, CheckCondition, CommitPut, Delete, FindVersion, ReadHold, ReadRetention, DropVersion,
         ReadMode, Mark, CheckDelete, DropAll, Lock, FindTarget, SetRetention, SetHold, Administer,
         FindBucket, CreateBucket, CountObjects, RemoveBucket, AdmitPolicy, Apply, At
    <3> QED
      BY <1>1, <3>1, PageStays
  <2>2. CASE req[r].pc # "list"
    BY <1>1, <2>2 DEF TablesMove, TypeOK
  <2> QED
    BY <2>1, <2>2
<1>6. shown' \in [always : SUBSET ObjectKeys, ever : SUBSET ObjectKeys]
  BY <1>1, <1>3, ShownStays
<1>7. PICK pc \in Pcs : Turn(r, pc)
  BY <1>1 DEF Turns
<1>8. req' \in [Requests -> Handling]
  BY <1>7 DEF Turn
<1>12. lost' \subseteq Requests \X Queries
  BY <1>1, EveryLoss DEF Loses
<1>9. TypeOK'
  BY <1>1, <1>2, <1>3, <1>4, <1>5, <1>6, <1>8, <1>12 DEF TypeOK
<1>10. AskInv'
  BY <1>2 DEF TypeInv, AskInv
<1>11. HandlerInv'
  <2>1. ASSUME NEW q \in Requests, q # r
        PROVE  Placed(q)'
    <3>1. req'[q] = req[q] /\ Placed(q)
      BY <1>7, <2>1 DEF Turn, TypeInv, HandlerInv
    <3> QED
      BY <1>2, <3>1 DEF Placed, FromDashboard
  <2> QED
    BY <1>1, <2>1 DEF Turns, HandlerInv
<1> QED
  BY <1>9, <1>10, <1>11 DEF TypeInv

LEMMA ByTheAdministrator ==
  ASSUME TypeOK, Administrator
  PROVE  /\ UNCHANGED <<now, bucket, rows, ask, req, page, lost>>
         /\ acts' \in 0..MaxActs
         /\ keys' \in [Users -> [status : {"Active", "Inactive", "Deleted"}, secret : 0..MaxActs]]
         /\ sessions' \in [Sessions -> 0..(MaxTime + SessionTTL)]
<1> DEFINE Key == [status : {"Active", "Inactive", "Deleted"}, secret : 0..MaxActs]
           Expiry == 0..(MaxTime + SessionTTL)
<1>0. /\ keys \in [Users -> Key] /\ sessions \in [Sessions -> Expiry] /\ acts \in 0..MaxActs
      /\ now \in 0..MaxTime /\ MaxActs \in Nat /\ MaxTime \in Nat /\ SessionTTL \in Nat
  BY GatewayAssumption DEF TypeOK
<1>1. ASSUME NEW x, Act(x)
      PROVE  UNCHANGED <<now, bucket, rows, ask, req, page, lost>> /\ acts' \in 0..MaxActs
             /\ acts + 1 \in 0..MaxActs
  BY <1>0, <1>1 DEF Act
<1>2. ASSUME NEW u \in Users, NEW row \in Key, ActOnKey(u, row)
      PROVE  /\ UNCHANGED <<now, bucket, rows, ask, req, page, lost>> /\ acts' \in 0..MaxActs
             /\ keys' \in [Users -> Key] /\ sessions' \in [Sessions -> Expiry]
  <2>1. keys' \in [Users -> Key] /\ sessions' = sessions
    BY <1>0, <1>2 DEF ActOnKey
  <2> QED
    BY <1>0, <1>1, <1>2, <2>1 DEF ActOnKey
<1>3. ASSUME NEW u \in Users, CreateKey(u)
      PROVE  \E row \in Key : ActOnKey(u, row)
  BY <1>0, <1>1, <1>3 DEF CreateKey, ActOnKey
<1>4. ASSUME NEW u \in Users, RevokeKey(u) \/ UpdateKey(u)
      PROVE  \E row \in Key : ActOnKey(u, row)
  <2>1. keys[u] \in Key
    BY <1>0
  <2>2. \A s \in {"Active", "Inactive", "Deleted"} : [keys[u] EXCEPT !.status = s] \in Key
    BY <2>1
  <2> HIDE DEF Key
  <2> QED
    BY <1>4, <2>2 DEF RevokeKey, UpdateKey
<1>5. ASSUME NEW x \in Sessions, Login(x) \/ Logout(x)
      PROVE  Act(x) /\ keys' = keys /\ sessions' \in [Sessions -> Expiry]
  <2>1. now + SessionTTL \in Expiry /\ 0 \in Expiry
    BY <1>0
  <2> HIDE DEF Expiry
  <2>2. NewSession(x) \in [Sessions -> Expiry]
    BY <1>0, <2>1 DEF NewSession
  <2>3. [sessions EXCEPT ![x] = 0] \in [Sessions -> Expiry]
    BY <1>0, <2>1
  <2> QED
    BY <1>5, <2>2, <2>3 DEF Login, Logout
<1>6. CASE \E u \in Users : CreateKey(u) \/ RevokeKey(u) \/ UpdateKey(u)
  <2>1. PICK u \in Users : CreateKey(u) \/ RevokeKey(u) \/ UpdateKey(u)
    BY <1>6
  <2>2. PICK row \in Key : ActOnKey(u, row)
    BY <1>3, <1>4, <2>1
  <2> HIDE DEF Key, Expiry
  <2>3. /\ UNCHANGED <<now, bucket, rows, ask, req, page, lost>> /\ acts' \in 0..MaxActs
        /\ keys' \in [Users -> Key] /\ sessions' \in [Sessions -> Expiry]
    BY <1>2, <2>2
  <2> QED
    BY <2>3 DEF Key, Expiry
<1>7. CASE \E x \in Sessions : Login(x) \/ Logout(x)
  <2>1. PICK x \in Sessions : Login(x) \/ Logout(x)
    BY <1>7
  <2>2. Act(x) /\ keys' = keys /\ sessions' \in [Sessions -> Expiry]
    BY <1>5, <2>1
  <2> QED
    BY <1>0, <1>1, <2>2
<1> QED
  BY <1>6, <1>7 DEF Administrator

\* The others: the administrator, time, and nobody.
Elsewhere == /\ UNCHANGED <<bucket, rows, ask, req, page, lost>>
             /\ now' \in 0..MaxTime /\ now <= now'
             /\ acts' \in 0..MaxActs
             /\ keys' \in [Users -> [status : {"Active", "Inactive", "Deleted"}, secret : 0..MaxActs]]
             /\ sessions' \in [Sessions -> 0..(MaxTime + SessionTTL)]

LEMMA Otherwise ==
  ASSUME TypeOK, Administrator \/ Tick
  PROVE  Elsewhere
<1>0. now \in 0..MaxTime /\ MaxTime \in Nat
  BY GatewayAssumption DEF TypeOK
<1>1. CASE Administrator
  BY <1>0, <1>1, ByTheAdministrator DEF Elsewhere
<1>2. CASE Tick
  BY <1>0, <1>2 DEF Tick, tables, Elsewhere, TypeOK
<1> QED
  BY <1>1, <1>2

\* A failure is not forgotten as long as its request is under way.
LEMMA LostStays ==
  ASSUME TypeInv, Next, NEW r \in Requests, req'[r].pc # "auth"
  PROVE  Lost(r) \subseteq Lost(r)'
<1>0. TypeOK
  BY DEF TypeInv
<1>1. ASSUME NEW q \in Requests, RequestStep(q)
      PROVE  Lost(r) \subseteq Lost(r)'
  BY <1>0, <1>1, EveryLoss DEF Loses
<1>2. CASE Elsewhere
  BY <1>2 DEF Elsewhere, Lost
<1> QED
  BY <1>0, <1>1, <1>2, Otherwise DEF Next

LEMMA TypesElsewhere ==
  ASSUME TypeInv, Elsewhere, Observe
  PROVE  TypeInv'
<1>1. TypeOK /\ UNCHANGED <<bucket, rows, ask, req, page, lost>>
  BY DEF TypeInv, Elsewhere
<1>2. rows' \subseteq Row
  BY <1>1 DEF TypeOK
<1>3. shown' \in [always : SUBSET ObjectKeys, ever : SUBSET ObjectKeys]
  BY <1>1, <1>2, ShownStays
<1>4. TypeOK'
  BY <1>1, <1>3 DEF TypeOK, Elsewhere
<1>5. AskInv'
  BY <1>1 DEF TypeInv, AskInv
<1>6. ASSUME NEW r \in Requests
      PROVE  Placed(r)'
  <2>1. Placed(r) /\ req[r] \in Handling
    BY <1>1 DEF TypeInv, HandlerInv, TypeOK
  <2>2. req[r].time \in Nat /\ now \in Nat /\ now' \in Nat /\ req[r].time <= now /\ now <= now'
    BY <2>1, GatewayAssumption DEF Handling, TypeInv, TypeOK, Elsewhere, Placed
  <2>3. req[r].time <= now'
    BY <2>2
  <2> QED
    BY <1>1, <2>1, <2>3 DEF Placed, FromDashboard
<1> QED
  BY <1>4, <1>5, <1>6 DEF TypeInv, HandlerInv

LEMMA TypesNext ==
  ASSUME TypeInv, Next
  PROVE  TypeInv'
<1>1. TypeOK
  BY DEF TypeInv
<1> QED
  BY <1>1, TypesOfTurn, Otherwise, TypesElsewhere DEF Next

LEMMA TypesStutter ==
  ASSUME TypeInv, UNCHANGED vars
  PROVE  TypeInv'
  BY DEF TypeInv, TypeOK, AskInv, HandlerInv, Placed, FromDashboard, vars, tables, history

\* Where the handlers start.
LEMMA StartsAt ==
  ASSUME Init, NEW r \in Requests
  PROVE  /\ req[r] \in Handling /\ req[r].time = 0
         /\ \/ ask[r] = None /\ req[r].pc = "done"
            \/ ask[r] # None /\ req[r].pc = "new"
            \/ ask[r] # None /\ req[r].pc = Handler(ask[r].op)
<1>1. PICK s \in Scenes :
        /\ ask = s.ask
        /\ req = [q \in Requests |->
                    IF ask[q] = None THEN [Idle EXCEPT !.pc = "done"]
                    ELSE IF q \in s.authorized THEN [Idle EXCEPT !.pc = Handler(ask[q].op)] ELSE Idle]
  BY DEF Init
<1>2. ask[r] # None => Handler(ask[r].op) \in Pcs
  <2>1. ask[r] # None => IsAsk(ask[r])
    BY <1>1, SceneAssumption
  <2> QED
    BY <2>1, HandlerIs
<1>3. "done" \in Pcs
  BY DEF Pcs, Over
<1>4. \A pc \in Pcs : /\ [Idle EXCEPT !.pc = pc] \in Handling /\ [Idle EXCEPT !.pc = pc].time = 0
                      /\ [Idle EXCEPT !.pc = pc].pc = pc
  BY IdleIs DEF Handling
<1>5. req[r] = IF ask[r] = None THEN [Idle EXCEPT !.pc = "done"]
               ELSE IF r \in s.authorized THEN [Idle EXCEPT !.pc = Handler(ask[r].op)] ELSE Idle
  BY <1>1
<1> QED
  BY <1>2, <1>3, <1>4, <1>5, IdleIs

LEMMA TypesInit ==
  ASSUME Init
  PROVE  TypeInv
<1>1. PICK s \in Scenes :
        /\ now = s.now /\ acts = s.acts /\ bucket = s.bucket /\ rows = s.rows /\ ask = s.ask
  BY DEF Init
<1>2. /\ now \in 0..MaxTime /\ acts \in 0..MaxActs /\ bucket \in Bucket
      /\ rows \subseteq Row /\ IsFiniteSet(rows) /\ Apart(rows)
  BY <1>1, SceneAssumption
<1>3. /\ MaxActs \in Nat /\ MaxTime \in Nat /\ SessionTTL \in Nat /\ MaxKeys \in Nat
      /\ Rounds \in Nat \ {0}
  BY GatewayAssumption
<1>4. req \in [Requests -> Handling]
  BY StartsAt DEF Init
<1>5. keys \in [Users -> [status : {"Active", "Inactive", "Deleted"}, secret : 0..MaxActs]]
  BY <1>3 DEF Init
<1>6. sessions \in [Sessions -> 0..(MaxTime + SessionTTL)]
  BY <1>3 DEF Init
<1>7. page \in Page /\ Cardinality(page.found) <= MaxKeys
  <2>1. 0 \in 0..(Rounds - 1)
    BY <1>3
  <2>2. page \in Page /\ page.found = {}
    BY <2>1 DEF Init, NoPage, Page
  <2> QED
    BY <1>3, <2>2, FS_EmptySet
<1>8. shown \in [always : SUBSET ObjectKeys, ever : SUBSET ObjectKeys]
  <2>1. Visible \subseteq ObjectKeys
    BY <1>2, VisibleIs
  <2> QED
    BY <2>1 DEF Init
<1>12. lost \subseteq Requests \X Queries
  BY DEF Init
<1>9. TypeOK
  BY <1>2, <1>4, <1>5, <1>6, <1>7, <1>8, <1>12 DEF TypeOK
<1>10. AskInv
  BY <1>1 DEF AskInv
<1>11. ASSUME NEW r \in Requests
       PROVE  Placed(r)
  <2>1. req[r].time = 0 /\ now \in Nat
    BY <1>2, <1>3, StartsAt
  <2>2. CASE req[r].pc \in {"new", "done"}
    BY <2>1, <2>2, StartsAt DEF Placed, Fits
  <2>3. CASE ask[r] # None /\ req[r].pc = Handler(ask[r].op)
    <3>1. IsAsk(ask[r])
      BY <1>1, <2>3, SceneAssumption
    <3>2. Fits(req[r].pc, ask[r].op) /\ req[r].pc \in Places
      BY <2>3, <3>1, HandlerIs
    <3> QED
      BY <2>1, <2>3, <3>2 DEF Placed, Places
  <2> QED
    BY <2>2, <2>3, StartsAt
<1> QED
  BY <1>9, <1>10, <1>11 DEF TypeInv, HandlerInv

\* Every variable keeps its type, and every handler a place that its operation
\* has: what requests ask for does not change.
THEOREM TypeInvariant == Spec => []TypeInv
<1>1. Init => TypeInv
  BY TypesInit
<1>2. TypeInv /\ [Next]_vars => TypeInv'
  BY TypesNext, TypesStutter
<1> QED
  BY <1>1, <1>2, PTL DEF Spec

\* Types, of the rows of the database and of every handler.
THEOREM TypeCorrect == Spec => []TypeOK
<1>1. TypeInv => TypeOK
  BY DEF TypeInv
<1> QED
  BY <1>1, TypeInvariant, PTL

-----------------------------------------------------------------------------
(* The bucket and its rows *)

LEMMA BucketNext ==
  ASSUME TypeInv, BucketInv, Next
  PROVE  BucketInv'
<1>0. TypeOK
  BY DEF TypeInv
<1>1. ASSUME NEW r \in Requests, TablesMove(r)
      PROVE  BucketInv'
  <2>1. CASE UNCHANGED <<bucket, rows>>
    BY <2>1 DEF BucketInv, NothingOutlivesBucket
  <2>2. CASE UNCHANGED bucket /\ RowsMove(r)
    <3>1. CASE Inserts(r)
      <4> DEFINE kept == {x \in rows : Kept(x, ask[r].key)}
      <4>1. bucket'.live
        BY <2>2, <3>1 DEF Inserts
      <4>2. PICK marker \in BOOLEAN, etag \in Etags \cup {None} :
              rows' = kept \cup {NewRow(NextNum(kept), ask[r].key, FreshId(r, marker), marker, etag)}
        BY <3>1 DEF Inserts
      <4> DEFINE new == NewRow(NextNum(kept), ask[r].key, FreshId(r, marker), marker, etag)
      <4>5. rows' = kept \cup {new} /\ new.key = ask[r].key
        BY <4>2 DEF NewRow
      <4>3. bucket.mode = "Disabled" => \A x \in kept : x.key # ask[r].key
        BY DEF Kept
      <4>4. bucket.mode = "Disabled" => OnePerKey(rows')
        <5> HIDE DEF new
        <5> QED
          BY <4>5, <4>3 DEF OnePerKey, BucketInv
      <4> QED
        BY <2>2, <4>1, <4>4 DEF BucketInv, NothingOutlivesBucket
    <3>2. CASE DropsVersion(r) \/ DropsAll(r)
      <4>1. rows' \subseteq rows
        BY <3>2 DEF DropsVersion, DropsAll
      <4> QED
        BY <2>2, <4>1 DEF BucketInv, NothingOutlivesBucket, OnePerKey
    <3>3. CASE Locks(r)
      <4>1. PICK f \in [rows -> Row] : rows' = {f[x] : x \in rows} /\ \A x \in rows : SameRow(x, f[x])
        BY <3>3 DEF Locks
      <4>2. OnePerKey(rows) => OnePerKey(rows')
        BY <4>1 DEF OnePerKey, SameRow
      <4> QED
        BY <2>2, <4>1, <4>2 DEF BucketInv, NothingOutlivesBucket
    <3> QED
      BY <2>2, <3>1, <3>2, <3>3 DEF RowsMove
  <2>3. CASE UNCHANGED rows /\ BucketMoves(r)
    <3>1. FreshBucket.live
      BY DEF FreshBucket, NoBucket
    <3>2. bucket'.live \/ (bucket' = NoBucket /\ rows = {})
      BY <2>3, <3>1 DEF BucketMoves
    <3>3. bucket'.mode = "Disabled" => rows = {} \/ bucket.mode = "Disabled"
      BY <2>3 DEF BucketMoves, BucketInv, NothingOutlivesBucket
    <3> QED
      BY <2>3, <3>2, <3>3 DEF BucketInv, NothingOutlivesBucket, OnePerKey
  <2> QED
    BY <1>1, <2>1, <2>2, <2>3 DEF TablesMove
<1>2. CASE Elsewhere
  BY <1>2 DEF Elsewhere, BucketInv, NothingOutlivesBucket
<1> QED
  BY <1>0, <1>1, <1>2, EveryTableMove, Otherwise DEF Next

\* While there is no bucket there are no rows, no policy and no block setting;
\* and in a bucket that never was versioned no key has two versions.
THEOREM BucketInvariant == Spec => []BucketInv
<1>1. Init => BucketInv
  BY SceneAssumption DEF Init, BucketInv, NothingOutlivesBucket
<1>2. BucketInv /\ UNCHANGED vars => BucketInv'
  BY DEF BucketInv, NothingOutlivesBucket, vars, tables
<1>3. TypeInv /\ BucketInv /\ [Next]_vars => BucketInv'
  BY <1>2, BucketNext
<1> QED
  BY <1>1, <1>3, TypeInvariant, PTL DEF Spec

\* delete_bucket: no object is left without a bucket, and a bucket made again
\* starts without the policy and the block setting of the one before.
THEOREM NothingOutlives == Spec => []NothingOutlivesBucket
<1>1. BucketInv => NothingOutlivesBucket
  BY DEF BucketInv
<1> QED
  BY <1>1, BucketInvariant, PTL

-----------------------------------------------------------------------------
(* Preconditions *)

LEMMA MetNext ==
  ASSUME TypeInv, MetInv, Next
  PROVE  MetInv'
<1>0. /\ TypeOK /\ UNCHANGED ask
      /\ met' = {r \in Conditional' : r \in met \/ Matches(ask[r].cond, ask[r].key)'}
  BY Otherwise DEF TypeInv, Next, Elsewhere, Observe
<1> SUFFICES ASSUME NEW q \in Requests, q \in Conditional', req'[q].pc \in {"commit", "dropall"}
             PROVE  q \in met' \/ Excused(q)'
  BY DEF MetInv, Conditional
<1>3. Lost(q) \subseteq Lost(q)'
  BY LostStays
<1>1. CASE req'[q] = req[q]
  <2>1. q \in Conditional /\ req[q].pc \in {"commit", "dropall"}
    BY <1>0, <1>1 DEF Conditional, Doing
  <2> QED
    BY <1>0, <1>3, <2>1 DEF MetInv, Excused
<1>2. CASE req'[q] # req[q]
  <2>1. UNCHANGED <<now, ask>> /\ RequestStep(q)
    <3>1. ASSUME NEW r \in Requests, RequestStep(r), UNCHANGED <<now, ask>>
          PROVE  r = q
      BY <1>2, <3>1, EveryTurn DEF Turns, Turn
    <3> QED
      BY <1>0, <1>2, <3>1, Otherwise DEF Next, Elsewhere
  <2>2. Enters(q) /\ TablesMove(q) /\ Fits(req'[q].pc, ask[q].op)
    BY <1>0, <2>1, EveryTurn, EveryTableMove DEF Turns, Placed
  <2>3. rows' = rows
    BY <2>2 DEF TablesMove
  <2>4. ask[q].op \in {"Put", "Delete"}
    BY <1>0 DEF Conditional, Doing
  <2>5. Passed(q)
    BY <2>2, <2>4 DEF Enters, Fits
  <2>6. Matches(ask[q].cond, ask[q].key) => Matches(ask[q].cond, ask[q].key)'
    BY <1>0, <2>3 DEF Matches, HasRow, Latest
  <2>7. ask[q].cond.kind \in {"absent", "etag"}
    <3>1. ask[q] # None /\ ask[q].cond.kind # "none"
      BY <1>0 DEF Conditional, Doing
    <3> QED
      BY <3>1, AskIs DEF TypeInv, IsAsk
  <2> QED
    BY <1>0, <2>5, <2>6, <2>7 DEF Passed, Excused
<1> QED
  BY <1>1, <1>2

LEMMA MetInit ==
  ASSUME Init
  PROVE  MetInv
<1>1. TypeInv
  BY TypesInit
<1> SUFFICES ASSUME NEW r \in Conditional, req[r].pc \in {"commit", "dropall"}
             PROVE  FALSE
  BY DEF MetInv
<1>2. r \in Requests /\ ask[r] # None /\ ask[r].op \in {"Put", "Delete"} /\ IsAsk(ask[r])
  BY <1>1, AskIs DEF TypeInv, Conditional, Doing
<1>3. req[r].pc = Handler(ask[r].op)
  BY <1>2, StartsAt
<1> QED
  BY <1>2, <1>3, HandlerIs

\* A handler that is about to write, or to delete all versions, has seen its
\* precondition hold, or asked for no object and failed to read the one there is.
THEOREM MetInvariant == Spec => []MetInv
<1>1. MetInv /\ UNCHANGED vars => MetInv'
  BY DEF MetInv, Excused, Lost, Conditional, Doing, vars, tables, history
<1>2. TypeInv /\ MetInv /\ [Next]_vars => MetInv'
  BY <1>1, MetNext
<1> QED
  BY <1>2, MetInit, TypeInvariant, PTL DEF Spec

\* put_object, delete_object: what has a precondition takes effect only if that
\* held at some moment since the request arrived; or it was that there be no
\* object, and the query of the object failed.
THEOREM ConditionsHeld == Spec => ConditionHeld
<1>1. MetInv => \A r \in Conditional :
                  req[r].pc \in {"commit", "dropall"} /\ req'[r].pc = "done" =>
                    r \in met \/ ("object" \in Lost(r) /\ ask[r].cond.kind = "absent")
  BY DEF MetInv, Excused
<1> QED
  BY <1>1, MetInvariant, PTL DEF Spec, ConditionHeld

-----------------------------------------------------------------------------
(* Locks *)

\* A lock of row x that is in force at time t, against what a asks.
Forced(a, x, lock, t) ==
  \/ lock = "hold" /\ x.hold
  \/ /\ lock = "retention" /\ x.retention.until > t
     /\ x.retention.mode = "GOVERNANCE" => ~a.bypass

LEMMA GuardIs ==
  ASSUME Observe, NEW r, NEW v, NEW lock, <<r, v, lock>> \in guarded'
  PROVE  /\ r \in Deleting' /\ (Unlooked(r)' \/ <<r, v, lock>> \in guarded)
         /\ \E x \in rows' : x.vid = v /\ Forced(ask'[r], x, lock, now')
<1> DEFINE g == <<r, v, lock>>
<1>1. PICK q \in Deleting' : g \in InForce(q)'
  BY DEF Observe
<1>2. g[1] = r /\ (Unlooked(g[1])' \/ g \in guarded)
  BY DEF Observe
<1>3. CASE g \in {<<q, x.vid, "hold">> : x \in {y \in rows' : y.hold}}
  BY <1>1, <1>2, <1>3 DEF Forced, Unlooked
<1>4. CASE g \in {<<q, x.vid, "retention">> : x \in {y \in rows' :
              y.retention.until > now' /\ (y.retention.mode = "GOVERNANCE" => ~ask'[q].bypass)}}
  BY <1>1, <1>2, <1>4 DEF Forced, Unlooked
<1> QED
  BY <1>1, <1>3, <1>4 DEF InForce

\* A row that is new has no locks, and the others keep id and key.
LEMMA RowsFrom ==
  ASSUME TypeInv, NEW r \in Requests, ask[r] # None, RowsMove(r), NEW x \in rows'
  PROVE  \/ x.hold = FALSE /\ x.retention = NoRetention
         \/ \E y \in rows : y.vid = x.vid /\ y.key = x.key
<1>0. /\ IsAsk(ask[r]) /\ Fits(req[r].pc, ask[r].op) /\ TypeOK
  BY AskIs DEF TypeInv, HandlerInv, Placed
<1>1. CASE Inserts(r)
  <2>1. ask[r].key \in ObjectKeys
    BY <1>0, <1>1 DEF Inserts, Fits, OnObjects, IsAsk
  <2> DEFINE kept == {y \in rows : Kept(y, ask[r].key)}
  <2>2. PICK new \in Row : rows' = kept \cup {new} /\ new.hold = FALSE /\ new.retention = NoRetention
    BY <1>0, <1>1, <2>1, InsertsIs
  <2> QED
    BY <2>2
<1>2. CASE DropsVersion(r) \/ DropsAll(r)
  BY <1>2 DEF DropsVersion, DropsAll
<1>3. CASE Locks(r)
  BY <1>3 DEF Locks, SameRow
<1> QED
  BY <1>1, <1>2, <1>3 DEF RowsMove

LEMMA GuardStays ==
  ASSUME TypeInv, TypeInv', Next, NEW r \in Requests, ~Unlooked(r)', NEW x \in rows', Guarded(r, x)'
  PROVE  \E y \in rows : y.vid = x.vid /\ y.key = x.key /\ Guarded(r, y)
<1>0. Observe /\ TypeOK /\ now' \in Nat /\ Apart(rows')
  BY GatewayAssumption DEF Next, TypeInv, TypeOK
<1>1. PICK lock \in {"hold", "retention"} : lock \notin Lost(r)' /\ <<r, x.vid, lock>> \in guarded'
  BY DEF Guarded
<1>6. Lost(r) \subseteq Lost(r)'
  BY LostStays DEF Unlooked, Authorizing
<1>2. <<r, x.vid, lock>> \in guarded /\ \E z \in rows' : z.vid = x.vid /\ Forced(ask'[r], z, lock, now')
  BY <1>0, <1>1, GuardIs
<1>3. Forced(ask'[r], x, lock, now')
  BY <1>0, <1>2 DEF Apart
<1>4. ~(x.hold = FALSE /\ x.retention = NoRetention)
  BY <1>0, <1>3, NoRetentionIs DEF Forced
<1>5. \E y \in rows : y.vid = x.vid /\ y.key = x.key
  <2>1. CASE rows' = rows
    BY <2>1
  <2>2. CASE rows' # rows
    <3>1. PICK q \in Requests : RequestStep(q) /\ UNCHANGED <<now, ask>>
      BY <1>0, <2>2, Otherwise DEF Next, Elsewhere
    <3>2. RowsMove(q) /\ ask[q] # None
      BY <2>2, <3>1, EveryTurn, EveryTableMove DEF TablesMove
    <3> QED
      BY <1>4, <3>2, RowsFrom
  <2> QED
    BY <2>1, <2>2
<1> QED
  BY <1>1, <1>2, <1>5, <1>6 DEF Guarded

\* The bucket becomes unversioned only when it is empty.
LEMMA BecomesDisabled ==
  ASSUME TypeInv, BucketInv, Next, bucket'.mode = "Disabled", bucket.mode # "Disabled"
  PROVE  rows' = {}
<1>1. PICK r \in Requests : RequestStep(r) /\ UNCHANGED <<now, ask>>
  BY Otherwise DEF Next, Elsewhere, TypeInv
<1>2. TablesMove(r)
  BY <1>1, EveryTableMove
<1>3. UNCHANGED rows /\ BucketMoves(r)
  BY <1>2 DEF TablesMove
<1> QED
  BY <1>3 DEF BucketMoves, BucketInv, NothingOutlivesBucket

LEMMA LooksStill ==
  ASSUME TypeInv, TypeInv', BucketInv, Next, NEW r \in Deleting', r \in Deleting, Looked(r),
         req'[r] = req[r]
  PROVE  Looked(r)'
<1>0. r \in Requests /\ UNCHANGED ask /\ Observe
  BY Otherwise DEF Next, Elsewhere, Deleting, TypeInv
<1>1. CASE Unlooked(r)'
  BY <1>1 DEF Unlooked, Looked, Authorizing
<1>2. CASE ~Unlooked(r)'
  <2>1. \A x \in rows' : Guarded(r, x)' => \E y \in rows : y.vid = x.vid /\ y.key = x.key /\ Guarded(r, y)
    BY <1>0, <1>2, GuardStays
  <2>2. \A v, lock : <<r, v, lock>> \in guarded' => <<r, v, lock>> \in guarded
    BY <1>0, <1>2, GuardIs
  <2>12. Lost(r) \subseteq Lost(r)'
    BY <1>0, <1>2, LostStays DEF Unlooked, Authorizing
  <2>3. req[r].pc = "retention" => "hold" \in Lost(r)' \/ <<r, req[r].vid, "hold">> \notin guarded'
    BY <2>2, <2>12 DEF Looked
  <2>4. KeyIsFree(r) => KeyIsFree(r)'
    BY <1>0, <2>1 DEF KeyIsFree
  <2>5. req[r].pc = "drop" => "version" \in Lost(r)' \/ VersionIsFree(r)'
    BY <1>0, <2>1, <2>12 DEF Looked, VersionIsFree
  <2>6. bucket'.mode = "Disabled" => bucket.mode = "Disabled" \/ rows' = {}
    BY BecomesDisabled
  <2>7. req[r].pc \in {"hold", "retention"} /\ ask[r].vid = None /\ bucket'.mode = "Disabled" =>
          \A x \in rows' : x.key = ask[r].key /\ Guarded(r, x)' => x.vid = req[r].vid
    BY <2>1, <2>6 DEF Looked
  <2>8. rows' = {} => KeyIsFree(r)'
    BY DEF KeyIsFree
  <2>9. req[r].pc \in {"mode", "mark"} /\ bucket'.mode = "Disabled" =>
          "version" \in Lost(r)' \/ KeyIsFree(r)'
    BY <2>4, <2>6, <2>8, <2>12 DEF Looked
  <2>10. req[r].pc \in {"match", "dropall"} => {"version", "mode"} \cap Lost(r)' # {} \/ KeyIsFree(r)'
    BY <2>4, <2>12 DEF Looked
  <2>11. /\ req[r].pc = "drop" => ask[r].vid # None
         /\ req[r].pc \in {"mode", "mark", "match"} => ask[r].vid = None
         /\ req[r].pc \in {"hold", "retention"} /\ ask[r].vid \notin {None, Null} => req[r].vid = ask[r].vid
    BY DEF Looked
  <2> QED
    BY <1>0, <2>3, <2>5, <2>7, <2>9, <2>10, <2>11 DEF Looked
<1> QED
  BY <1>1, <1>2

\* No lock is in force, all along, that the two queries of
\* check_object_lock_for_delete would have found.
LEMMA FoundFree ==
  ASSUME TypeInv, TypeInv', Next, NEW r \in Deleting, UNCHANGED <<rows, now, ask>>, ~Unlooked(r)',
         req[r].pc = "retention", Looked(r), NotRetained(r) \/ "retention" \in Lost(r)', NEW x \in rows, x.vid = req[r].vid
  PROVE  ~Guarded(r, x)'
<1>0. /\ Observe /\ TypeOK /\ now \in Nat /\ Apart(rows) /\ x \in Row /\ r \in Requests
      /\ req[r].time \in Nat /\ req[r].time <= now
  BY GatewayAssumption DEF Next, TypeInv, TypeOK, HandlerInv, Placed, Deleting, Handling
<1>1. SUFFICES ASSUME NEW lock \in {"hold", "retention"}, lock \notin Lost(r)',
                      <<r, x.vid, lock>> \in guarded'
               PROVE  FALSE
  BY DEF Guarded
<1>11. lock \notin Lost(r)
  BY <1>0, <1>1, LostStays DEF Unlooked, Authorizing
<1>2. <<r, x.vid, lock>> \in guarded /\ \E z \in rows : z.vid = x.vid /\ Forced(ask[r], z, lock, now)
  BY <1>0, <1>1, GuardIs
<1>3. Forced(ask[r], x, lock, now)
  BY <1>0, <1>2 DEF Apart
<1>4. lock = "retention"
  BY <1>2, <1>11 DEF Looked
<1>5. x.retention.until > now /\ (x.retention.mode = "GOVERNANCE" => ~ask[r].bypass)
  BY <1>3, <1>4 DEF Forced
<1>6. x.retention \in Retention
  BY <1>0 DEF Row
<1>7. x.retention.until \in Nat /\ x.retention.mode \in {"GOVERNANCE", "COMPLIANCE"}
  BY <1>0, <1>5, <1>6, NoRetentionIs DEF Retention
<1>8. x.retention.until > req[r].time
  BY <1>0, <1>5, <1>7
<1>9. Retained(x, ask[r].bypass, req[r].time)
  BY <1>5, <1>7, <1>8 DEF Retained
<1>10. HasVersion(req[r].vid) /\ Version(req[r].vid) = x
  BY <1>0, VersionIs
<1> QED
  BY <1>1, <1>4, <1>9, <1>10 DEF NotRetained

LEMMA LooksOn ==
  ASSUME TypeInv, TypeInv', BucketInv, Next, NEW r \in Deleting, r \in Deleting', Looked(r),
         RequestStep(r), UNCHANGED <<now, ask>>, req'[r] # req[r]
  PROVE  Looked(r)'
<1>0. /\ r \in Requests /\ Observe /\ TypeOK /\ ask[r] # None /\ IsAsk(ask[r]) /\ ask[r].op = "Delete"
      /\ Enters(r) /\ TablesMove(r)
  BY EveryTurn, EveryTableMove, AskIs DEF Next, Deleting, Doing, TypeInv, Turns
<1>1. UNCHANGED <<rows, bucket>>
  BY <1>0 DEF TablesMove, Deleting, Over
<1>2. Asked(r) # None => Asked(r) \in Versions
  BY <1>0, AskedIs
<1>3. None \notin Versions /\ \A x \in rows : x.vid \in Versions
  BY <1>0, GatewayAssumption DEF TypeOK, Row
<1>4. KeyIsFree(r) /\ ~Unlooked(r)' => KeyIsFree(r)'
  BY <1>0, <1>1, GuardStays DEF KeyIsFree
\* An unversioned bucket has one version of the key.
<1>5. ASSUME bucket.mode = "Disabled", NEW x \in rows, x.key = ask[r].key
      PROVE  HasRow(ask[r].key) /\ Latest(ask[r].key) = x
  <2>1. HasRow(ask[r].key)
    BY <1>5 DEF HasRow
  <2>2. Latest(ask[r].key) \in rows /\ Latest(ask[r].key).key = ask[r].key
    BY <1>0, <2>1, LatestIs
  <2> QED
    BY <1>5, <2>1, <2>2 DEF BucketInv, OnePerKey
<1>6. CASE req'[r].pc = "hold"
  <2>1. req[r].pc = "find" /\ Asked(r) # None /\ req'[r].vid = Asked(r)
    BY <1>0, <1>6 DEF Enters
  <2>2. ask[r].vid \notin {None, Null} => req'[r].vid = ask[r].vid
    BY <2>1 DEF Asked
  <2>3. ask[r].vid = None /\ bucket.mode = "Disabled" =>
          \A x \in rows : x.key = ask[r].key => x.vid = req'[r].vid
    BY <1>5, <2>1 DEF Asked
  <2> QED
    BY <1>0, <1>1, <1>6, <2>2, <2>3 DEF Looked
<1>7. CASE req'[r].pc = "retention"
  <2>1. req[r].pc = "hold" /\ req'[r].vid = req[r].vid /\ (NotHeld(r) \/ "hold" \in Lost(r)')
    BY <1>0, <1>7 DEF Enters
  <2>2. "hold" \in Lost(r)' \/ <<r, req'[r].vid, "hold">> \notin guarded'
    <3>1. SUFFICES ASSUME NotHeld(r), <<r, req[r].vid, "hold">> \in guarded'
                   PROVE  FALSE
      BY <2>1
    <3>2. PICK x \in rows : x.vid = req[r].vid /\ Forced(ask[r], x, "hold", now)
      BY <1>0, <1>1, <3>1, GuardIs
    <3>3. x.hold /\ HasVersion(req[r].vid) /\ Version(req[r].vid) = x
      BY <1>0, <3>2, VersionIs DEF Forced
    <3> QED
      BY <3>1, <3>3 DEF NotHeld
  <2>3. ~Unlooked(r)'
    BY <1>7 DEF Unlooked, Authorizing
  <2>4. ask[r].vid \notin {None, Null} => req'[r].vid = ask[r].vid
    BY <2>1 DEF Looked
  <2>5. ask[r].vid = None /\ bucket.mode = "Disabled" =>
          \A x \in rows : x.key = ask[r].key /\ Guarded(r, x)' => x.vid = req'[r].vid
    <3>1. SUFFICES ASSUME ask[r].vid = None, bucket.mode = "Disabled",
                          NEW x \in rows, x.key = ask[r].key, Guarded(r, x)'
                   PROVE  x.vid = req[r].vid
      BY <2>1
    <3>2. PICK y \in rows : y.vid = x.vid /\ y.key = x.key /\ Guarded(r, y)
      BY <1>0, <1>1, <2>3, <3>1, GuardStays
    <3> QED
      BY <2>1, <3>1, <3>2 DEF Looked
  <2> QED
    BY <1>0, <1>1, <1>7, <2>2, <2>4, <2>5 DEF Looked
<1>8. CASE req'[r].pc = "drop"
  <2>1. ask[r].vid # None /\ Checked(r) /\ ~Unlooked(r)'
    BY <1>0, <1>8 DEF Enters, Unlooked, Authorizing
  <2>2. ASSUME "version" \notin Lost(r)',
               NEW x \in rows, x.key = ask[r].key, x.vid = ask[r].vid, x.vid # Null
        PROVE  ~Guarded(r, x)'
    <3>1. HasVersion(x.vid) /\ Version(x.vid) = x
      BY <1>0, VersionIs
    <3>2. Asked(r) # None
      BY <2>1, <2>2, <3>1 DEF Asked
    <3>3. req[r].pc = "retention" /\ (NotRetained(r) \/ "retention" \in Lost(r)')
      BY <2>1, <2>2, <3>2 DEF Checked
    <3>4. x.vid = req[r].vid
      BY <2>1, <2>2, <3>3 DEF Looked
    <3> QED
      BY <1>0, <1>1, <2>1, <3>3, <3>4, FoundFree
  <2> QED
    BY <1>0, <1>1, <1>8, <2>1, <2>2 DEF Looked, VersionIsFree
<1>9. CASE req'[r].pc = "mode"
  <2>1. ask[r].vid = None /\ Checked(r) /\ ~Unlooked(r)'
    BY <1>0, <1>9 DEF Enters, Unlooked, Authorizing
  <2>2. ASSUME "version" \notin Lost(r)', bucket.mode = "Disabled",
               NEW x \in rows, x.key = ask[r].key
        PROVE  ~Guarded(r, x)'
    <3>1. HasRow(ask[r].key) /\ Latest(ask[r].key) = x
      BY <1>5, <2>2
    <3>2. Asked(r) # None
      BY <1>3, <2>1, <3>1 DEF Asked
    <3>3. req[r].pc = "retention" /\ (NotRetained(r) \/ "retention" \in Lost(r)')
      BY <2>1, <2>2, <3>2 DEF Checked
    <3>4. CASE x.vid = req[r].vid
      BY <1>0, <1>1, <2>1, <3>3, <3>4, FoundFree
    <3>5. CASE x.vid # req[r].vid
      <4>1. SUFFICES ASSUME Guarded(r, x)'
                     PROVE  FALSE
        OBVIOUS
      <4>2. PICK y \in rows : y.vid = x.vid /\ y.key = x.key /\ Guarded(r, y)
        BY <1>0, <1>1, <2>1, <4>1, GuardStays
      <4> QED
        BY <2>1, <2>2, <3>3, <3>5, <4>2 DEF Looked
    <3> QED
      BY <3>4, <3>5
  <2> QED
    BY <1>0, <1>1, <1>9, <2>1, <2>2 DEF Looked, KeyIsFree
<1>10. CASE req'[r].pc = "mark"
  <2>1. req[r].pc = "mode" /\ bucket.mode # "Disabled"
    BY <1>0, <1>10 DEF Enters
  <2> QED
    BY <1>0, <1>1, <1>10, <2>1 DEF Looked
<1>11. CASE req'[r].pc \in {"match", "dropall"}
  <2>1. \/ /\ req[r].pc = "mode" /\ req'[r].pc = "match"
           /\ bucket.mode = "Disabled" \/ "mode" \in Lost(r)'
        \/ req[r].pc = "match" /\ req'[r].pc = "dropall"
    BY <1>0, <1>11 DEF Enters
  <2>4. ~Unlooked(r)' /\ Lost(r) \subseteq Lost(r)'
    BY <1>0, <1>11, LostStays DEF Unlooked, Authorizing
  <2>2. {"version", "mode"} \cap Lost(r)' # {} \/ KeyIsFree(r)
    BY <1>11, <2>1, <2>4 DEF Looked
  <2>3. req[r].pc \in {"mode", "match"} => ask[r].vid = None
    BY DEF Looked
  <2> QED
    BY <1>0, <1>1, <1>4, <1>11, <2>1, <2>2, <2>3, <2>4 DEF Looked
<1> QED
  BY <1>6, <1>7, <1>8, <1>9, <1>10, <1>11 DEF Looked

LEMMA LocksNext ==
  ASSUME TypeInv, TypeInv', BucketInv, LockInv, Next
  PROVE  LockInv'
<1>1. UNCHANGED ask
  BY Otherwise DEF Next, Elsewhere, TypeInv
<1> SUFFICES ASSUME NEW r \in Deleting'
             PROVE  Looked(r)'
  BY DEF LockInv
<1>2. r \in Requests
  BY DEF Deleting
<1>3. CASE req'[r] = req[r]
  <2>1. r \in Deleting
    BY <1>1, <1>3 DEF Deleting, Doing
  <2> QED
    BY <1>3, <2>1, LooksStill DEF LockInv
<1>4. CASE req'[r] # req[r]
  <2>1. UNCHANGED <<now, ask>> /\ RequestStep(r)
    <3>1. ASSUME NEW q \in Requests, RequestStep(q), UNCHANGED <<now, ask>>
          PROVE  q = r
      BY <1>2, <1>4, <3>1, EveryTurn DEF Turns, Turn
    <3> QED
      BY <1>4, <3>1, Otherwise DEF Next, Elsewhere, TypeInv
  <2>2. req[r].pc \notin Over
    BY <2>1 DEF RequestStep, Arrive, Authorize, Authenticate, LoadPolicy, LoadBlock, CheckBucket, Write,
     CheckCondition, CommitPut, Delete, FindVersion, ReadHold, ReadRetention, DropVersion, ReadMode,
     Mark, CheckDelete, DropAll, Lock, FindTarget, SetRetention, SetHold, Administer, FindBucket,
     CreateBucket, CountObjects, RemoveBucket, AdmitPolicy, Apply, ListWindow, At, Over
  <2>3. r \in Deleting
    BY <1>1, <1>2, <2>2 DEF Deleting, Doing
  <2> QED
    BY <1>4, <2>1, <2>3, LooksOn DEF LockInv
<1> QED
  BY <1>3, <1>4

LEMMA LocksInit ==
  ASSUME Init
  PROVE  LockInv
<1>1. TypeInv
  BY TypesInit
<1>2. ASSUME NEW r \in Deleting
      PROVE  req[r].pc \in {"new", "head"}
  <2>1. r \in Requests /\ ask[r] # None /\ ask[r].op = "Delete" /\ req[r].pc \notin Over
    BY DEF Deleting, Doing
  <2> QED
    BY <2>1, StartsAt DEF Handler, Over
<1> QED
  BY <1>2 DEF LockInv, Looked

LEMMA LocksStutter ==
  ASSUME LockInv, UNCHANGED vars
  PROVE  LockInv'
<1>1. Deleting' = Deleting /\ UNCHANGED <<req, ask, bucket, rows, guarded, lost>>
  BY DEF Deleting, Doing, vars, tables, history
<1> SUFFICES ASSUME NEW r \in Deleting
             PROVE  Looked(r)'
  BY <1>1 DEF LockInv
<1>2. Lost(r)' = Lost(r)
  BY <1>1 DEF Lost
<1>3. \A x : Guarded(r, x)' <=> Guarded(r, x)
  BY <1>1, <1>2 DEF Guarded
<1>4. (KeyIsFree(r)' <=> KeyIsFree(r)) /\ (VersionIsFree(r)' <=> VersionIsFree(r))
  BY <1>1, <1>3 DEF KeyIsFree, VersionIsFree
<1>5. Looked(r)
  BY DEF LockInv
<1> QED
  BY <1>1, <1>2, <1>3, <1>4, <1>5 DEF Looked

\* A DELETE that goes on to drop what it looked at has met no lock that was in
\* force all along, but for the locks it failed to read; or it could not read
\* which version, or which versioning mode, it is about.
THEOREM LockInvariant == Spec => []LockInv
<1>1. LockInv /\ UNCHANGED vars => LockInv'
  BY LocksStutter
<1>2. TypeInv /\ TypeInv' /\ BucketInv /\ LockInv /\ [Next]_vars => LockInv'
  BY <1>1, LocksNext
<1> QED
  BY <1>2, LocksInit, TypeInvariant, BucketInvariant, PTL DEF Spec

\* What a DELETE takes away.
LEMMA Takes ==
  ASSUME TypeInv, LockInv, Next, NEW r \in Deleting, NEW x \in rows, req'[r] # req[r], x.vid # Null,
         \A y \in rows' : y.vid # x.vid
  PROVE  ~Guarded(r, x) \/ {"version", "mode"} \cap Lost(r) # {}
<1>1. r \in Requests /\ ask[r].op = "Delete" /\ TypeOK /\ Looked(r)
  BY DEF Deleting, Doing, TypeInv, LockInv
<1>2. UNCHANGED <<now, ask>> /\ RequestStep(r)
  <2>1. ASSUME NEW q \in Requests, RequestStep(q), UNCHANGED <<now, ask>>
        PROVE  q = r
    BY <1>1, <2>1, EveryTurn DEF Turns, Turn
  <2> QED
    BY <1>1, <2>1, Otherwise DEF Next, Elsewhere
<1>3. RowsMove(r) /\ ask[r] # None /\ Fits(req[r].pc, ask[r].op)
  BY <1>2, EveryTurn, EveryTableMove DEF TablesMove, TypeInv, HandlerInv, Placed, Deleting
<1>4. CASE Inserts(r)
  <2> DEFINE kept == {y \in rows : Kept(y, ask[r].key)}
  <2>1. req[r].pc = "mark"
    BY <1>1, <1>3, <1>4 DEF Inserts, Fits
  <2>2. kept \subseteq rows'
    BY <1>4 DEF Inserts
  <2>3. ~Kept(x, ask[r].key)
    BY <2>2
  <2>4. bucket.mode = "Disabled" /\ x.key = ask[r].key
    BY <1>1, <2>3 DEF Kept, TypeOK, Bucket, Modes
  <2> QED
    BY <1>1, <2>1, <2>4 DEF Looked, KeyIsFree
<1>5. CASE DropsVersion(r)
  <2>1. x.key = ask[r].key /\ x.vid = ask[r].vid
    BY <1>5 DEF DropsVersion
  <2> QED
    BY <1>1, <1>5, <2>1 DEF DropsVersion, Looked, VersionIsFree
<1>6. CASE DropsAll(r)
  <2>1. x.key = ask[r].key
    BY <1>6 DEF DropsAll
  <2> QED
    BY <1>1, <1>6, <2>1 DEF DropsAll, Looked, KeyIsFree
<1>7. CASE Locks(r)
  BY <1>7 DEF Locks, SameRow
<1> QED
  BY <1>3, <1>4, <1>5, <1>6, <1>7 DEF RowsMove

\* check_object_lock_for_delete: no DELETE takes a version, other than a null
\* version, that was under the same lock from before it looked until it took it,
\* unless its query of that lock, of the version or of the mode failed.
THEOREM LockedVersionsStay == Spec => LockedVersionStays
<1>1. TypeInv /\ LockInv /\ [Next]_vars =>
        [\A r \in Deleting : \A x \in rows :
           req'[r] # req[r] /\ x.vid # Null /\ (\A y \in rows' : y.vid # x.vid) =>
             \A lock \in {"hold", "retention"} :
               <<r, x.vid, lock>> \in guarded => Lost(r) \cap {lock, "version", "mode"} # {}]_vars
  BY Takes DEF Guarded
<1> QED
  BY <1>1, LockInvariant, TypeInvariant, PTL DEF Spec, LockedVersionStays

-----------------------------------------------------------------------------
(* Decisions *)

LEMMA MomentIs ==
  ASSUME NEW r
  PROVE  /\ Moment(r).key = KeyOf(r) /\ Moment(r).session = SessionOf(r) /\ Moment(r).time = now
         /\ Moment(r).doc = bucket.policy /\ Moment(r).block = bucket.block
  BY DEF Moment

\* A mix of moments that were seen, but for what could not be read.
LEMMA MixIs ==
  ASSUME NEW a, NEW b, NEW c, NEW failed
  PROVE  LET m == Mix(a, b, c, failed) IN
         /\ m.key = (IF "key" \in failed THEN None ELSE a.key)
         /\ m.session = a.session /\ m.time = a.time
         /\ m.doc = DocAt(b, failed) /\ m.block = (c.block /\ "block" \notin failed)
  BY DEF Mix, DocAt

LEMMA MixedOf ==
  ASSUME NEW r, NEW a \in seen[r], NEW b \in seen[r], NEW c \in seen[r], NEW failed
  PROVE  Mix(a, b, c, failed) \in Mixes(r, failed)
  BY DEF Mixes

LEMMA SignedIs ==
  ASSUME NEW r, NEW a, NEW m, m.key = a.key, m.session = a.session, m.time = a.time
  PROVE  Signed(r, m) = Signed(r, a)
  BY DEF Signed

\* Who a request is from depends on whether the key could be read, no more.
LEMMA UserIs ==
  ASSUME NEW r, NEW a, NEW b, NEW c, NEW f, NEW g, "key" \in f <=> "key" \in g
  PROVE  /\ Signed(r, Mix(a, b, c, f)) = Signed(r, Mix(a, a, a, g))
         /\ UserAt(r, a, f) = UserAt(r, a, g)
<1>1. \A x, y, h : /\ Mix(a, x, y, h).key = (IF "key" \in h THEN None ELSE a.key)
                   /\ Mix(a, x, y, h).session = a.session /\ Mix(a, x, y, h).time = a.time
  BY MixIs
<1>2. \A x, y : Signed(r, Mix(a, x, y, f)) = Signed(r, Mix(a, a, a, g))
  BY <1>1, SignedIs
<1> QED
  BY <1>2 DEF UserAt

\* The checks of a signature or a session find what it is worth now.
LEMMA ProvenIs ==
  ASSUME TypeOK, NEW r \in Requests, IsAsk(ask[r]), NEW m, m.session = SessionOf(r), m.time = now,
         m.key \in {KeyOf(r), None}
  PROVE  Proven(r, m.key) <=> Signed(r, m)
<1> DEFINE sig == ask[r].sig
           secret == FindSecret(sig.user, m.key)
<1>0. m.session = SessionOf(r) /\ m.time = now
  OBVIOUS
<1>1. CASE FromDashboard(r)
  BY <1>0, <1>1 DEF Proven, Signed, Admits, Valid
<1>2. CASE ~FromDashboard(r) /\ sig.scheme = "none"
  <2>1. ~InTime(sig, ask[r].key, now)
    BY <1>2 DEF InTime
  <2> QED
    BY <1>0, <1>2, <2>1 DEF Proven, Signed
<1>3. CASE ~FromDashboard(r) /\ sig.user = Root
  <2>1. secret = 0
    BY <1>3 DEF FindSecret
  <2>2. 0 # None
    BY GatewayAssumption
  <2> QED
    BY <1>0, <1>3, <2>1, <2>2 DEF Proven, Signed, SignedWith
<1>5. CASE ~FromDashboard(r) /\ sig.user # Root /\ m.key = None
  <2>1. secret = None
    BY <1>5 DEF FindSecret
  <2> QED
    BY <1>0, <1>5, <2>1 DEF Proven, Signed
<1>4. CASE ~FromDashboard(r) /\ sig.user \in Users /\ m.key # None
  <2>1. sig.user # Root /\ m.key = keys[sig.user]
    BY <1>4, GatewayAssumption DEF KeyOf
  <2>2. m.key.secret # None
    <3>1. keys[sig.user] \in [status : {"Active", "Inactive", "Deleted"}, secret : 0..MaxActs]
      BY <1>4 DEF TypeOK
    <3> QED
      BY <2>1, <3>1, GatewayAssumption
  <2>3. secret = IF m.key.status = "Active" THEN m.key.secret ELSE None
    BY <1>4, <2>1 DEF FindSecret
  <2> QED
    BY <1>0, <1>4, <2>1, <2>2, <2>3 DEF Proven, Signed, SignedWith
<1> QED
  BY <1>1, <1>2, <1>3, <1>4, <1>5 DEF IsAsk, IsSig, FromDashboard

\* Of the key, when nothing has failed but its query, or not even that.
LEMMA ProvenAt ==
  ASSUME TypeOK, NEW r \in Requests, IsAsk(ask[r]), NEW fails \in BOOLEAN, NEW failed,
         "key" \in failed <=> fails
  PROVE  Proven(r, IF fails THEN None ELSE KeyOf(r))
           <=> Signed(r, Mix(Moment(r), Moment(r), Moment(r), failed))
<1> DEFINE a == Moment(r)
           m == Mix(a, a, a, failed)
<1>1. a.key = KeyOf(r) /\ a.session = SessionOf(r) /\ a.time = now
  BY MomentIs
<1> HIDE DEF a
<1>2. m.key = (IF fails THEN None ELSE KeyOf(r)) /\ m.session = SessionOf(r) /\ m.time = now
  BY <1>1, MixIs
<1> HIDE DEF m
<1>3. Proven(r, m.key) <=> Signed(r, m)
  BY <1>2, ProvenIs
<1> QED
  BY <1>2, <1>3 DEF m, a

\* How a request's authorization goes on: each step with a query of its own.
Fails(r, query, fails) == Lost(r)' = Lost(r) \cup (IF fails THEN {query} ELSE {})
Identifies(r, fails) ==
  /\ req[r].pc = "auth" /\ Fails(r, "key", fails)
  /\ LET proven == Proven(r, IF fails THEN None ELSE KeyOf(r)) IN
     IF ask[r].op \in ByKeyAlone \/ FromDashboard(r)
     THEN req'[r].pc = IF proven THEN Handler(ask[r].op) ELSE "refused"
     ELSE req'[r].pc = "policy" /\ req'[r].user = IF proven THEN ask[r].sig.user ELSE Anonymous
Reports(r, fails) ==
  /\ req[r].pc = "policy" /\ Fails(r, "policy", fails)
  /\ req'[r].pc = "block"
  /\ req'[r].user = req[r].user /\ req'[r].policy = IF fails THEN None ELSE bucket.policy
Concludes(r, fails) ==
  /\ req[r].pc = "block" /\ Fails(r, "block", fails)
  /\ req'[r].pc = IF Allowed(req[r].policy, ask[r], req[r].user, bucket.block /\ ~fails)
                  THEN Handler(ask[r].op) ELSE "refused"

LEMMA Judges ==
  ASSUME TypeInv, NEW r \in Requests, RequestStep(r), UNCHANGED <<now, ask>>, req[r].pc \in Authorizing
  PROVE  \E fails \in BOOLEAN : Identifies(r, fails) \/ Reports(r, fails) \/ Concludes(r, fails)
<1>0. /\ TypeOK /\ req \in [Requests -> Handling] /\ req[r] \in Handling /\ ask[r] # None /\ IsAsk(ask[r])
  BY EveryTurn, AskIs DEF TypeInv, TypeOK
<1>1. Authorize(r)
  BY DEF RequestStep, Arrive, CheckBucket, Write, CheckCondition, CommitPut, Delete, FindVersion,
     ReadHold, ReadRetention, DropVersion, ReadMode, Mark, CheckDelete, DropAll, Lock, FindTarget,
     SetRetention, SetHold, Administer, FindBucket, CreateBucket, CountObjects, RemoveBucket,
     AdmitPolicy, Apply, ListWindow, At, Authorizing
<1>2. /\ "refused" \in Pcs /\ Handler(ask[r].op) \in Pcs
      /\ {"key", "policy", "block"} \subseteq Queries
  BY <1>0, HandlerIs DEF Pcs, Over, Queries
<1>6. ASSUME NEW query \in {"key", "policy", "block"}, NEW fails \in BOOLEAN, Query(r, query, fails)
      PROVE  Fails(r, query, fails)
  BY <1>0, <1>2, <1>6, QueryIs DEF Fails
<1>3. CASE Authenticate(r)
  <2>1. PICK fails \in BOOLEAN :
          LET proven == Proven(r, IF fails THEN None ELSE KeyOf(r)) IN
          /\ IF ask[r].op \in ByKeyAlone \/ FromDashboard(r)
             THEN IF proven THEN Go(r, Handler(ask[r].op)) ELSE Answer(r, "refused")
             ELSE Become(r, [req[r] EXCEPT !.pc = "policy",
                                           !.user = IF proven THEN ask[r].sig.user ELSE Anonymous])
          /\ Query(r, "key", fails)
    BY <1>3 DEF Authenticate
  <2> DEFINE proven == Proven(r, IF fails THEN None ELSE KeyOf(r))
  <2>2. req[r].pc = "auth" /\ Fails(r, "key", fails)
    BY <1>3, <1>6, <2>1 DEF Authenticate, At
  <2>3. CASE ask[r].op \in ByKeyAlone \/ FromDashboard(r)
    <3>1. IF proven THEN Go(r, Handler(ask[r].op)) ELSE Answer(r, "refused")
      BY <2>1, <2>3
    <3> HIDE DEF proven
    <3>2. req'[r].pc = IF proven THEN Handler(ask[r].op) ELSE "refused"
      BY <1>0, <1>2, <3>1, GoIs, AnswerIs DEF Turn
    <3> QED
      BY <2>2, <2>3, <3>2 DEF Identifies, proven
  <2>4. CASE ~(ask[r].op \in ByKeyAlone \/ FromDashboard(r))
    <3> DEFINE u == IF proven THEN ask[r].sig.user ELSE Anonymous
               x == [req[r] EXCEPT !.pc = "policy", !.user = u]
    <3>1. Become(r, x)
      BY <2>1, <2>4
    <3> HIDE DEF u
    <3>3. x.pc = "policy" /\ x.user = u
      BY <1>0 DEF Handling
    <3> HIDE DEF x
    <3>4. req'[r] = x
      BY <1>0, <3>1 DEF Become
    <3> QED
      BY <2>2, <2>4, <3>3, <3>4 DEF Identifies, u
  <2> QED
    BY <2>3, <2>4
<1>4. CASE LoadPolicy(r)
  <2>1. PICK fails \in BOOLEAN :
          /\ Become(r, [req[r] EXCEPT !.pc = "block", !.policy = IF fails THEN None ELSE bucket.policy])
          /\ Query(r, "policy", fails)
    BY <1>4 DEF LoadPolicy
  <2> DEFINE doc == IF fails THEN None ELSE bucket.policy
             x == [req[r] EXCEPT !.pc = "block", !.policy = doc]
  <2>2. req[r].pc = "policy" /\ Fails(r, "policy", fails) /\ Become(r, x)
    BY <1>4, <1>6, <2>1 DEF LoadPolicy, At
  <2> HIDE DEF doc
  <2>3. x.pc = "block" /\ x.user = req[r].user /\ x.policy = doc
    BY <1>0 DEF Handling
  <2> HIDE DEF x
  <2>4. req'[r] = x
    BY <1>0, <2>2 DEF Become
  <2> QED
    BY <2>2, <2>3, <2>4 DEF Reports, doc
<1>5. CASE LoadBlock(r)
  <2>1. PICK fails \in BOOLEAN :
          /\ IF Allowed(req[r].policy, ask[r], req[r].user, bucket.block /\ ~fails)
             THEN Become(r, [Idle EXCEPT !.pc = Handler(ask[r].op)]) ELSE Answer(r, "refused")
          /\ Query(r, "block", fails)
    BY <1>5 DEF LoadBlock
  <2> DEFINE allowed == Allowed(req[r].policy, ask[r], req[r].user, bucket.block /\ ~fails)
  <2>2. req[r].pc = "block" /\ Fails(r, "block", fails)
    BY <1>5, <1>6, <2>1 DEF LoadBlock, At
  <2>3. IF allowed THEN Become(r, [Idle EXCEPT !.pc = Handler(ask[r].op)]) ELSE Answer(r, "refused")
    BY <2>1
  <2> HIDE DEF allowed
  <2>4. req'[r].pc = IF allowed THEN Handler(ask[r].op) ELSE "refused"
    BY <1>0, <1>2, <2>3, StartIs, AnswerIs DEF Turn
  <2> QED
    BY <2>2, <2>4 DEF Concludes, allowed
<1> QED
  BY <1>1, <1>3, <1>4, <1>5 DEF Authorize

LEMMA JudgedIs ==
  ASSUME SeenInv, NEW r \in Requests
  PROVE  \E failed \in SUBSET Queries : failed = Lost(r) /\ Judged(r, failed)
  BY DEF SeenInv, Lost

LEMMA SeenNext ==
  ASSUME TypeInv, TypeInv', SeenInv, Next
  PROVE  SeenInv'
<1>0. /\ TypeOK /\ UNCHANGED ask
      /\ seen' = [r \in Requests |-> IF req'[r].pc \in Authorizing THEN seen[r] \cup {Moment(r)'} ELSE {}]
  BY Otherwise DEF TypeInv, Next, Elsewhere, Observe
<1> SUFFICES ASSUME NEW r \in Requests, NEW failed \in SUBSET Queries, failed = Lost(r)',
                    req'[r].pc \in Authorizing
             PROVE  Judged(r, failed)'
  BY DEF SeenInv, Judged, Authorizing
<1>1. Moment(r)' \in seen'[r] /\ seen[r] \subseteq seen'[r]
  BY <1>0
<1>2. \A m, f : UserAt(r, m, f)' = UserAt(r, m, f)
  BY <1>0 DEF UserAt, Signed, FromDashboard
<1>3. PICK before \in SUBSET Queries : before = Lost(r) /\ Judged(r, before)
  BY JudgedIs
<1>4. CASE ~(UNCHANGED <<now, ask>> /\ RequestStep(r))
  <2>1. req'[r] = req[r] /\ Lost(r)' = Lost(r)
    <3>1. CASE Elsewhere
      BY <3>1 DEF Elsewhere, Lost
    <3>2. ASSUME NEW q \in Requests, RequestStep(q), UNCHANGED <<now, ask>>
          PROVE  req'[r] = req[r] /\ Lost(r)' = Lost(r)
      <4>1. q # r
        BY <1>4, <3>2
      <4>2. req'[r] = req[r]
        BY <3>2, <4>1, EveryTurn DEF Turns, Turn
      <4>3. Lost(r)' = Lost(r)
        BY <1>0, <3>2, <4>1, EveryLoss DEF Loses
      <4> QED
        BY <4>2, <4>3
    <3> QED
      BY <1>0, <3>1, <3>2, Otherwise DEF Next
  <2> QED
    BY <1>1, <1>2, <1>3, <2>1 DEF Judged
<1>5. CASE UNCHANGED <<now, ask>> /\ RequestStep(r) /\ req[r].pc \notin Authorizing
  <2>1. req'[r].pc \notin {"policy", "block"} /\ (req'[r].pc = "auth" => req[r].pc = "new")
    BY <1>5, EveryTurn DEF Turns, Enters, Authorizing
  <2>2. req'[r].pc = "auth" => failed = {}
    BY <1>0, <1>5, <2>1, EveryLoss DEF Loses
  <2> QED
    BY <1>1, <2>1, <2>2 DEF Judged
<1>6. CASE UNCHANGED <<now, ask>> /\ RequestStep(r) /\ req[r].pc \in Authorizing
  <2>1. IsAsk(ask[r]) /\ Handler(ask[r].op) \notin Authorizing /\ "refused" \notin Authorizing
    BY <1>6, EveryTurn, AskIs, HandlerIs DEF TypeInv, Authorizing
  <2>2. Moment(r) \in seen[r]
    BY <1>3, <1>6 DEF Judged
  <2>3. PICK fails \in BOOLEAN : Identifies(r, fails) \/ Reports(r, fails) \/ Concludes(r, fails)
    BY <1>6, Judges
  <2>4. CASE Identifies(r, fails)
    <3> DEFINE proven == Proven(r, IF fails THEN None ELSE KeyOf(r))
    <3>1. failed = (IF fails THEN {"key"} ELSE {})
      BY <1>3, <2>4 DEF Judged, Identifies, Fails
    <3>2. req'[r].pc = "policy" /\ req'[r].user = IF proven THEN ask[r].sig.user ELSE Anonymous
      BY <2>1, <2>4 DEF Identifies
    <3>3. proven <=> Signed(r, Mix(Moment(r), Moment(r), Moment(r), failed))
      BY <1>0, <2>1, <3>1, ProvenAt
    <3> HIDE DEF proven
    <3>4. req'[r].user = UserAt(r, Moment(r), failed)
      BY <3>2, <3>3 DEF UserAt
    <3>5. failed \subseteq {"key"}
      BY <3>1
    <3> QED
      BY <1>1, <1>2, <2>2, <3>2, <3>4, <3>5 DEF Judged
  <2>5. CASE Reports(r, fails)
    <3>1. before \subseteq {"key"} /\ failed = before \cup (IF fails THEN {"policy"} ELSE {})
      BY <1>3, <2>5 DEF Judged, Reports, Fails
    <3>2. PICK m \in seen[r] : req[r].user = UserAt(r, m, before)
      BY <1>3, <2>5 DEF Judged, Reports
    <3>3. "key" \in failed <=> "key" \in before
      BY <3>1
    <3>4. req'[r].pc = "block" /\ req'[r].user = UserAt(r, m, failed)
      BY <2>5, <3>2, <3>3, UserIs DEF Reports
    <3>5. failed \subseteq {"key", "policy"} /\ ("policy" \in failed <=> fails)
      BY <3>1
    <3>6. req'[r].policy = DocAt(Moment(r), failed)
      BY <2>5, <3>5, MomentIs DEF Reports, DocAt
    <3> QED
      BY <1>1, <1>2, <2>2, <3>4, <3>5, <3>6 DEF Judged, DocAt
  <2>6. CASE Concludes(r, fails)
    BY <2>1, <2>6 DEF Concludes
  <2> QED
    BY <2>3, <2>4, <2>5, <2>6
<1> QED
  BY <1>4, <1>5, <1>6

LEMMA SeenInit ==
  ASSUME Init
  PROVE  SeenInv
<1>1. TypeInv
  BY TypesInit
<1>2. ASSUME NEW r \in Requests
      PROVE  req[r].pc \notin Authorizing
  <2>1. ask[r] # None => Handler(ask[r].op) \notin Authorizing
    BY <1>1, AskIs, HandlerIs DEF TypeInv
  <2> QED
    BY <2>1, StartsAt DEF Authorizing
<1> QED
  BY <1>2 DEF SeenInv, Judged, Authorizing

LEMMA SeenStutter ==
  ASSUME SeenInv, UNCHANGED vars
  PROVE  SeenInv'
<1>1. UNCHANGED <<now, keys, sessions, bucket, ask, req, lost, seen>>
  BY DEF vars, tables, history
<1> SUFFICES ASSUME NEW r \in Requests, NEW failed \in SUBSET Queries, failed = Lost(r)'
             PROVE  Judged(r, failed)'
  BY DEF SeenInv
<1>2. Judged(r, failed)
  BY <1>1 DEF SeenInv, Lost
<1>3. Moment(r)' = Moment(r)
  BY <1>1 DEF Moment, KeyOf, SessionOf, FromDashboard
<1>4. \A m : UserAt(r, m, failed)' = UserAt(r, m, failed)
  BY <1>1 DEF UserAt, Signed, FromDashboard
<1> QED
  BY <1>1, <1>2, <1>3, <1>4 DEF Judged

\* What a request is judged by is what it could have read at moments since it
\* arrived: who it is from, the policy and, next, the block setting; or, of what
\* a query that failed was to read, nothing: no key, or no policy.
THEOREM SeenInvariant == Spec => []SeenInv
<1>1. SeenInv /\ UNCHANGED vars => SeenInv'
  BY SeenStutter
<1>2. TypeInv /\ TypeInv' /\ SeenInv /\ [Next]_vars => SeenInv'
  BY <1>1, SeenNext
<1> QED
  BY <1>2, SeenInit, TypeInvariant, PTL DEF Spec

\* A decision is what some mix of the moments seen means.
LEMMA Decides ==
  ASSUME PoliciesMean, TypeInv, SeenInv, Next, NEW r \in Requests, req[r].pc \in Authorizing,
         req'[r].pc \notin Authorizing, NEW failed, failed = Lost(r)'
  PROVE  \E m \in Mixes(r, failed) : Grants(r, m) <=> req'[r].pc # "refused"
<1>0. TypeOK /\ req[r] \in Handling /\ bucket \in Bucket /\ Placed(r)
  BY DEF TypeInv, TypeOK, HandlerInv
<1>1. UNCHANGED <<now, ask>> /\ RequestStep(r)
  <2>1. ASSUME NEW q \in Requests, RequestStep(q), UNCHANGED <<now, ask>>
        PROVE  q = r
    BY <2>1, EveryTurn DEF Turns, Turn
  <2> QED
    BY <1>0, <2>1, Otherwise DEF Next, Elsewhere
<1>2. /\ ask[r] # None /\ IsAsk(ask[r]) /\ Handler(ask[r].op) # "refused"
  BY <1>1, EveryTurn, AskIs, HandlerIs DEF TypeInv, Places
<1>3. PICK before \in SUBSET Queries : before = Lost(r) /\ Judged(r, before)
  BY JudgedIs
<1>4. {"policy", "block"} \subseteq Authorizing /\ Moment(r) \in seen[r]
  BY <1>3 DEF Authorizing, Judged
<1>7. PICK fails \in BOOLEAN : Identifies(r, fails) \/ Reports(r, fails) \/ Concludes(r, fails)
  BY <1>1, Judges
<1>5. CASE Identifies(r, fails)
  <2> DEFINE a == Moment(r)
             m == Mix(a, a, a, failed)
             proven == Proven(r, IF fails THEN None ELSE KeyOf(r))
  <2>1. failed = (IF fails THEN {"key"} ELSE {})
    BY <1>3, <1>5 DEF Judged, Identifies, Fails
  <2>2. proven <=> Signed(r, m)
    BY <1>0, <1>2, <2>1, ProvenAt
  <2>3. m \in Mixes(r, failed)
    BY <1>4, MixedOf
  <2> HIDE DEF a, m, proven
  <2>4. /\ ask[r].op \in ByKeyAlone \/ FromDashboard(r)
        /\ req'[r].pc = IF proven THEN Handler(ask[r].op) ELSE "refused"
    BY <1>4, <1>5 DEF Identifies, proven
  <2>5. Grants(r, m) <=> Signed(r, m)
    BY <2>4 DEF Grants
  <2> QED
    BY <1>2, <2>2, <2>3, <2>4, <2>5
<1>6. CASE Concludes(r, fails)
  <2>1. PICK a \in seen[r] : req[r].user = UserAt(r, a, before)
    BY <1>3, <1>6 DEF Judged, Concludes
  <2>2. PICK b \in seen[r] : req[r].policy = DocAt(b, before)
    BY <1>3, <1>6 DEF Judged, Concludes
  <2>13. before \subseteq {"key", "policy"} /\ failed = before \cup (IF fails THEN {"block"} ELSE {})
    BY <1>3, <1>6 DEF Judged, Concludes, Fails
  <2>14. /\ "key" \in failed <=> "key" \in before
         /\ "policy" \in failed <=> "policy" \in before
         /\ "block" \in failed <=> fails
    BY <2>13
  <2> DEFINE c == Moment(r)
             m == Mix(a, b, c, failed)
  <2>3. c.block = bucket.block /\ c \in seen[r]
    BY <1>4, MomentIs
  <2> HIDE DEF c
  <2>4. m \in Mixes(r, failed)
    BY <2>3, MixedOf
  <2>5. m.doc = DocAt(b, failed) /\ m.block = (c.block /\ "block" \notin failed)
    BY MixIs
  <2>6. Signed(r, m) = Signed(r, Mix(a, a, a, before))
    BY <2>14, UserIs
  <2> HIDE DEF m
  <2> DEFINE user == IF Signed(r, m) THEN ask[r].sig.user ELSE Anonymous
             doc == req[r].policy
             block == bucket.block /\ ~fails
  <2>7. req[r].user = user /\ user \in Users \cup {Root, Anonymous} /\ doc \in Docs \cup {None}
    BY <1>0, <2>1, <2>6 DEF UserAt, Handling
  <2>15. block \in BOOLEAN /\ m.doc = doc /\ m.block = block
    BY <1>0, <2>2, <2>3, <2>5, <2>14 DEF DocAt, Bucket
  <2>8. doc # None => EvalPolicy(doc, ask[r], user, block) = Meant(doc, ask[r], user, block)
    <3>1. PICK s \in Scenes : ask = s.ask
      BY DEF TypeInv, AskInv
    <3> QED
      BY <1>2, <2>7, <2>15, <3>1 DEF PoliciesMean
  <2>9. ~(ask[r].op \in ByKeyAlone \/ FromDashboard(r))
    BY <1>0, <1>6 DEF Placed, Concludes
  <2>10. Grants(r, m) = LET verdict == IF doc = None THEN "NoMatch" ELSE Meant(doc, ask[r], user, block)
                        IN verdict = "Allow" \/ (verdict = "NoMatch" /\ user # Anonymous)
    BY <2>9, <2>15 DEF Grants
  <2>12. req'[r].pc # "refused" <=> Allowed(doc, ask[r], user, block)
    BY <1>2, <1>6, <2>7 DEF Concludes
  <2> HIDE DEF user, doc, block
  <2>11. Allowed(doc, ask[r], user, block) <=> Grants(r, m)
    BY <2>8, <2>10 DEF Allowed
  <2> QED
    BY <2>4, <2>11, <2>12
<1>8. CASE Reports(r, fails)
  BY <1>4, <1>8 DEF Reports
<1> QED
  BY <1>5, <1>6, <1>7, <1>8

\* check_auth_with_policy, where policies evaluate to what they mean: a request
\* goes through only on grounds that were there since it arrived, but for the key,
\* the policy and the block setting whose query failed.
THEOREM GrantsHadGrounds ==
  ASSUME PoliciesMean
  PROVE  Spec => GrantHadGrounds
<1>1. TypeInv /\ SeenInv /\ [Next]_vars =>
        [\A r \in Requests : Decided(r, "granted") => \E m \in Mixes(r, Lost(r)') : Grants(r, m)]_vars
  BY Decides DEF Decided
<1> QED
  BY <1>1, SeenInvariant, TypeInvariant, PTL DEF Spec, GrantHadGrounds

\* And, where they do, it is refused only on such grounds.
THEOREM RefusalsHadGrounds ==
  ASSUME PoliciesMean
  PROVE  Spec => RefusalHadGrounds
<1>1. TypeInv /\ SeenInv /\ [Next]_vars =>
        [\A r \in Requests : Decided(r, "refused") => \E m \in Mixes(r, Lost(r)') : ~Grants(r, m)]_vars
  BY Decides DEF Decided
<1> QED
  BY <1>1, SeenInvariant, TypeInvariant, PTL DEF Spec, RefusalHadGrounds

-----------------------------------------------------------------------------
(* Listings *)

\* A window finds what is visible: all of it up to its last key.
LEMMA WindowFinds ==
  ASSUME TypeOK
  PROVE  LET window == Window(Fetch) IN
         /\ KeysIn(window) \subseteq Visible
         /\ \A k \in KeysIn(window) : k > page.cursor
         /\ \A k \in Visible, y \in window : k > page.cursor /\ k <= y.key => k \in KeysIn(window)
         /\ Cardinality(Beyond) < Fetch => \A k \in Visible : k > page.cursor => k \in KeysIn(window)
<1> DEFINE window == Window(Fetch)
<1>0. Fetch \in Nat \ {0}
  BY FetchIs
<1>1. /\ window \subseteq Beyond
      /\ \A y \in window, x \in Beyond :
           x.key < y.key \/ (x.key = y.key /\ x.num >= y.num) => x \in window
      /\ Cardinality(Beyond) < Fetch => window = Beyond
  BY <1>0, WindowIs
<1>2. \A x \in Beyond : /\ x \in rows /\ x.key \in Nat /\ x.num \in Nat /\ x.key > page.cursor
  BY BeyondIs
<1>3. \A x \in rows : x.key \in Nat /\ x.num \in Nat /\ (x.key > page.cursor => x \in Beyond)
  BY DirIs DEF TypeOK, Row, Beyond
<1> HIDE DEF window
<1>4. ASSUME NEW y \in window, IsLatest(y, window)
      PROVE  IsLatest(y, rows)
  <2>1. SUFFICES ASSUME NEW z \in rows, z.key = y.key, ~(z.num <= y.num)
                 PROVE  FALSE
    BY DEF IsLatest
  <2>2. y \in Beyond /\ y.num \in Nat /\ z.num \in Nat /\ y.key > page.cursor
    BY <1>1, <1>2, <1>3
  <2>3. z \in Beyond /\ z.num >= y.num
    BY <1>3, <2>1, <2>2
  <2>4. z \in window
    BY <1>1, <2>1, <2>3
  <2> QED
    BY <1>4, <2>1, <2>4 DEF IsLatest
<1>5. ASSUME NEW x \in window, x \in rows, IsLatest(x, rows), ~x.marker
      PROVE  x.key \in KeysIn(window)
  <2>1. IsLatest(x, window)
    BY <1>1, <1>2, <1>5 DEF IsLatest
  <2> QED
    BY <1>5, <2>1 DEF KeysIn
<1>6. KeysIn(window) \subseteq Visible
  BY <1>1, <1>2, <1>4 DEF KeysIn, Visible
<1>7. \A k \in KeysIn(window) : k > page.cursor
  BY <1>1, <1>2 DEF KeysIn
<1>8. ASSUME NEW k \in Visible, NEW y \in window, k > page.cursor, k <= y.key
      PROVE  k \in KeysIn(window)
  <2>1. PICK x \in rows : x.key = k /\ IsLatest(x, rows) /\ ~x.marker
    BY DEF Visible
  <2>2. x \in Beyond /\ y \in rows /\ y.key \in Nat /\ x.key \in Nat /\ x.num \in Nat /\ y.num \in Nat
    BY <1>1, <1>2, <1>3, <1>8, <2>1
  <2>3. x.key = y.key => x.num >= y.num
    BY <2>1, <2>2 DEF IsLatest
  <2>4. x.key < y.key \/ x.key = y.key
    BY <1>8, <2>1, <2>2
  <2>5. x \in window
    BY <1>1, <2>2, <2>3, <2>4
  <2> QED
    BY <1>5, <2>1, <2>5
<1>9. ASSUME Cardinality(Beyond) < Fetch, NEW k \in Visible, k > page.cursor
      PROVE  k \in KeysIn(window)
  <2>1. PICK x \in rows : x.key = k /\ IsLatest(x, rows) /\ ~x.marker
    BY DEF Visible
  <2>2. x \in window
    BY <1>1, <1>3, <1>9, <2>1
  <2> QED
    BY <1>5, <2>1, <2>2
<1> QED
  BY <1>6, <1>7, <1>8, <1>9 DEF window

\* How the handler of a listing goes on until it reads rows.
Before == {"auth", "policy", "block", "head", "list", "refused", "failed"}

LEMMA ListerTurns ==
  ASSUME TypeInv, NEW r \in Listing, RequestStep(r), UNCHANGED <<now, ask>>
  PROVE  req[r].pc \notin Over /\ (ListWindow(r) \/ (req[r].pc # "list" /\ req'[r].pc \in Before))
<1>0. /\ TypeOK /\ r \in Requests /\ ask[r] # None /\ IsAsk(ask[r]) /\ ask[r].op \in Lists
      /\ Fits(req[r].pc, ask[r].op)
  BY AskIs DEF TypeInv, Listing, Doing, HandlerInv, Placed
<1>1. Handler(ask[r].op) = "head"
  BY <1>0 DEF Handler, Lists
<1>2. {"auth", "list", "failed"} \subseteq Pcs
  BY DEF Pcs, Authorizing, Over
<1>3. Arrive(r) \/ Authorize(r) \/ CheckBucket(r) \/ ListWindow(r)
  BY <1>0 DEF RequestStep, Write, CheckCondition, CommitPut, Delete, FindVersion, ReadHold,
     ReadRetention, DropVersion, ReadMode, Mark, CheckDelete, DropAll, Lock, FindTarget, SetRetention,
     SetHold, Administer, FindBucket, CreateBucket, CountObjects, RemoveBucket, AdmitPolicy, Apply, At,
     Fits, Lists
<1>4. CASE Arrive(r)
  <2>1. req[r].pc = "new" /\ Go(r, "auth")
    BY <1>4 DEF Arrive, At
  <2>2. req'[r].pc = "auth"
    BY <1>0, <1>2, <2>1, GoIs DEF Turn
  <2> QED
    BY <2>1, <2>2 DEF Over, Before
<1>5. CASE Authorize(r)
  <2>1. req[r].pc \in Authorizing
    BY <1>5 DEF Authorize, Authenticate, LoadPolicy, LoadBlock, At, Authorizing
  <2>3. \E fails \in BOOLEAN : Identifies(r, fails) \/ Reports(r, fails) \/ Concludes(r, fails)
    BY <1>0, <2>1, Judges
  <2>2. req'[r].pc \in {"head", "refused", "policy", "block"}
    BY <1>0, <1>1, <2>3 DEF Identifies, Reports, Concludes
  <2> QED
    BY <2>1, <2>2 DEF Over, Before, Authorizing
<1>6. CASE CheckBucket(r)
  <2>1. req[r].pc = "head" /\ (Go(r, "list") \/ Answer(r, "failed"))
    BY <1>0, <1>6 DEF CheckBucket, At, Lists
  <2>2. req'[r].pc \in {"list", "failed"}
    BY <1>0, <1>2, <2>1, GoIs, AnswerIs DEF Turn
  <2> QED
    BY <2>1, <2>2 DEF Over, Before
<1>7. CASE ListWindow(r)
  BY <1>7 DEF ListWindow, At, Over
<1> QED
  BY <1>3, <1>4, <1>5, <1>6, <1>7

\* The steps of all others.
Aside == /\ UNCHANGED <<page, ask>>
         /\ \A r \in Listing :
              \/ req'[r] = req[r]
              \/ /\ req[r].pc \notin Over \cup {"list"}
                 /\ req'[r].pc \in Before

LEMMA AsideOrNot ==
  ASSUME TypeInv, Next
  PROVE  Aside \/ \E r \in Listing : ListWindow(r) /\ UNCHANGED <<now, ask>>
<1>0. TypeOK
  BY DEF TypeInv
<1>1. CASE Elsewhere
  BY <1>1 DEF Elsewhere, Aside
<1>2. ASSUME NEW q \in Requests, RequestStep(q), UNCHANGED <<now, ask>>
      PROVE  Aside \/ \E r \in Listing : ListWindow(r)
  <2>1. /\ ask[q] # None /\ Fits(req[q].pc, ask[q].op) /\ TablesMove(q)
        /\ \A r \in Requests \ {q} : req'[r] = req[r]
    BY <1>2, EveryTurn, EveryTableMove DEF Turns, Turn, TypeInv, HandlerInv, Placed
  <2>2. CASE q \in Listing
    <3>1. CASE ListWindow(q)
      BY <2>2, <3>1
    <3>2. CASE ~ListWindow(q)
      <4>1. req[q].pc \notin Over /\ req[q].pc # "list" /\ req'[q].pc \in Before
        BY <1>2, <2>2, <3>2, ListerTurns
      <4>2. UNCHANGED page
        BY <2>1, <4>1 DEF TablesMove
      <4> QED
        BY <1>2, <2>1, <4>1, <4>2 DEF Aside, Listing
    <3> QED
      BY <3>1, <3>2
  <2>3. CASE q \notin Listing
    <3>1. req[q].pc # "list"
      BY <2>1, <2>3 DEF Fits, Listing, Doing
    <3>2. UNCHANGED page
      BY <2>1, <3>1 DEF TablesMove
    <3> QED
      BY <1>2, <2>1, <2>3, <3>2 DEF Aside, Listing
  <2> QED
    BY <2>2, <2>3
<1> QED
  BY <1>0, <1>1, <1>2, Otherwise DEF Next

\* Once the client has begun to ask, it has begun.
LEMMA PageAside ==
  ASSUME TypeInv, TypeInv', PageInv, Observe, Aside
  PROVE  PageInv'
<1>0. /\ page \in Page /\ page.token \in Nat /\ page.cursor \in Nat /\ page' = page /\ ask' = ask
      /\ Listing' = Listing /\ TypeOK'
  BY DEF TypeInv, TypeOK, Page, Aside, Listing, Doing
<1>1. \A r \in Listing : \/ req'[r] = req[r]
                         \/ req[r].pc \notin Over \cup {"list"} /\ req'[r].pc \in Before
  BY DEF Aside
<1>2. Visible' \subseteq ObjectKeys
  BY <1>0 DEF TypeOK, Visible, Row
<1>3. Asking => Asking'
  BY <1>0, <1>1 DEF Asking, Before
<1>4. shown' = IF ~Asking' THEN [always |-> {}, ever |-> {}]
               ELSE IF ~Asking THEN [always |-> Visible', ever |-> Visible']
               ELSE [always |-> shown.always \cap Visible', ever |-> shown.ever \cup Visible']
  BY DEF Observe
<1>5. /\ Asking' => shown'.always \subseteq Visible' /\ Visible' \subseteq shown'.ever
      /\ Asking /\ Asking' => shown'.always \subseteq shown.always /\ shown.ever \subseteq shown'.ever
      /\ shown'.always \subseteq ObjectKeys
      /\ ~Asking' => shown'.always = {}
  BY <1>2, <1>4
<1>6. page.listed \cup page.found \subseteq shown'.ever
  <2>1. CASE Asking
    BY <1>3, <1>5, <2>1 DEF PageInv
  <2>2. CASE ~Asking
    BY <2>2 DEF PageInv
  <2> QED
    BY <2>1, <2>2
<1>7. ~Asking => page.cursor = 0 /\ page.token = 0 /\ page.listed = {} /\ page.found = {}
  BY <1>0 DEF PageInv
<1>8. ASSUME NEW r \in Listing
      PROVE  /\ req'[r].pc # "list" => page.found = {} /\ page.cursor = page.token
             /\ \A k \in shown'.always : k <= page.cursor => k \in page.found \/ Told(r, k)
             /\ req'[r].pc = "done" /\ ~page.cut => \A k \in shown'.always : Told(r, k)
             /\ req'[r].pc \notin Over => \A k \in page.listed : k <= page.token
             /\ ask[r].op = "ListDirs" => \A k \in page.listed : DirOf[k] = 0
  <2>1. CASE Asking
    <3>1. shown'.always \subseteq shown.always
      BY <1>3, <1>5, <2>1
    <3>2. \/ req'[r] = req[r]
          \/ req[r].pc \notin Over \cup {"list"} /\ req'[r].pc \in Before
      BY <1>1
    <3>3. "done" \notin Before
      BY DEF Before
    <3> QED
      BY <3>1, <3>2, <3>3 DEF PageInv, At
  <2>2. CASE ~Asking
    <3>1. page.cursor = 0 /\ page.token = 0 /\ page.listed = {} /\ page.found = {}
      BY <1>7, <2>2
    <3>2. req[r].pc = "new" /\ "done" \notin Before
      BY <2>2 DEF Asking, Before
    <3>3. req'[r].pc # "done"
      BY <1>1, <3>2
    <3>4. \A k \in shown'.always : ~(k <= page.cursor)
      BY <1>5, <3>1, DirIs
    <3> QED
      BY <3>1, <3>3, <3>4
  <2> QED
    BY <2>1, <2>2
<1>9. ~Asking' => page.cursor = 0 /\ page.listed = {} /\ page.found = {}
  BY <1>3, <1>7
<1>10. /\ page.token <= page.cursor
       /\ \A k \in page.found : page.token < k /\ k <= page.cursor
  BY DEF PageInv
<1>11. \A r, k : Told(r, k)' = Told(r, k)
  BY <1>0 DEF Told
<1> QED
  BY <1>0, <1>5, <1>6, <1>8, <1>9, <1>10, <1>11 DEF PageInv, At

\* What the client has been told by the time its handler has read a window.
LEMMA WindowTells ==
  ASSUME TypeInv, PageInv, NEW r \in Listing, req[r].pc = "list"
  PROVE  /\ Collected \subseteq shown.ever /\ Collected \subseteq ObjectKeys
         /\ shown.always \subseteq Visible /\ Visible \subseteq shown.ever /\ shown.always \subseteq ObjectKeys
         /\ \A k \in Collected : page.token < k
         /\ \A k \in shown.always, j \in Collected : k <= j => k \in Collected \/ Told(r, k)
         /\ \A k \in shown.always, y \in Window(Fetch) : k <= y.key => k \in Collected \/ Told(r, k)
         /\ Cardinality(Beyond) < Fetch => \A k \in shown.always : k \in Collected \/ Told(r, k)
<1>0. TypeOK /\ page.token \in Nat /\ page.cursor \in Nat /\ rows \subseteq Row /\ page.found \subseteq ObjectKeys
  BY DEF TypeInv, TypeOK, Page
<1>1. Asking
  BY DEF Asking
<1>2. /\ shown.always \subseteq Visible /\ Visible \subseteq shown.ever /\ page.found \subseteq shown.ever
      /\ page.token <= page.cursor
      /\ \A k \in page.found : page.token < k /\ k <= page.cursor
      /\ \A k \in shown.always : k <= page.cursor => k \in page.found \/ Told(r, k)
  BY <1>1 DEF PageInv
<1>3. Visible \subseteq ObjectKeys
  BY <1>0, VisibleIs
<1>4. Collected = page.found \cup KeysIn(Window(Fetch)) /\ Collected \subseteq ObjectKeys
  BY <1>0, CollectedIs DEF Collected
<1>5. /\ KeysIn(Window(Fetch)) \subseteq Visible
      /\ \A k \in KeysIn(Window(Fetch)) : k > page.cursor
      /\ \A k \in Visible, y \in Window(Fetch) : k > page.cursor /\ k <= y.key => k \in KeysIn(Window(Fetch))
      /\ Cardinality(Beyond) < Fetch => \A k \in Visible : k > page.cursor => k \in KeysIn(Window(Fetch))
  BY <1>0, WindowFinds
<1>6. \A k \in ObjectKeys : k \in Nat /\ (k <= page.cursor \/ k > page.cursor)
  BY <1>0, DirIs
<1>7. Collected \subseteq shown.ever
  BY <1>2, <1>4, <1>5
<1>8. ASSUME NEW k \in Collected
      PROVE  page.token < k
  <2>1. k \in Nat
    BY <1>4, DirIs
  <2> QED
    BY <1>0, <1>2, <1>4, <1>5, <1>8, <2>1
<1>9. ASSUME NEW k \in shown.always, NEW y \in Window(Fetch), k <= y.key
      PROVE  k \in Collected \/ Told(r, k)
  BY <1>2, <1>3, <1>4, <1>5, <1>6, <1>9
<1>10. ASSUME NEW k \in shown.always, NEW j \in Collected, k <= j
       PROVE  k \in Collected \/ Told(r, k)
  <2>1. CASE j \in KeysIn(Window(Fetch))
    <3>1. PICK y \in Window(Fetch) : y.key = j
      BY <2>1 DEF KeysIn
    <3> QED
      BY <1>9, <1>10, <3>1
  <2>2. CASE j \in page.found
    <3>1. k \in Nat /\ j \in Nat /\ j <= page.cursor
      BY <1>0, <1>2, <1>3, <2>2, DirIs
    <3>2. k <= page.cursor
      BY <1>0, <1>10, <3>1
    <3> QED
      BY <1>2, <1>4, <3>2
  <2> QED
    BY <1>4, <2>1, <2>2
<1>11. ASSUME Cardinality(Beyond) < Fetch, NEW k \in shown.always
       PROVE  k \in Collected \/ Told(r, k)
  BY <1>2, <1>3, <1>4, <1>5, <1>6, <1>11
<1> QED
  BY <1>2, <1>3, <1>4, <1>7, <1>8, <1>9, <1>10, <1>11

\* A token is beyond all that was listed: a directory token, too, for none of
\* its keys was.
LEMMA TokenBeyond ==
  ASSUME TypeInv, PageInv, NEW r \in Listing, req[r].pc = "list", More(Collected)
  PROVE  LET token == NextToken(r, Collected)
             items == Items(Collected)
             contents == Contents(r, Collected) IN
         /\ token # 0
         /\ contents # {} => token > page.token
         /\ \A k \in page.listed \cup contents : k <= token
         /\ \E j \in items : token <= j
<1> DEFINE token == NextToken(r, Collected)
           items == Items(Collected)
           contents == Contents(r, Collected)
<1>0. /\ TypeOK /\ page.token \in Nat /\ page.listed \subseteq ObjectKeys /\ r \in Requests
      /\ ask[r].op \in Lists
  BY DEF TypeInv, TypeOK, Page, Listing, Doing
<1>1. contents \subseteq items /\ items \subseteq Collected /\ items \subseteq ObjectKeys /\ items # {}
  BY <1>0, ItemsIs
<1>2. /\ contents # {} => token \in contents /\ \A k \in contents : k <= token
      /\ contents = {} => \E k \in items : token = DirOf[k] /\ \A j \in items : j <= k
  BY <1>0, TokenIs
<1>3. \A k \in Collected : page.token < k
  BY WindowTells
<1>4. /\ \A k \in page.listed : k <= page.token
      /\ ask[r].op = "ListDirs" => \A k \in page.listed : DirOf[k] = 0
  BY DEF PageInv, Over
<1>5. \A k \in items : k \in contents \/ (ask[r].op = "ListDirs" /\ DirOf[k] # 0)
  BY <1>0 DEF Contents, Lists
<1> HIDE DEF token, items, contents
<1>6. CASE contents # {}
  <2>1. token \in ObjectKeys /\ token \in Nat \ {0} /\ page.token < token /\ token \in items
    BY <1>1, <1>2, <1>3, <1>6, DirIs
  <2>2. \A k \in page.listed : k <= token
    <3>1. \A k \in page.listed : k \in Nat /\ k <= page.token
      BY <1>0, <1>4, DirIs
    <3> QED
      BY <1>0, <2>1, <3>1
  <2> QED
    BY <1>2, <1>6, <2>1, <2>2 DEF token, items, contents
<1>7. CASE contents = {}
  <2>1. PICK j \in items : token = DirOf[j]
    BY <1>2, <1>7
  <2>2. j \in ObjectKeys /\ j \in Nat /\ token \in Nat /\ token <= j /\ page.token < j
    BY <1>1, <1>3, <2>1, DirIs
  <2>3. ask[r].op = "ListDirs" /\ token # 0
    BY <1>5, <1>7, <2>1
  <2>4. ASSUME NEW k \in page.listed, ~(k <= token)
        PROVE  FALSE
    <3>1. k \in ObjectKeys /\ k \in Nat /\ k <= page.token /\ DirOf[k] = 0
      BY <1>0, <1>4, <2>3, DirIs
    <3>2. token <= k /\ k <= j
      BY <1>0, <2>2, <2>4, <3>1
    <3>3. DirOf[k] = DirOf[j]
      BY <2>1, <2>2, <2>3, <3>1, <3>2, DirAssumption
    <3> QED
      BY <2>1, <2>3, <3>1, <3>3
  <2> QED
    BY <1>7, <2>2, <2>3, <2>4 DEF token, items, contents
<1> QED
  BY <1>6, <1>7

\* What r is told of by a response.
LEMMA ResponseTells ==
  ASSUME TypeInv, NEW r \in Listing, Responds(r), UNCHANGED ask
  PROVE  /\ \A k \in Items(Collected) : Told(r, k)'
         /\ \A k : Told(r, k) => Told(r, k)'
<1>0. ask[r].op \in Lists
  BY DEF Listing, Doing
<1>1. /\ page'.listed = page.listed \cup Contents(r, Collected)
      /\ page'.dirs = page.dirs \cup {DirOf[k] : k \in Items(Collected) \ Contents(r, Collected)}
  BY DEF Responds
<1>2. \A k \in Items(Collected) : k \in Contents(r, Collected) \/ ask[r].op = "ListDirs"
  BY <1>0 DEF Contents, Lists
<1> QED
  BY <1>1, <1>2 DEF Told

LEMMA PageResponds ==
  ASSUME TypeInv, PageInv, NEW r \in Listing, req[r].pc = "list", Responds(r), UNCHANGED <<tables, ask>>,
         Observe, page' \in Page
  PROVE  PageInv'
<1> DEFINE found == Collected
           items == Items(Collected)
           contents == Contents(r, Collected)
           token == NextToken(r, Collected)
<1>0. /\ TypeOK /\ r \in Requests /\ page.token \in Nat /\ page.cursor \in Nat /\ Listing' = Listing
      /\ \A q \in Listing : q = r
      /\ ask[r].op \in Lists /\ req'[r].pc = (IF More(found) THEN "new" ELSE "done") /\ token \in Nat
      /\ page.token <= page.cursor
  BY AskIs, NextTokenIs DEF TypeInv, TypeOK, Page, Listing, Doing, Responds, Turn, PageInv
<1>1. /\ page'.token = token /\ page'.cursor = token /\ page'.found = {}
      /\ page'.listed = page.listed \cup contents
      /\ page.cut => page'.cut
      /\ More(found) \/ Cardinality(Beyond) < Fetch \/ page'.cut
      /\ ~More(found) => token = page.token
  BY DEF Responds, NextToken
<1>2. /\ found \subseteq shown.ever /\ found \subseteq ObjectKeys
      /\ shown.always \subseteq Visible /\ Visible \subseteq shown.ever /\ shown.always \subseteq ObjectKeys
      /\ \A k \in found : page.token < k
      /\ \A k \in shown.always, j \in found : k <= j => k \in found \/ Told(r, k)
      /\ Cardinality(Beyond) < Fetch => \A k \in shown.always : k \in found \/ Told(r, k)
  BY WindowTells
<1>3. /\ contents \subseteq items /\ items \subseteq found
      /\ \A k \in items, j \in found : j <= k => j \in items
      /\ ~More(found) => items = found
  BY <1>0, ItemsIs
<1>4. More(found) => /\ token # 0 /\ \A k \in page.listed \cup contents : k <= token
                     /\ \E j \in items : token <= j
  BY TokenBeyond
<1>5. /\ \A k \in items : Told(r, k)'
      /\ \A k : Told(r, k) => Told(r, k)'
  BY ResponseTells
<1>6. ask[r].op = "ListDirs" => \A k \in contents : DirOf[k] = 0
  BY DEF Contents
<1>7. /\ page.listed \subseteq shown.ever
      /\ \A k \in shown.always : k <= page.cursor => k \in page.found \/ Told(r, k)
      /\ \A k \in page.found : k \in found
      /\ ask[r].op = "ListDirs" => \A k \in page.listed : DirOf[k] = 0
  BY <1>0, CollectedIs DEF PageInv
<1> HIDE DEF found, items, contents, token
<1>8. Visible' = Visible
  BY DEF tables, Visible
<1>9. Asking /\ Asking'
  <2>1. Asking
    BY DEF Asking
  <2>2. req'[r].pc # "new" \/ page'.token # 0
    BY <1>0, <1>1, <1>4
  <2> QED
    BY <1>0, <2>1, <2>2 DEF Asking
<1>10. shown'.always = shown.always \cap Visible /\ shown'.ever = shown.ever \cup Visible
  BY <1>8, <1>9 DEF Observe
<1>11. shown'.always = shown.always /\ shown'.ever = shown.ever
  BY <1>2, <1>10
<1>12. ASSUME NEW k \in shown.always, NEW j \in items, k <= j
       PROVE  Told(r, k)'
  BY <1>2, <1>3, <1>5, <1>12
<1>13. ASSUME NEW k \in shown.always, k <= token
       PROVE  Told(r, k)'
  <2>1. k \in Nat
    BY <1>2, DirIs
  <2>2. CASE More(found)
    <3>1. PICK j \in items : token <= j
      BY <1>4, <2>2
    <3>2. j \in Nat
      BY <1>2, <1>3, DirIs
    <3>3. k <= j
      BY <1>0, <1>13, <2>1, <3>1, <3>2
    <3> QED
      BY <1>12, <3>3
  <2>3. CASE ~More(found)
    <3>1. k <= page.token /\ k <= page.cursor
      BY <1>0, <1>1, <1>13, <2>1, <2>3
    <3>2. k \notin page.found
      BY <1>0, <1>2, <1>7, <2>1, <3>1
    <3> QED
      BY <1>5, <1>7, <3>1, <3>2
  <2> QED
    BY <2>2, <2>3
<1>14. ASSUME ~More(found), ~page'.cut, NEW k \in shown.always
       PROVE  Told(r, k)'
  BY <1>1, <1>2, <1>3, <1>5, <1>14
<1>15. req'[r].pc \notin Over => \A k \in page'.listed : k <= page'.token
  BY <1>0, <1>1, <1>4 DEF Over
<1>16. page'.listed \cup page'.found \subseteq shown'.ever
  BY <1>1, <1>2, <1>3, <1>7, <1>11
<1>17. ask[r].op = "ListDirs" => \A k \in page'.listed : DirOf[k] = 0
  BY <1>1, <1>6, <1>7
<1>18. req'[r].pc = "done" /\ ~page'.cut => \A k \in shown'.always : Told(r, k)'
  BY <1>0, <1>11, <1>14
<1>19. \A k \in shown'.always : k <= page'.cursor => Told(r, k)'
  BY <1>1, <1>11, <1>13
<1>20. shown'.always \subseteq Visible' /\ Visible' \subseteq shown'.ever
  BY <1>2, <1>8, <1>11
<1>21. page'.token <= page'.cursor /\ page'.cursor = page'.token
  BY <1>0, <1>1
<1> QED
  BY <1>0, <1>1, <1>9, <1>15, <1>16, <1>17, <1>18, <1>19, <1>20, <1>21 DEF PageInv, At

LEMMA PageCollects ==
  ASSUME TypeInv, PageInv, NEW r \in Listing, req[r].pc = "list", Collects(r), UNCHANGED <<tables, ask>>,
         Observe, page' \in Page
  PROVE  PageInv'
<1> DEFINE ks == {x.key : x \in Window(Fetch)}
<1>0. /\ TypeOK /\ r \in Requests /\ page.token \in Nat /\ page.cursor \in Nat /\ Listing' = Listing
      /\ \A q \in Listing : q = r
      /\ req' = req /\ page.token <= page.cursor /\ Fetch \in Nat \ {0}
  BY AskIs, FetchIs DEF TypeInv, TypeOK, Page, Listing, Doing, Collects, PageInv
<1>1. /\ page'.cursor = Max(ks) /\ page'.found = Collected /\ ks # {}
      /\ page'.token = page.token /\ page'.listed = page.listed /\ page'.dirs = page.dirs
      /\ page'.cut = page.cut
  BY DEF Collects
<1>2. /\ Collected \subseteq shown.ever /\ Collected \subseteq ObjectKeys
      /\ shown.always \subseteq Visible /\ Visible \subseteq shown.ever /\ shown.always \subseteq ObjectKeys
      /\ \A k \in Collected : page.token < k
      /\ \A k \in shown.always, y \in Window(Fetch) : k <= y.key => k \in Collected \/ Told(r, k)
  BY WindowTells
<1>3. ks \subseteq ObjectKeys /\ \A k \in ks : k > page.cursor
  BY <1>0, WindowIs, BeyondIs
<1>4. Max(ks) \in ks /\ \A k \in ks : k <= Max(ks)
  BY <1>1, <1>3, RoomIs, MaxIs
<1>5. KeysIn(Window(Fetch)) \subseteq ks
  BY DEF KeysIn
<1>6. Max(ks) \in Nat /\ page.cursor < Max(ks) /\ page.token <= Max(ks)
  BY <1>0, <1>3, <1>4, DirIs
<1>7. \A k \in shown.always : k <= Max(ks) => k \in Collected \/ Told(r, k)
  BY <1>2, <1>4
<1> HIDE DEF ks
<1>8. \A k \in Collected : page.token < k /\ k <= Max(ks)
  <2>1. ASSUME NEW k \in page.found
        PROVE  k <= Max(ks)
    <3>1. k \in Nat /\ k <= page.cursor
      BY DirIs DEF TypeInv, TypeOK, Page, PageInv
    <3> QED
      BY <1>0, <1>6, <3>1
  <2> QED
    BY <1>2, <1>4, <1>5, <2>1 DEF Collected
<1>9. Visible' = Visible
  BY DEF tables, Visible
<1>10. Asking /\ Asking'
  BY <1>0 DEF Asking
<1>11. shown'.always = shown.always \cap Visible /\ shown'.ever = shown.ever \cup Visible
  BY <1>9, <1>10 DEF Observe
<1>12. shown'.always = shown.always /\ shown'.ever = shown.ever
  BY <1>2, <1>11
<1>13. \A k : Told(r, k)' = Told(r, k)
  BY <1>1 DEF Told
<1>14. /\ \A k \in page.listed : k <= page.token
       /\ ask[r].op = "ListDirs" => \A k \in page.listed : DirOf[k] = 0
       /\ page.listed \subseteq shown.ever
  BY DEF PageInv, Over
<1>15. \A k \in shown'.always : k <= page'.cursor => k \in page'.found \/ Told(r, k)'
  BY <1>1, <1>7, <1>12, <1>13
<1>16. shown'.always \subseteq Visible' /\ Visible' \subseteq shown'.ever
  BY <1>2, <1>9, <1>12
<1>17. page'.listed \cup page'.found \subseteq shown'.ever
  BY <1>1, <1>2, <1>12, <1>14
<1>18. \A k \in page'.found : page'.token < k /\ k <= page'.cursor
  BY <1>1, <1>8
<1>19. page'.token <= page'.cursor
  BY <1>1, <1>6
<1>20. req'[r].pc = "list"
  BY <1>0
<1> QED
  BY <1>0, <1>1, <1>10, <1>14, <1>15, <1>16, <1>17, <1>18, <1>19, <1>20 DEF PageInv, At

LEMMA PageNext ==
  ASSUME TypeInv, TypeInv', PageInv, Next
  PROVE  PageInv'
<1>1. Observe
  BY DEF Next
<1>2. ASSUME NEW r \in Listing, ListWindow(r), UNCHANGED <<now, ask>>
      PROVE  PageInv'
  <2>1. req[r].pc = "list" /\ UNCHANGED tables /\ r \in Requests /\ ask[r] # None
    BY <1>2 DEF ListWindow, At, Listing, Doing
  <2>2. page' \in Page /\ (Responds(r) \/ Collects(r))
    BY <1>2, <2>1, PageMoves
  <2> QED
    BY <1>1, <1>2, <2>1, <2>2, PageResponds, PageCollects
<1> QED
  BY <1>1, <1>2, AsideOrNot, PageAside

LEMMA PageInit ==
  ASSUME Init
  PROVE  PageInv
<1>1. TypeInv
  BY TypesInit
<1>2. /\ page = NoPage
      /\ shown = IF Asking THEN [always |-> Visible, ever |-> Visible] ELSE [always |-> {}, ever |-> {}]
  BY DEF Init
<1>3. /\ page.token = 0 /\ page.cursor = 0 /\ page.found = {} /\ page.listed = {}
  BY <1>2 DEF NoPage
<1>4. Visible \subseteq ObjectKeys
  BY <1>1, VisibleIs DEF TypeInv, TypeOK
<1>5. \A k \in shown.always : ~(k <= 0)
  BY <1>2, <1>4, DirIs
<1>6. ASSUME NEW r \in Listing
      PROVE  req[r].pc # "done"
  <2>1. r \in Requests /\ ask[r] # None /\ ask[r].op \in Lists
    BY DEF Listing, Doing
  <2> QED
    BY <2>1, StartsAt DEF Handler, Lists
<1>7. Asking => shown.always \subseteq Visible /\ Visible \subseteq shown.ever
  BY <1>2
<1> QED
  BY <1>3, <1>5, <1>6, <1>7 DEF PageInv, At

\* What a listing client has been told, and has still to be told.
THEOREM PageInvariant == Spec => []PageInv
<1>1. PageInv /\ UNCHANGED vars => PageInv'
  BY DEF PageInv, Asking, Listing, Doing, Told, At, Visible, vars, tables, history
<1>2. TypeInv /\ TypeInv' /\ PageInv /\ [Next]_vars => PageInv'
  BY <1>1, PageNext
<1> QED
  BY <1>2, PageInit, TypeInvariant, PTL DEF Spec

\* list_objects_v2: whoever follows the tokens to the end is told of every key
\* that was there all the time, and of none that never was.
THEOREM ListingsExact == Spec => []ListingExact
<1>1. PageInv => ListingExact
  BY DEF PageInv, ListingExact, Told
<1> QED
  BY <1>1, PageInvariant, PTL

LEMMA Advances ==
  ASSUME TypeInv, PageInv, Next, NEW r \in Listing, At(r, "list"), req'[r] # req[r]
  PROVE  /\ page'.contents \cap page.listed = {}
         /\ req'[r].pc = "new" => page'.token > page.token \/ page'.contents = {}
<1>0. TypeOK /\ page.token \in Nat /\ r \in Requests /\ req[r].pc = "list"
  BY DEF TypeInv, TypeOK, Page, Listing, At
<1>1. ListWindow(r) /\ UNCHANGED ask
  <2>1. ~Aside
    BY <1>0 DEF Aside
  <2>2. \A q \in Listing : q = r
    BY AskIs DEF TypeInv
  <2> QED
    BY <2>1, <2>2, AsideOrNot
<1>2. Responds(r)
  BY <1>0, <1>1, PageMoves DEF Collects, Listing, Doing
<1>3. /\ page'.contents = Contents(r, Collected) /\ page'.token = NextToken(r, Collected)
      /\ req'[r].pc = IF More(Collected) THEN "new" ELSE "done"
  BY <1>2 DEF Responds, Turn
<1>4. Contents(r, Collected) \subseteq Collected
  BY <1>0, ItemsIs
<1>5. /\ \A k \in Collected : page.token < k /\ k \in Nat
      /\ \A k \in page.listed : k <= page.token /\ k \in Nat
  BY <1>0, WindowTells, DirIs DEF PageInv, Over, TypeInv, TypeOK, Page
<1>6. ASSUME NEW k \in Contents(r, Collected), k \in page.listed
      PROVE  FALSE
  BY <1>0, <1>4, <1>5, <1>6
<1> QED
  BY <1>0, <1>3, <1>6, TokenBeyond

\* No key is listed twice, and a page that lists keys moves the token on.
THEOREM PagesAdvance == Spec => PageAdvances
<1>1. TypeInv /\ PageInv /\ [Next]_vars =>
        [\A r \in Listing :
           At(r, "list") /\ req'[r] # req[r] =>
             /\ page'.contents \cap page.listed = {}
             /\ req'[r].pc = "new" => page'.token > page.token \/ page'.contents = {}]_vars
  BY Advances
<1> QED
  BY <1>1, PageInvariant, TypeInvariant, PTL DEF Spec, PageAdvances
=============================================================================
