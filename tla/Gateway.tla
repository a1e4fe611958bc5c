------------------------------ MODULE Gateway ------------------------------
(***************************************************************************)
(* The S3 front end of one bucket, without the bytes: who a request is     *)
(* from (sigv4.rs, find_secret_key), what the bucket policy and Block      *)
(* Public Access make of it (policy.rs), and what it then does to the      *)
(* bucket, to version rows and to object locks, or reads of them, page by  *)
(* page (app.rs, db/mod.rs).  Every query is a step of its own: a handler  *)
(* checks first and acts later, without a transaction around the two, and  *)
(* other requests and the administrator come in between.                   *)
(*                                                                         *)
(* Some queries may fail unnoticed: the handler takes the error for an     *)
(* empty answer and goes on (.ok().flatten(), if let Ok, unwrap_or).  Any  *)
(* other error ends the request with a 500 and changes nothing, and so is  *)
(* a request that takes no more steps.                                     *)
(***************************************************************************)
EXTENDS Policy, FiniteSets

CONSTANTS
  Users,         \* access keys of the database
  Root,          \* the access key of the configuration file
  Requests,      \* requests; one names the version it writes
  Scenes,        \* what requests ask for, and what they find
  Versions,      \* version ids: those of the requests, others, and Null
  Null,          \* the version id of Suspended buckets
  Etags, Docs,   \* etags, and policy documents
  DirOf,         \* object key -> where the directory it is in sorts, or 0
  MaxKeys,       \* max-keys of a listing
  Rounds, FetchFactor, FetchSlack, FetchCap,   \* list_keys: 10, 4, 10, 2000
  MaxSkew,       \* MAX_SKEW_SECS
  Sessions,      \* ids of dashboard sessions; each stands for its CSRF token too
  SessionTTL,    \* SESSION_TTL_SECS
  MaxTime,       \* bound: the clock
  MaxActs,       \* bound: logins, logouts and changes of access keys
  MaxFailures    \* bound: failed queries of the requests under way

ASSUME GatewayAssumption ==
  /\ {MaxKeys, Rounds, FetchFactor, FetchCap} \subseteq Nat \ {0}
  /\ {FetchSlack, MaxSkew, SessionTTL, MaxTime, MaxActs, MaxFailures} \subseteq Nat
  /\ Root \notin Users /\ Anonymous \notin Users \cup {Root}
  /\ Sessions \cap (Users \cup {Root, Anonymous}) = {}
  /\ Null \notin Requests /\ Requests \cup {Null} \subseteq Versions
  /\ None \notin Versions /\ None \notin Docs /\ None \notin 0..MaxActs

ObjectKeys == DOMAIN DirOf

\* The keys of a directory, which all begin with its name, sort after it and
\* next to one another.
ASSUME DirAssumption ==
  /\ IsFiniteSet(ObjectKeys) /\ ObjectKeys \subseteq Nat \ {0}
  /\ DirOf \in [ObjectKeys -> Nat]
  /\ \A k \in ObjectKeys : DirOf[k] <= k
  /\ \A j, k \in ObjectKeys : DirOf[k] # 0 /\ DirOf[k] <= j /\ j <= k => DirOf[j] = DirOf[k]

VARIABLES
  now,        \* the server's clock
  keys,       \* access_keys: status and secret
  sessions,   \* the SessionStore: when each session expires, 0 if it is not there
  acts,       \* how much of MaxActs is used up
  bucket,     \* the rows of buckets, bucket_policies and bucket_bpa
  rows,       \* objects and their object_locks, numbered in order of insertion
  ask,        \* what the requests ask for
  req,        \* their handlers
  page,       \* what the listing client has and what its handler collects
  lost,       \* <<r, query>>: the query of request r that failed, unnoticed
  seen,       \* history: what a request that is being authorized could have read
  met,        \* history: requests whose precondition held at some time since arrival
  guarded,    \* history: <<r, vid, lock>> in force since before r looked for locks
  shown       \* history: keys that were visible always, or ever, since the listing began

tables == <<keys, sessions, bucket, rows>>
history == <<seen, met, guarded, shown>>
vars == <<now, acts, tables, ask, req, page, lost, history>>

NoRetention == [mode |-> None, until |-> 0]
NoBucket == [live |-> FALSE, mode |-> "Disabled", policy |-> None, block |-> FALSE]
FreshBucket == [NoBucket EXCEPT !.live = TRUE]
NewRow(n, k, vid, marker, etag) ==
  [num |-> n, key |-> k, vid |-> vid, marker |-> marker, etag |-> etag, hold |-> FALSE,
   retention |-> NoRetention]
Idle == [pc |-> "new", user |-> Anonymous, policy |-> None, vid |-> None, time |-> 0]
NoPage == [token |-> 0, contents |-> {}, listed |-> {}, dirs |-> {}, cut |-> FALSE,
           cursor |-> 0, found |-> {}, round |-> 0]

Lists == {"List", "ListDirs"}
ByKeyAlone == {"DeleteMany", "PostForm"}   \* these do not ask the bucket policy
OnObjects == {"Get", "Put", "Delete", "DeleteMany", "PostForm", "DashDelete", "Retain", "Hold"}
OnBuckets == {"CreateBucket", "DeleteBucket", "PutPolicy", "DeletePolicy", "PutBlock", "PutVersioning"}
Authorizing == {"auth", "policy", "block"}
Over == {"refused", "failed", "done"}
Pcs == {"new", "head", "cond", "commit", "find", "hold", "retention", "drop", "mode", "mark",
        "match", "dropall", "target", "lock", "look", "create", "count", "remove", "admit",
        "apply", "list"} \cup Authorizing \cup Over

\* The queries whose failure is taken for an empty answer: of an access key, the
\* policy, the block setting, the version a DELETE looks for locks of, its legal
\* hold and retention, the versioning mode, the object a precondition is about.
Queries == {"key", "policy", "block", "version", "hold", "retention", "mode", "object"}

Modes == {"Disabled", "Enabled", "Suspended"}
Retention == [mode : {"GOVERNANCE", "COMPLIANCE"}, until : Nat] \cup {NoRetention}
Bucket == [live : BOOLEAN, mode : Modes, policy : Docs \cup {None}, block : BOOLEAN]
Row == [num : Nat, key : ObjectKeys, vid : Versions, marker : BOOLEAN, etag : Etags \cup {None},
        hold : BOOLEAN, retention : Retention]
Handling == [pc : Pcs, user : Users \cup {Root, Anonymous}, policy : Docs \cup {None},
             vid : Versions \cup {None}, time : 0..MaxTime]
Page == [token : Nat, contents : SUBSET ObjectKeys, listed : SUBSET ObjectKeys, dirs : SUBSET Nat,
         cut : BOOLEAN, cursor : Nat, found : SUBSET ObjectKeys, round : 0..(Rounds - 1)]

\* No two versions have the same id, or were inserted at the same time.
Apart(S) == \A x, y \in S : x.vid = y.vid \/ x.num = y.num => x = y

\* In a bucket that never was versioned a key has one version.
OnePerKey(S) == \A x, y \in S : x.key = y.key => x = y

\* What a request can ask for.
IsSig(sig) ==
  /\ sig.scheme \in {"header", "presigned", "form", "none", "cookie"}
  /\ sig.date \in Nat /\ sig.expires \in Nat
  /\ sig.scheme = "cookie" => sig.user \in Sessions
  /\ sig.scheme = "none" => sig.user = Anonymous
  /\ sig.scheme \in {"header", "presigned", "form"} =>
       sig.user \in Users \cup {Root} /\ sig.secret \in Nat
IsAsk(a) ==
  /\ a.op \in OnObjects \cup OnBuckets \cup Lists
  /\ IsSig(a.sig)
  /\ a.op \in OnObjects => a.key \in ObjectKeys
  /\ a.vid \in Versions \cup {None}
  /\ a.cond.kind \in {"none", "absent", "etag"}
  /\ a.etag \in Etags /\ a.bypass \in BOOLEAN /\ a.flag \in BOOLEAN
  /\ a.op = "Retain" => a.lock \in Retention \ {NoRetention}
  /\ a.op = "PutPolicy" => a.doc \in Docs
  /\ a.op = "PutVersioning" => a.doc \in {"Enabled", "Suspended"}

\* A scene is a bucket a sequence of requests can leave behind.  One client
\* lists.
ASSUME SceneAssumption ==
  \A s \in Scenes :
    /\ s.now \in 0..MaxTime /\ s.acts \in 0..MaxActs /\ s.authorized \subseteq Requests
    /\ s.bucket \in Bucket
    /\ s.rows \subseteq Row /\ IsFiniteSet(s.rows) /\ Apart(s.rows)
    /\ ~s.bucket.live => s.rows = {} /\ s.bucket = NoBucket
    /\ s.bucket.mode = "Disabled" => OnePerKey(s.rows)
    /\ DOMAIN s.ask = Requests
    /\ \A r \in Requests : s.ask[r] # None => IsAsk(s.ask[r])
    /\ \A q, r \in Requests :
         {s.ask[q], s.ask[r]} \cap {None} = {} /\ {s.ask[q].op, s.ask[r].op} \subseteq Lists => q = r

\* Every variable holds what its table or handler can hold, and no two
\* versions share an id.
TypeOK ==
  /\ now \in 0..MaxTime
  /\ keys \in [Users -> [status : {"Active", "Inactive", "Deleted"}, secret : 0..MaxActs]]
  /\ sessions \in [Sessions -> 0..(MaxTime + SessionTTL)]
  /\ acts \in 0..MaxActs
  /\ bucket \in Bucket
  /\ rows \subseteq Row /\ IsFiniteSet(rows) /\ Apart(rows)
  /\ req \in [Requests -> Handling]
  /\ page \in Page /\ Cardinality(page.found) <= MaxKeys
  /\ lost \subseteq Requests \X Queries
  /\ shown \in [always : SUBSET ObjectKeys, ever : SUBSET ObjectKeys]

At(r, pc) == req[r].pc = pc
Become(r, x) == req' = [req EXCEPT ![r] = x]
Go(r, pc) == Become(r, [req[r] EXCEPT !.pc = pc])
Answer(r, how) == Become(r, [Idle EXCEPT !.pc = how])
\* A step of r that only reads, and one whose query may fail.
Reads(r) == UNCHANGED <<acts, tables, page, lost>>
Query(r, query, fails) ==
  /\ UNCHANGED <<acts, tables, page>>
  /\ IF fails THEN Cardinality(lost) < MaxFailures /\ lost' = lost \cup {<<r, query>>}
     ELSE UNCHANGED lost
\* A step of r that writes the bucket, or version rows.
WritesBucket(r) == UNCHANGED <<acts, keys, sessions, rows, page, lost>>
WritesRows(r) == UNCHANGED <<acts, keys, sessions, bucket, page, lost>>

Lost(r) == {query \in Queries : <<r, query>> \in lost}

-----------------------------------------------------------------------------
(* Authentication and authorization *)

Arrive(r) ==
  /\ At(r, "new")
  /\ Go(r, "auth")
  /\ lost' = {f \in lost : f[1] # r}
  /\ UNCHANGED <<acts, tables, page>>

\* Mutant of FindSecret: a key stays good when it is made inactive or revoked.
FindSecretOfAny(u, key) == IF u = Root THEN 0 ELSE IF key # None THEN key.secret ELSE None

\* find_secret_key: the configuration's key, else an Active one of the database;
\* none if the query fails.  (allowed_buckets, a column of the row, is stored by
\* the dashboard and read by nobody: every key is good for every bucket.)
FindSecret(u, key) == IF u = Root THEN 0
                      ELSE IF key # None /\ key.status = "Active" THEN key.secret ELSE None

\* verify: the date of the request and the clock are close.
HeaderInTime(sig, t) == t <= sig.date + MaxSkew /\ sig.date <= t + MaxSkew

\* verify_presigned: it has not expired, and is not from the future.
PresignedInTime(sig, t) == t <= sig.date + sig.expires /\ sig.date <= t + MaxSkew

\* parse_and_validate_post_policy: the form's own policy, its conditions being
\* the set of keys they admit.
FormAdmits(sig, key, t) == t <= sig.expires /\ key \in sig.keys

InTime(sig, key, t) ==
  CASE sig.scheme = "header"    -> HeaderInTime(sig, t)
    [] sig.scheme = "presigned" -> PresignedInTime(sig, t)
    [] sig.scheme = "form"      -> FormAdmits(sig, key, t)
    [] sig.scheme = "none"      -> FALSE

\* The signature computed from the secret is the one that was sent.
SignedWith(sig, secret) == sig.secret = secret

\* The dashboard's requests carry a session and its CSRF token.
FromDashboard(r) == ask[r].sig.scheme = "cookie"

\* validate_session, for a session that expires at a given time.
Valid(expires, t) == expires > t

\* authenticate_admin_request of a mutating request.
Admits(sig, expires, t) == Valid(expires, t) /\ sig.secret = sig.user

SessionOf(r) == IF FromDashboard(r) THEN sessions[ask[r].sig.user] ELSE 0
KeyOf(r) == IF ask[r].sig.user \in Users THEN keys[ask[r].sig.user] ELSE None

\* Where a request goes on once it is authorized.
Handler(op) ==
  CASE op \in {"Put", "Delete", "DeleteMany", "DeleteBucket"} \cup Lists -> "head"
    [] op \in {"Retain", "Hold"} -> "target"
    [] op = "PostForm"     -> "commit"
    [] op = "DashDelete"   -> "dropall"
    [] op = "CreateBucket" -> "look"
    [] op = "PutPolicy"    -> "admit"
    [] op \in {"Get", "DeletePolicy", "PutBlock", "PutVersioning"} -> "apply"

\* What the request shows is good: a session of the dashboard, or a signature
\* under the key that was found.
Proven(r, key) ==
  LET sig == ask[r].sig
      secret == FindSecret(sig.user, key) IN
  IF FromDashboard(r) THEN Admits(sig, SessionOf(r), now)
  ELSE InTime(sig, ask[r].key, now) /\ secret # None /\ SignedWith(sig, secret)

\* authenticate; dashboard requests, DeleteObjects and form uploads end here,
\* for the others a failure makes the user anonymous.
Authenticate(r) ==
  /\ At(r, "auth")
  /\ \E fails \in BOOLEAN :
       LET proven == Proven(r, IF fails THEN None ELSE KeyOf(r)) IN
       /\ fails => ask[r].sig.user \in Users
       /\ IF ask[r].op \in ByKeyAlone \/ FromDashboard(r)
          THEN IF proven THEN Go(r, Handler(ask[r].op)) ELSE Answer(r, "refused")
          ELSE Become(r, [req[r] EXCEPT !.pc = "policy",
                                        !.user = IF proven THEN ask[r].sig.user ELSE Anonymous])
       /\ Query(r, "key", fails)

\* A bucket whose policy cannot be read has none.
LoadPolicy(r) ==
  /\ At(r, "policy")
  /\ \E fails \in BOOLEAN :
       /\ Become(r, [req[r] EXCEPT !.pc = "block", !.policy = IF fails THEN None ELSE bucket.policy])
       /\ Query(r, "policy", fails)

\* Mutant of Allowed: where there is a policy, it has to allow the request.
AllowedByPolicy(doc, a, user, block) ==
  IF doc = None THEN user # Anonymous ELSE EvalPolicy(doc, a, user, block) = "Allow"

\* check_auth_with_policy: the policy has its way, else the signature.
Allowed(doc, a, user, block) ==
  LET verdict == IF doc = None THEN "NoMatch" ELSE EvalPolicy(doc, a, user, block)
  IN verdict = "Allow" \/ (verdict = "NoMatch" /\ user # Anonymous)

\* Nor is public access blocked if it cannot be read whether it is.
LoadBlock(r) ==
  /\ At(r, "block")
  /\ \E fails \in BOOLEAN :
       /\ IF Allowed(req[r].policy, ask[r], req[r].user, bucket.block /\ ~fails)
          THEN Become(r, [Idle EXCEPT !.pc = Handler(ask[r].op)])
          ELSE Answer(r, "refused")
       /\ Query(r, "block", fails)

Authorize(r) == Authenticate(r) \/ LoadPolicy(r) \/ LoadBlock(r)

-----------------------------------------------------------------------------
(* Version rows *)

\* ORDER BY created_at DESC, rowid DESC, first row, in a set of rows.
IsLatest(x, S) == \A y \in S : y.key = x.key => y.num <= x.num
HasRow(k) == \E x \in rows : x.key = k
Latest(k) == CHOOSE x \in rows : x.key = k /\ IsLatest(x, rows)
Visible == {x.key : x \in {y \in rows : IsLatest(y, rows) /\ ~y.marker}}
HasVersion(vid) == \E x \in rows : x.vid = vid
Version(vid) == CHOOSE x \in rows : x.vid = vid
NextNum(S) == IF S = {} THEN 1 ELSE 1 + Max({x.num : x \in S})

\* latest_version or, for a versionId other than null, get_version_by_id.
Asked(r) == LET k == ask[r].key
                v == ask[r].vid IN
            IF v \in {None, Null} THEN IF HasRow(k) THEN Latest(k).vid ELSE None
            ELSE IF HasVersion(v) /\ Version(v).key = k THEN v ELSE None

\* eval_conditional_headers for writes, over the latest row, marker or not.
Matches(cond, k) ==
  CASE cond.kind = "none"   -> TRUE
    [] cond.kind = "absent" -> ~HasRow(k)
    [] cond.kind = "etag"   -> HasRow(k) /\ Latest(k).etag = cond.etag

\* What these find who cannot read the row: that there is none.
Passes(cond, k, fails) == IF fails THEN cond.kind # "etag" ELSE Matches(cond, k)

\* prepare_versioning_write_tx: what a write of key k replaces.  A lock goes
\* with its version (ON DELETE CASCADE); nothing here looks at locks.
Kept(x, k) == \/ x.key # k
              \/ bucket.mode = "Enabled"
              \/ bucket.mode = "Suspended" /\ x.vid # Null

\* The id of the version that request r writes, a delete marker or not.
FreshId(r, marker) ==
  IF bucket.mode = "Enabled" \/ (bucket.mode = "Disabled" /\ ~marker) THEN r ELSE Null

\* Mutant of Insert: no primary key on version_id.
InsertTwice(r, k, marker, etag) ==
  LET id == FreshId(r, marker)
      kept == {x \in rows : Kept(x, k)}
  IN IF bucket.live
     THEN /\ rows' = kept \cup {NewRow(NextNum(kept), k, id, marker, etag)}
          /\ Answer(r, "done")
     ELSE UNCHANGED rows /\ Answer(r, "failed")

\* That, and the insert of a version or a delete marker.  The insert fails if
\* there is no bucket, or a version of that id, of whatever key.
Insert(r, k, marker, etag) ==
  LET id == FreshId(r, marker)
      kept == {x \in rows : Kept(x, k)}
  IN IF bucket.live /\ \A x \in kept : x.vid # id
     THEN /\ rows' = kept \cup {NewRow(NextNum(kept), k, id, marker, etag)}
          /\ Answer(r, "done")
     ELSE UNCHANGED rows /\ Answer(r, "failed")

\* head_bucket, first thing in these handlers.  (So it is in GET, of which only
\* the authorization is modelled here; ReadPath has the rest.)
CheckBucket(r) ==
  LET next == CASE ask[r].op = "Put" -> "cond"
                [] ask[r].op = "Delete" -> "find"
                [] ask[r].op = "DeleteMany" -> "dropall"
                [] ask[r].op = "DeleteBucket" -> "count"
                [] ask[r].op \in Lists -> "list"
  IN /\ At(r, "head")
     /\ IF bucket.live THEN Go(r, next) ELSE Answer(r, "failed")
     /\ Reads(r)

\* Mutant of CheckCondition: If-Match is not looked at.
CheckAbsence(r) ==
  /\ At(r, "cond")
  /\ IF ask[r].cond.kind = "absent" /\ HasRow(ask[r].key) THEN Answer(r, "failed")
     ELSE Go(r, "commit")
  /\ Query(r, "object", FALSE)

\* The precondition of PutObject, before the body goes to the spool.
CheckCondition(r) ==
  /\ At(r, "cond")
  /\ \E fails \in BOOLEAN :
       /\ IF Passes(ask[r].cond, ask[r].key, fails) THEN Go(r, "commit") ELSE Answer(r, "failed")
       /\ Query(r, "object", fails)

\* The transaction of PutObject and of form uploads.
CommitPut(r) ==
  /\ At(r, "commit")
  /\ Insert(r, ask[r].key, FALSE, ask[r].etag)
  /\ WritesRows(r)

Write(r) == CheckCondition(r) \/ CommitPut(r)

-----------------------------------------------------------------------------
(* DeleteObject and DeleteObjects *)

\* check_object_lock_for_delete, query by query, for the time it began at.  A
\* version that is not found, or cannot be read, has no locks; a lock that cannot
\* be read is none.
FindVersion(r) ==
  /\ At(r, "find")
  /\ \E fails \in BOOLEAN :
       LET vid == IF fails THEN None ELSE Asked(r) IN
       /\ IF vid # None THEN Become(r, [req[r] EXCEPT !.vid = vid, !.time = now, !.pc = "hold"])
          ELSE Go(r, IF ask[r].vid # None THEN "drop" ELSE "mode")
       /\ Query(r, "version", fails)

ReadHold(r) ==
  /\ At(r, "hold")
  /\ \E fails \in BOOLEAN :
       /\ IF ~fails /\ HasVersion(req[r].vid) /\ Version(req[r].vid).hold
          THEN Answer(r, "failed") ELSE Go(r, "retention")
       /\ Query(r, "hold", fails)

\* Mutant of Retained: the bypass header opens every retention.
RetainedUnlessBypassed(x, bypass, t) == x.retention.until > t /\ ~bypass

\* A retention in force, to a request that does or does not bypass GOVERNANCE.
Retained(x, bypass, t) ==
  /\ x.retention.until > t
  /\ x.retention.mode = "COMPLIANCE" \/ (x.retention.mode = "GOVERNANCE" /\ ~bypass)

ReadRetention(r) ==
  /\ At(r, "retention")
  /\ \E fails \in BOOLEAN :
       /\ IF ~fails /\ HasVersion(req[r].vid)
             /\ Retained(Version(req[r].vid), ask[r].bypass, req[r].time)
          THEN Answer(r, "failed")
          ELSE Go(r, IF ask[r].vid # None THEN "drop" ELSE "mode")
       /\ Query(r, "retention", fails)

\* delete_object_version, of the id that was asked for.
DropVersion(r) ==
  /\ At(r, "drop")
  /\ rows' = {x \in rows : x.key # ask[r].key \/ x.vid # ask[r].vid}
  /\ Answer(r, "done")
  /\ WritesRows(r)

\* get_bucket_versioning; without a bucket, or if the query fails, Disabled.
ReadMode(r) ==
  /\ At(r, "mode")
  /\ \E fails \in BOOLEAN :
       /\ Go(r, IF fails \/ bucket.mode = "Disabled" THEN "match" ELSE "mark")
       /\ Query(r, "mode", fails)

\* create_delete_marker reads the state again.
Mark(r) ==
  /\ At(r, "mark")
  /\ Insert(r, ask[r].key, TRUE, None)
  /\ WritesRows(r)

\* The precondition of a DELETE counts in unversioned buckets only.
CheckDelete(r) ==
  /\ At(r, "match")
  /\ \E fails \in BOOLEAN :
       /\ IF Passes(ask[r].cond, ask[r].key, fails) THEN Go(r, "dropall") ELSE Answer(r, "failed")
       /\ Query(r, "object", fails)

\* delete_object: every version of the key.  DeleteObjects and the dashboard
\* come straight here: they look at no locks and no versioning.
DropAll(r) ==
  /\ At(r, "dropall")
  /\ rows' = {x \in rows : x.key # ask[r].key}
  /\ Answer(r, "done")
  /\ WritesRows(r)

Delete(r) == \/ FindVersion(r) \/ ReadHold(r) \/ ReadRetention(r) \/ DropVersion(r)
             \/ ReadMode(r) \/ Mark(r) \/ CheckDelete(r) \/ DropAll(r)

-----------------------------------------------------------------------------
(* Object locks *)

FindTarget(r) ==
  LET vid == Asked(r) IN
  /\ At(r, "target")
  /\ IF vid = None THEN Answer(r, "failed")
     ELSE Become(r, [req[r] EXCEPT !.pc = "lock", !.vid = vid])
  /\ Reads(r)

\* An upsert of some columns, whatever is there already; the version must still
\* exist (foreign key).
Upsert(r, locked) ==
  /\ rows' = {IF x.vid = req[r].vid THEN locked[x] ELSE x : x \in rows}
  /\ Answer(r, IF HasVersion(req[r].vid) THEN "done" ELSE "failed")
  /\ WritesRows(r)

SetRetention(r) ==
  /\ At(r, "lock")
  /\ ask[r].op = "Retain"
  /\ Upsert(r, [x \in rows |-> [x EXCEPT !.retention = ask[r].lock]])

SetHold(r) ==
  /\ At(r, "lock")
  /\ ask[r].op = "Hold"
  /\ Upsert(r, [x \in rows |-> [x EXCEPT !.hold = ask[r].flag]])

Lock(r) == FindTarget(r) \/ SetRetention(r) \/ SetHold(r)

-----------------------------------------------------------------------------
(* The bucket *)

\* create_bucket: a lookup, then an insert that fails if somebody was faster.
FindBucket(r) ==
  /\ At(r, "look")
  /\ IF bucket.live THEN Answer(r, "done") ELSE Go(r, "create")
  /\ Reads(r)

CreateBucket(r) ==
  /\ At(r, "create")
  /\ IF bucket.live THEN UNCHANGED bucket /\ Answer(r, "failed")
     ELSE bucket' = FreshBucket /\ Answer(r, "done")
  /\ WritesBucket(r)

\* delete_bucket, after its head_bucket.  Uploads in progress, counted next,
\* are left out.
CountObjects(r) ==
  /\ At(r, "count")
  /\ IF rows # {} THEN Answer(r, "failed") ELSE Go(r, "remove")
  /\ Reads(r)

\* Mutant of RemoveBucket: no foreign key from objects to buckets.
RemoveBucketAlone(r) ==
  /\ At(r, "remove")
  /\ bucket' = NoBucket
  /\ Answer(r, "done")
  /\ WritesBucket(r)

\* The DELETE: it fails while there are objects; policy and block go with it.
RemoveBucket(r) ==
  /\ At(r, "remove")
  /\ IF rows # {} THEN UNCHANGED bucket /\ Answer(r, "failed")
     ELSE bucket' = NoBucket /\ Answer(r, "done")
  /\ WritesBucket(r)

\* put_bucket_policy_handler: a public policy is not admitted under Block
\* Public Access; without a bucket, or if the query fails, there is nothing to
\* block.
AdmitPolicy(r) ==
  /\ At(r, "admit")
  /\ \E fails \in BOOLEAN :
       /\ IF ~fails /\ bucket.block /\ DocIsPublic(ask[r].doc) THEN Answer(r, "failed")
          ELSE Go(r, "apply")
       /\ Query(r, "block", fails)

\* What the last statement of these handlers does to a bucket that exists.
Changed(r) ==
  CASE ask[r].op = "PutPolicy"     -> [bucket EXCEPT !.policy = ask[r].doc]
    [] ask[r].op = "DeletePolicy"  -> [bucket EXCEPT !.policy = None]
    [] ask[r].op = "PutBlock"      -> [bucket EXCEPT !.block = ask[r].flag]
    [] ask[r].op = "PutVersioning" -> [bucket EXCEPT !.mode = ask[r].doc]
    [] ask[r].op = "Get"           -> bucket

Apply(r) ==
  /\ At(r, "apply")
  /\ IF bucket.live THEN bucket' = Changed(r) /\ Answer(r, "done")
     ELSE UNCHANGED bucket /\ Answer(r, "failed")
  /\ WritesBucket(r)

Administer(r) == \/ FindBucket(r) \/ CreateBucket(r) \/ CountObjects(r) \/ RemoveBucket(r)
                 \/ AdmitPolicy(r) \/ Apply(r)

-----------------------------------------------------------------------------
(* ListObjectsV2, without a prefix *)

\* Keys and directories sort by number; a key k is in directory DirOf[k] <= k.
Need == MaxKeys + 1 - Cardinality(page.found)
Fetch == LET n == Need * FetchFactor + FetchSlack IN IF n < FetchCap THEN n ELSE FetchCap

\* The rows beyond the cursor, by key, the newest version first.
Beyond == {x \in rows : x.key > page.cursor}
UpTo(x) == {y \in Beyond : y.key < x.key \/ (y.key = x.key /\ y.num >= x.num)}
Window(n) == {x \in Beyond : Cardinality(UpTo(x)) <= n}

\* Mutant of KeysIn: markers are skipped, the versions below them are not.
KeysInBelow(window) == {x.key : x \in {y \in window : ~y.marker}}

\* The keys of a window whose first row, the newest, is not a delete marker.
KeysIn(window) == {x.key : x \in {y \in window : IsLatest(y, window) /\ ~y.marker}}

\* Mutant of Token: a directory is preferred.
TokenOfDir(items, contents) ==
  IF items # contents THEN DirOf[Max(items \ contents)] ELSE Max(contents)

\* next_token: the last key of the page or, if it holds directories only, the
\* last directory.
Token(items, contents) == IF contents # {} THEN Max(contents) ELSE DirOf[Max(items)]

\* list_objects_v2, once list_keys has returned `found`: its first n keys.
FirstOf(found, n) == {k \in found : Cardinality({j \in found : j <= k}) <= n}

Respond(r, found, cut) ==
  LET items == FirstOf(found, MaxKeys)
      contents == {k \in items : ask[r].op = "List" \/ DirOf[k] = 0}
      more == Cardinality(found) > MaxKeys
      token == IF more THEN Token(items, contents) ELSE page.token
  IN /\ page' = [page EXCEPT
                   !.token = token, !.cursor = token, !.found = {}, !.round = 0,
                   !.contents = contents, !.listed = @ \cup contents,
                   !.dirs = @ \cup {DirOf[k] : k \in items \ contents},
                   !.cut = @ \/ cut]
     /\ Answer(r, IF more THEN "new" ELSE "done")

\* One window of list_keys; it is full if there are that many rows.  The client
\* asks for the next page as long as there is one.
ListWindow(r) ==
  LET window == Window(Fetch)
      found == page.found \cup KeysIn(window)
      full == Cardinality(Beyond) >= Fetch
      enough == Cardinality(found) > MaxKeys
      lastRound == page.round = Rounds - 1
  IN /\ At(r, "list")
     /\ IF enough \/ ~full \/ lastRound
        THEN Respond(r, found, ~enough /\ full)
        ELSE /\ page' = [page EXCEPT !.cursor = Max({x.key : x \in window}), !.found = found,
                                     !.round = @ + 1]
             /\ UNCHANGED req
     /\ UNCHANGED <<acts, tables, lost>>

-----------------------------------------------------------------------------
(* The administrator: access keys and sessions; and time *)

\* The administrator does something to a key or a session some request names.
Act(x) == /\ acts < MaxActs
          /\ \E r \in Requests : ask[r] # None /\ ask[r].sig.user = x
          /\ acts' = acts + 1
          /\ UNCHANGED <<now, bucket, rows, ask, req, page, lost>>
ActOnKey(u, row) == /\ Act(u)
                    /\ keys' = [keys EXCEPT ![u] = row]
                    /\ UNCHANGED sessions

\* api_create_access_key: under a random id that has no row (it may have had
\* one), with a new secret.
CreateKey(u) ==
  /\ keys[u].status = "Deleted"
  /\ ActOnKey(u, [status |-> "Active", secret |-> acts + 1])

RevokeKey(u) ==
  /\ keys[u].status # "Deleted"
  /\ ActOnKey(u, [keys[u] EXCEPT !.status = "Deleted"])

\* api_update_access_key: a key that has no row is not found.
UpdateKey(u) ==
  /\ keys[u].status # "Deleted"
  /\ \E s \in {"Active", "Inactive"} \ {keys[u].status} :
       ActOnKey(u, [keys[u] EXCEPT !.status = s])

\* create_session: a new id; sessions that have expired are forgotten.
NewSession(x) == [s \in Sessions |-> IF s = x THEN now + SessionTTL
                                     ELSE IF Valid(sessions[s], now) THEN sessions[s] ELSE 0]

\* api_login with the right password, which no number of wrong ones delays.
Login(x) == /\ sessions[x] = 0
            /\ Act(x)
            /\ sessions' = NewSession(x)
            /\ UNCHANGED keys

Logout(x) == /\ sessions[x] # 0
             /\ Act(x)
             /\ sessions' = [sessions EXCEPT ![x] = 0]
             /\ UNCHANGED keys

Administrator == \/ \E u \in Users : CreateKey(u) \/ RevokeKey(u) \/ UpdateKey(u)
                 \/ \E x \in Sessions : Login(x) \/ Logout(x)

Tick ==
  /\ now < MaxTime
  /\ now' = now + 1
  /\ UNCHANGED <<acts, tables, ask, req, page, lost>>

-----------------------------------------------------------------------------
(* History: what was true while a request was under way.  It restrains nothing. *)

Doing(r, ops) == ask[r] # None /\ ask[r].op \in ops
Listing == {r \in Requests : Doing(r, Lists)}

\* What each query of check_auth_with_policy would find now.
Moment(r) == [key |-> KeyOf(r), session |-> SessionOf(r), time |-> now,
              doc |-> bucket.policy, block |-> bucket.block]

\* Locks that hold against request r.
InForce(r) ==
  {<<r, x.vid, "hold">> : x \in {y \in rows : y.hold}} \cup
  {<<r, x.vid, "retention">> : x \in {y \in rows :
     y.retention.until > now /\ (y.retention.mode = "GOVERNANCE" => ~ask[r].bypass)}}
Unlooked(r) == req[r].pc \in Authorizing \cup {"new", "head", "find"}
Deleting == {r \in Requests : Doing(r, {"Delete"}) /\ req[r].pc \notin Over}

Conditional == {r \in Requests : Doing(r, {"Put", "Delete"}) /\ ask[r].cond.kind # "none"
                                  /\ req[r].pc \notin Over}
Asking == \E r \in Listing : req[r].pc # "new" \/ page.token # 0

Init ==
  /\ \E s \in Scenes :
       /\ now = s.now
       /\ acts = s.acts
       /\ bucket = s.bucket
       /\ rows = s.rows
       /\ ask = s.ask
       /\ req = [r \in Requests |->
                   IF ask[r] = None THEN [Idle EXCEPT !.pc = "done"]
                   ELSE IF r \in s.authorized THEN [Idle EXCEPT !.pc = Handler(ask[r].op)] ELSE Idle]
  /\ keys = [u \in Users |-> [status |-> "Active", secret |-> 0]]
  /\ sessions = [x \in Sessions |-> 0]
  /\ page = NoPage
  /\ lost = {}
  /\ seen = [r \in Requests |-> {}]
  /\ met = {r \in Conditional : Matches(ask[r].cond, ask[r].key)}
  /\ guarded = UNION {InForce(r) : r \in Deleting}
  /\ shown = IF Asking THEN [always |-> Visible, ever |-> Visible] ELSE [always |-> {}, ever |-> {}]

Observe ==
  /\ seen' = [r \in Requests |-> IF req'[r].pc \in Authorizing THEN seen[r] \cup {Moment(r)'}
                                 ELSE {}]
  /\ met' = {r \in Conditional' : r \in met \/ Matches(ask[r].cond, ask[r].key)'}
  /\ guarded' = {g \in UNION {InForce(r)' : r \in Deleting'} : Unlooked(g[1])' \/ g \in guarded}
  /\ shown' = IF ~Asking' THEN [always |-> {}, ever |-> {}]
              ELSE IF ~Asking THEN [always |-> Visible', ever |-> Visible']
              ELSE [always |-> shown.always \cap Visible', ever |-> shown.ever \cup Visible']

-----------------------------------------------------------------------------
RequestStep(r) == Arrive(r) \/ Authorize(r) \/ CheckBucket(r) \/ Write(r) \/ Delete(r)
                  \/ Lock(r) \/ Administer(r) \/ ListWindow(r)

Next ==
  /\ \/ (\E r \in Requests : RequestStep(r)) /\ UNCHANGED <<now, ask>>
     \/ Administrator
     \/ Tick
  /\ Observe

Spec == Init /\ [][Next]_vars

-----------------------------------------------------------------------------
(* Properties *)

\* What the theorems on decisions assume, and TLC evaluates: for the documents, the
\* requests and the users there are, a policy evaluates to what it means.
PoliciesMean ==
  \A s \in Scenes, r \in Requests, doc \in Docs, user \in Users \cup {Root, Anonymous}, block \in BOOLEAN :
    s.ask[r] # None => EvalPolicy(doc, s.ask[r], user, block) = Meant(doc, s.ask[r], user, block)

\* What a request may do under a key, a time, a policy and a block setting.
Signed(r, m) ==
  LET sig == ask[r].sig IN
  IF FromDashboard(r) THEN m.session > m.time /\ sig.secret = sig.user
  ELSE /\ InTime(sig, ask[r].key, m.time)
       /\ IF sig.user = Root THEN sig.secret = 0
          ELSE m.key # None /\ m.key.status = "Active" /\ m.key.secret = sig.secret
Grants(r, m) ==
  LET user == IF Signed(r, m) THEN ask[r].sig.user ELSE Anonymous
      verdict == IF m.doc = None THEN "NoMatch" ELSE Meant(m.doc, ask[r], user, m.block)
  IN IF ask[r].op \in ByKeyAlone \/ FromDashboard(r) THEN Signed(r, m)
     ELSE verdict = "Allow" \/ (verdict = "NoMatch" /\ user # Anonymous)

\* The key, the policy and the block setting are read at different moments, so
\* a decision may rest on a combination of them that never was; and of what a
\* query that failed was to read, on nothing.
Mix(a, b, c, failed) ==
  [key |-> IF "key" \in failed THEN None ELSE a.key, session |-> a.session, time |-> a.time,
   doc |-> IF "policy" \in failed THEN None ELSE b.doc, block |-> c.block /\ "block" \notin failed]
Mixes(r, failed) == {Mix(a, b, c, failed) : a, b, c \in seen[r]}
Decided(r, how) == /\ req[r].pc \in Authorizing /\ req'[r].pc \notin Authorizing
                   /\ (req'[r].pc = "refused") = (how = "refused")

\* check_auth_with_policy: a request goes through only if its signature, the
\* status of its key (or its session), the policy and the block setting it found,
\* each in force at some moment since the request arrived, allow it by what
\* policies mean: a key revoked or a statement denied before never lets it pass.
\* The code forgives itself a failed query, and so a denial it could not read
\* (app.rs:402-406): exactly that is counted as no policy, or no block, and
\* nothing else is.
GrantHadGrounds ==
  [][\A r \in Requests :
       Decided(r, "granted") => \E m \in Mixes(r, Lost(r)') : Grants(r, m)]_vars

\* And it is refused only on such grounds: nobody is locked out by a pattern
\* that does not name them, unless the key or the policy that would have let
\* them in could not be read.
RefusalHadGrounds ==
  [][\A r \in Requests :
       Decided(r, "refused") => \E m \in Mixes(r, Lost(r)') : ~Grants(r, m)]_vars

\* check_object_lock_for_delete: a DELETE never takes a version, other than a
\* null version, that was under the same legal hold or retention from before it
\* looked at locks until it took it away, whoever sets and clears locks, writes
\* and changes versioning meanwhile; unless this DELETE's own query of that lock,
\* of the version or of the versioning mode failed, which lets it through
\* (app.rs:3880-3907, 3004).  (A null version is taken unchecked if it is not the
\* latest: app.rs:3879.  PUT and DeleteObjects look at no locks.)
LockedVersionStays ==
  [][\A r \in Deleting : \A x \in rows :
       req'[r] # req[r] /\ x.vid # Null /\ (\A y \in rows' : y.vid # x.vid) =>
         \A lock \in {"hold", "retention"} :
           <<r, x.vid, lock>> \in guarded => Lost(r) \cap {lock, "version", "mode"} # {}]_vars

\* put_object, delete_object: a conditional PUT takes effect only if its
\* precondition held at some moment since it arrived, and so does a conditional
\* DELETE of all versions; except that If-None-Match takes an object it failed to
\* read for none (app.rs:2262, 3032).  An If-Match is never so let through.  (Two
\* PUTs that both find no object may both succeed; in versioned buckets a DELETE
\* ignores its precondition, app.rs:3004.)
ConditionHeld ==
  [][\A r \in Conditional :
       req[r].pc \in {"commit", "dropall"} /\ req'[r].pc = "done" =>
         r \in met \/ ("object" \in Lost(r) /\ ask[r].cond.kind = "absent")]_vars

\* delete_bucket takes four statements, and no transaction: still no object is
\* left without a bucket, and a bucket made again under the name starts without
\* the objects, the policy and the block setting of the one before.
NothingOutlivesBucket == ~bucket.live => rows = {} /\ bucket = NoBucket

\* list_objects_v2: a client that follows the tokens to the end is told of every
\* key (or its directory) that was there all the time, and of none that never
\* was, while others write; unless list_keys ran out of rounds.
ListingExact ==
  \A r \in Listing :
    /\ page.listed \subseteq shown.ever
    /\ At(r, "done") /\ ~page.cut =>
         \A k \in shown.always : k \in page.listed \/ (ask[r].op = "ListDirs" /\ DirOf[k] \in page.dirs)

\* No key is listed twice, and a page that is not the last one hands out a token
\* beyond its own, unless it holds directories only (it may then be handed out
\* for ever: see the README).
PageAdvances ==
  [][\A r \in Listing :
       At(r, "list") /\ req'[r] # req[r] =>
         /\ page'.contents \cap page.listed = {}
         /\ req'[r].pc = "new" => page'.token > page.token \/ page'.contents = {}]_vars
=============================================================================
