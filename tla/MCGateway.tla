----------------------------- MODULE MCGateway -----------------------------
(***************************************************************************)
(* What the requests of the model-checked instance ask for, and the        *)
(* buckets they find.                                                      *)
(***************************************************************************)
EXTENDS Gateway, TLC

CONSTANTS u1, c1, r1, r2, r3, v1, v2, e1, e2, bkt, slash, s3, get, put, del, admin

\* Keys 1 and 3 to 6; the directory of 3 and 4 sorts between 1 and 3.
MCDirOf == [k \in {1, 3, 4, 5, 6} |-> IF k \in {3, 4} THEN 2 ELSE 0]

-----------------------------------------------------------------------------
Header(u, s, d) == [scheme |-> "header", user |-> u, secret |-> s, date |-> d, expires |-> 0,
                    keys |-> {}]
ByRoot == Header(Root, 0, 1)
ByUser == Header(u1, 0, 0)
Unsigned == [Header(Anonymous, 0, 0) EXCEPT !.scheme = "none"]
Presigned == [Header(u1, 0, 0) EXCEPT !.scheme = "presigned", !.expires = 1]
Cookie(s, token) == [Header(s, token, 0) EXCEPT !.scheme = "cookie"]
Form(ks) == [Header(u1, 0, 0) EXCEPT !.scheme = "form", !.keys = ks]

ActionOf(op) == CASE op = "Get" -> <<s3, get>>
                  [] op \in {"Put", "Retain", "Hold"} -> <<s3, put>>
                  [] op = "Delete" -> <<s3, del>>
                  [] OTHER -> <<s3, admin>>

Request(op, sig, k) ==
  [op |-> op, sig |-> sig, key |-> k, vid |-> None, cond |-> [kind |-> "none", etag |-> None],
   etag |-> e2, bypass |-> FALSE, flag |-> FALSE, lock |-> NoRetention, doc |-> None,
   action |-> ActionOf(op), resource |-> IF k = None THEN <<bkt>> ELSE <<bkt, slash, k>>]
If(cond, a) == [a EXCEPT !.cond = cond]
OfVersion(v, a) == [a EXCEPT !.vid = v]
Absent == [kind |-> "absent", etag |-> None]
Etag(e) == [kind |-> "etag", etag |-> e]

Admin(op, k) == Request(op, ByRoot, k)
PutTo(k) == Admin("Put", k)
DeleteOf(k) == Admin("Delete", k)
HoldOn(v, on) == [OfVersion(v, Admin("Hold", 1)) EXCEPT !.flag = on]
RetainOn(v, mode, until) == [OfVersion(v, Admin("Retain", 1)) EXCEPT
                             !.lock = [mode |-> mode, until |-> until]]
Versioning(m) == [Admin("PutVersioning", None) EXCEPT !.doc = m]
PolicyTo(doc) == [Admin("PutPolicy", None) EXCEPT !.doc = doc]
BlockTo(on) == [Admin("PutBlock", None) EXCEPT !.flag = on]

-----------------------------------------------------------------------------
Everybody == [string |-> TRUE, names |-> {<<Star>>}]
Named(u) == [string |-> FALSE, names |-> {<<u>>}]
Stmt(effect, who, act, res) ==
  [effect |-> effect, principal |-> who, actions |-> {act}, resources |-> {res}]
AnyAction == <<s3, Star>>
AnyKey == <<bkt, slash, Star>>
PublicRead == <<Stmt("Allow", Everybody, <<s3, get>>, AnyKey)>>
DenyUser == <<Stmt("Deny", Named(u1), AnyAction, AnyKey), Stmt("Allow", Everybody, AnyAction, AnyKey)>>
DenyDirs == <<Stmt("Allow", Named(u1), AnyAction, <<bkt, Star, 1>>),
              Stmt("Deny", Everybody, AnyAction, <<bkt, Star, slash>>)>>
MCDocs == {PublicRead, DenyUser, DenyDirs}

BucketOf(live, mode, policy, block) ==
  [live |-> live, mode |-> mode, policy |-> policy, block |-> block]
Plain(mode) == BucketOf(TRUE, mode, None, FALSE)
Old(k, v) == NewRow(0, k, v, FALSE, e1)
Held(x) == [x EXCEPT !.hold = TRUE]
Until(x, mode, t) == [x EXCEPT !.retention = [mode |-> mode, until |-> t]]

-----------------------------------------------------------------------------
(* Each scene is a bucket and what up to three requests do to it.  Access  *)
(* keys and the clock stand still (their bounds are used up) where nothing *)
(* depends on them, and requests start out authorized where who they are   *)
(* from is not at issue.                                                   *)

Numbered(rs) == {[rs[i] EXCEPT !.num = i] : i \in DOMAIN rs}
All(a, b, c) == [r \in Requests |-> CASE r = r1 -> a [] r = r2 -> b [] r = r3 -> c]
Scene(t, changes, authorized, bckt, rs, asks) ==
  [now |-> t, acts |-> changes, authorized |-> authorized, bucket |-> bckt, rows |-> Numbered(rs),
   ask |-> asks]
Timed(b, rs, asks) == Scene(0, MaxActs, Requests, b, rs, asks)
Still(b, rs, asks) == Scene(MaxTime, MaxActs, Requests, b, rs, asks)

AccessScenesOf(doc, block) ==
  {Scene(0, 0, {r2}, BucketOf(TRUE, "Disabled", doc, block), <<Old(1, v1)>>, All(a, b, None)) :
     a \in {Request("Get", Unsigned, 1), Request("Get", Presigned, 1), Admin("Get", 1),
            Request("Put", ByUser, 1),
            Request("DeleteMany", ByUser, 1)}
           \cup {Request("PostForm", Form(ks), 1) : ks \in {{}, {1}}},
     b \in {PolicyTo(DenyUser), PolicyTo(PublicRead), Admin("DeletePolicy", None),
            BlockTo(~block)}}
AccessScenes == UNION {AccessScenesOf(doc, block) : doc \in MCDocs \cup {None}, block \in BOOLEAN}

\* The dashboard's requests, with the token of their session and without.
SessionScenes ==
  {Scene(0, 0, {}, Plain("Enabled"), rs, All([a EXCEPT !.sig = Cookie(c1, token)], b, None)) :
     rs \in {<<>>, <<Held(Old(1, v1))>>},
     a \in {Admin("DashDelete", 1), Admin("CreateBucket", None), Admin("DeleteBucket", None),
            Versioning("Suspended")},
     token \in {c1, None}, b \in {PutTo(1), OfVersion(v1, DeleteOf(1))}}

LockScenes ==
  {Timed(Plain("Enabled"), <<x, Old(1, v2)>>, All(a, b, None)) :
     x \in {Held(Old(1, v1)), Until(Old(1, v1), "COMPLIANCE", 1), Until(Old(1, v1), "GOVERNANCE", 2)},
     a \in {OfVersion(v1, [DeleteOf(1) EXCEPT !.bypass = bp]) : bp \in BOOLEAN}
           \cup {DeleteOf(1), OfVersion(v2, DeleteOf(1)), OfVersion(Null, DeleteOf(1))},
     b \in {HoldOn(v1, FALSE), HoldOn(v2, TRUE), HoldOn(None, TRUE), RetainOn(v1, "GOVERNANCE", 0),
            RetainOn(v2, "COMPLIANCE", 2), PutTo(1), Versioning("Suspended"),
            OfVersion(v2, DeleteOf(1))}}
  \cup
  {Timed(Plain("Disabled"), <<x>>, All(DeleteOf(1), b, c)) :
     x \in {Old(1, v1), Held(Old(1, v1))},
     b \in {HoldOn(v1, FALSE), HoldOn(v1, TRUE), RetainOn(v1, "COMPLIANCE", 2)},
     c \in {None, PutTo(1), Versioning("Enabled")}}

\* A bucket that never was versioned has neither null versions nor two of a key.
Left(modes, rss) ==
  {x \in {Plain(mode) : mode \in modes} \X rss :
     x[1].mode = "Disabled" =>
       \A i, j \in DOMAIN x[2] : x[2][i].vid # Null /\ (x[2][i].key = x[2][j].key => i = j)}

CondScenes ==
  {Still(x[1], x[2], All(If(ca, PutTo(1)), b, None)) :
     x \in Left({"Disabled", "Enabled", "Suspended"},
                {<<>>, <<Old(1, v1)>>, <<Old(3, Null)>>, <<NewRow(0, 1, Null, TRUE, None)>>}),
     ca \in {Absent, Etag(e1)},
     b \in {If(Absent, PutTo(1)), If(Etag(e1), PutTo(1)), DeleteOf(1), If(Etag(e2), DeleteOf(1)),
            If(Etag(e1), DeleteOf(1))}}

BucketScenes ==
  {Still(b, <<>>, All(Admin(x, None), Admin(y, None), c)) :
     b \in {NoBucket, BucketOf(TRUE, "Enabled", PublicRead, TRUE)},
     x \in {"CreateBucket", "DeleteBucket"}, y \in {"CreateBucket", "DeleteBucket"},
     c \in {PutTo(1), DeleteOf(1), BlockTo(TRUE), Request("PostForm", Form({1}), 1)}}

ListScenes ==
  {Still(x[1], x[2], All(Admin(list, None), b, c)) :
     list \in Lists,
     x \in Left({"Disabled", "Enabled"},
                {<<Old(1, v1), Old(3, v2)>>,
                 <<Old(3, v1), Old(5, v2), Old(6, Null)>>,
                 <<Old(3, v1), Old(4, Null), Old(3, v2)>>,
                 <<Old(3, v1), NewRow(0, 3, v2, TRUE, None), Old(5, Null)>>}),
     b \in {PutTo(4), DeleteOf(3)}, c \in {None, PutTo(5), DeleteOf(1)}}

MCScenes == AccessScenes \cup SessionScenes \cup LockScenes \cup CondScenes \cup BucketScenes \cup ListScenes
-----------------------------------------------------------------------------
(* The operators of Policy, on every small input: what a policy evaluates  *)
(* to is what it means.                                                    *)

ASSUME ScenesMean == PoliciesMean

\* Two stars, and parts that overlap or repeat.
ASSUME PatternsMean ==
  \A pattern \in BoundedSeq({Star, get, put}, 4), text \in BoundedSeq({get, put}, 4) :
    WildcardMatch(pattern, text) = Glob(pattern, text)

\* Every two statements, in either order, to everybody, under either setting, as
\* long as the only bare string is *.
BareUser == [string |-> TRUE, names |-> {<<u1>>}]
Principals ==
  [string : {FALSE}, names : {{}, {<<Star>>}, {<<u1>>}, {<<Root>>, <<Star>>}}] \cup {Everybody}
Statements ==
  [effect : {"Allow", "Deny"}, principal : Principals, actions : {{<<get>>}, {<<put>>, <<Star>>}},
   resources : {{AnyKey}, {<<bkt, Star, 1>>, <<bkt>>}}]
Asks == [action : {<<get>>, <<put>>}, resource : {<<bkt>>, <<bkt, slash, 1>>, <<bkt, slash, 3>>}]
ASSUME DocsMean ==
  \A doc \in BoundedSeq(Statements, 2), a \in Asks, user \in {u1, Root, Anonymous}, block \in BOOLEAN :
    EvalPolicy(doc, a, user, block) = Meant(doc, a, user, block)

\* Another bare string means one user and matches all: it denies, and allows,
\* those it does not name.
ASSUME BareStringsDiverge ==
  \A effect \in {"Allow", "Deny"}, user \in {Root, Anonymous} :
    LET doc == <<Stmt(effect, BareUser, AnyAction, AnyKey)>>
        a == [action |-> <<s3, get>>, resource |-> <<bkt, slash, 1>>]
    IN EvalPolicy(doc, a, user, TRUE) = effect /\ Meant(doc, a, user, TRUE) = "NoMatch"
=============================================================================
