SPECIFICATION Spec
CONSTANTS
  Star = Star
  Anonymous = Anonymous
  None = None
  Users = {u1}
  Root = Root
  Requests = {r1, r2, r3}
  Scenes <- MCScenes
  Null = Null
  Versions = {r1, r2, r3, v1, v2, Null}
  Etags = {e1, e2}
  Docs <- MCDocs
  DirOf <- MCDirOf
  MaxKeys = 2
  Rounds = 2
  FetchFactor = 1
  FetchSlack = 0
  FetchCap = 3
  MaxSkew = 1
  MaxTime = 2
  MaxActs = 2
  MaxFailures = 1
  Sessions = {c1}
  SessionTTL = 1
  u1 = u1
  c1 = c1
  r1 = r1
  r2 = r2
  r3 = r3
  v1 = v1
  v2 = v2
  e1 = e1
  e2 = e2
  bkt = bkt
  slash = slash
  s3 = s3
  get = get
  put = put
  del = del
  admin = admin
CHECK_DEADLOCK FALSE
INVARIANTS TypeOK NothingOutlivesBucket ListingExact
PROPERTIES GrantHadGrounds RefusalHadGrounds  ConditionHeld PageAdvances
