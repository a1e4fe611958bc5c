---------------------------- MODULE VersionStore ----------------------------
(***************************************************************************)
(* What TeleCrate promises its S3 clients about one bucket: a version      *)
(* holds exactly the bytes of the request that wrote it from the moment    *)
(* the write is acknowledged until it is replaced or deleted, and a delete *)
(* that names no version forgets versions of an unversioned bucket only.   *)
(* There is no spool, no upload job, no Telegram, no garbage collector and *)
(* no crash.                                                               *)
(***************************************************************************)
EXTENDS Naturals

CONSTANTS Keys, Requests, NumChunks, Null, None, Modes

VARIABLES
  mode,      \* the versioning status of the bucket
  versions,  \* by version id
  clock,     \* versions ever written
  done       \* requests that took effect or failed

vars == <<mode, versions, clock, done>>

Ids == Requests \cup {Null}
NoVersion == [kind |-> "none", key |-> None, seq |-> 0, body |-> None]
Sent(r) == [c \in 1..NumChunks |-> <<r, c>>]

VersionsOf(k) == {i \in Ids : versions[i].kind # "none" /\ versions[i].key = k}
Without(S) == [i \in Ids |-> IF i \in S THEN NoVersion ELSE versions[i]]

\* An Enabled bucket keeps every version, a Suspended one has a single null
\* version per key, an unversioned one a single version per key.
Replaced(k) == {i \in VersionsOf(k) : \/ mode = "Disabled"
                                      \/ mode = "Suspended" /\ i = Null}

Init ==
  /\ mode = "Disabled"
  /\ versions = [i \in Ids |-> NoVersion]
  /\ clock = 0
  /\ done = {}

SetVersioning(m) ==
  /\ mode' = m
  /\ UNCHANGED <<versions, clock, done>>

Write(r, i, k, kind, body) ==
  /\ r \notin done
  /\ versions[i].kind = "none" \/ i \in Replaced(k)
  /\ clock' = clock + 1
  /\ versions' = [Without(Replaced(k)) EXCEPT
                    ![i] = [kind |-> kind, key |-> k, seq |-> clock + 1, body |-> body]]
  /\ done' = done \cup {r}
  /\ UNCHANGED mode

Put(r, k) == Write(r, IF mode = "Suspended" THEN Null ELSE r, k, "data", Sent(r))
Mark(r, k) == Write(r, IF mode = "Enabled" THEN r ELSE Null, k, "marker", None)

\* Versions are forgotten without a trace one by one, or all those of a key of
\* an unversioned bucket.
Drop(r, S) ==
  /\ r \notin done
  /\ versions' = Without(S)
  /\ done' = done \cup {r}
  /\ UNCHANGED <<mode, clock>>

DropAll(r, k) == mode = "Disabled" /\ Drop(r, VersionsOf(k))

\* Requests that fail leave the bucket as it was.
Fail(R) ==
  /\ done' = done \cup R
  /\ UNCHANGED <<mode, versions, clock>>

Next ==
  \/ \E m \in Modes : SetVersioning(m)
  \/ \E r \in Requests, k \in Keys : Put(r, k) \/ Mark(r, k) \/ DropAll(r, k)
  \/ \E r \in Requests, i \in Ids : Drop(r, {i})
  \/ \E R \in SUBSET Requests : Fail(R)

Spec == Init /\ [][Next]_vars
=============================================================================
