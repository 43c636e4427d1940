---------------------------- MODULE ArchiveLayout ----------------------------
(***************************************************************************)
(* Where an object lies in the archive (service/archive.go).  Buckets and  *)
(* object keys are sequences of symbols, so that prefixing a key with its  *)
(* bucket, and cutting the prefix off again, are what the code does.       *)
(*                                                                         *)
(* dest is ARCHIVE_BUCKET, <<>> when it is not set; only is the parsed     *)
(* ARCHIVE_ONLY_BUCKETS.  A stored object is <<bucket, key, body>>.        *)
(***************************************************************************)
EXTENDS Naturals, Sequences

Slash == <<"/">>

\* The credentials of the environment are there and not the example file's.
archiveConfigured(e) == e.enabled /\ \A v \in e.credentials : v \notin {"", "placeholder"}

\* The entries that are not blank; none at all is no limit.
parseBucketScope(raw) == {raw[i] : i \in DOMAIN raw} \ {<<>>}

InScope(e, b) ==
  /\ archiveConfigured(e)
  /\ parseBucketScope(e.only) = {} \/ b \in parseBucketScope(e.only)

\* Mutation: the bucket's prefix without its separator.
resolve_unseparated(dest, b, o) ==
  IF dest # <<>> THEN <<dest, b \o o>> ELSE <<b, o>>

resolve(dest, b, o) ==
  IF dest # <<>> THEN <<dest, b \o Slash \o o>> ELSE <<b, o>>

\* What is stored there.
ObjectAt(dest, b, o, body) == LET at == resolve(dest, b, o) IN <<at[1], at[2], body>>

HasPrefix(s, p) == Len(p) <= Len(s) /\ SubSeq(s, 1, Len(p)) = p
TrimPrefix(s, p) == IF HasPrefix(s, p) THEN SubSeq(s, Len(p) + 1, Len(s)) ELSE s

\* Walk: what the archive s3 holds for bucket b, as local keys.
Walk(s3, dest, b) ==
  LET at == resolve(dest, b, <<>>)
      listed == {o \in s3 : o[1] = at[1] /\ HasPrefix(o[2], at[2])}
  IN  {<<TrimPrefix(o[2], at[2]), o[3]>> : o \in {p \in listed : p[2] # at[2]}}
=============================================================================
