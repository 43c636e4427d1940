----------------------------- MODULE Admission -----------------------------
(***************************************************************************)
(* The way of a request from its arrival to its handler: the global rate   *)
(* limiter, on some routes the upload limiter, the credential, the bucket  *)
(* the credential is allowed, and the handler's effect.                    *)
(*                                                                         *)
(* Both limiters are fiber's fixed-window limiter, each with a mutex of    *)
(* its own, over one Redis: a counter is read and written in two calls,    *)
(* either of which may fail.  They share RateLimitKey and the keyspace.    *)
(* A credential or a client address is a sequence of symbols, so that      *)
(* cutting one at ':' and dropping characters from the other are what the  *)
(* code does.                                                              *)
(***************************************************************************)
EXTENDS Integers, Sequences, FiniteSets

CONSTANTS
  Symbols,     \* what credentials, addresses and bucket names are made of
  Requests,    \* the requests that may arrive
  Shapes,      \* Shapes[r], what r may be: its route, client, credential, bucket
  MaxHits,     \* MaxHits[l]: RATE_LIMIT and UPLOAD_RATE_LIMIT
  Window,      \* the limiters' window, in ticks
  MaxTime,     \* bound on the clock
  MaxFaults,   \* bound on the Redis calls that fail
  NoRequest    \* who holds a free mutex

Limiters == {"global", "upload"}
Routes == {"read", "health", "operator", "ws", "resize", "write", "upload", "index"}

ASSUME AdmissionAssumption ==
  /\ NoRequest \notin Requests
  /\ MaxHits \in [Limiters -> Nat]
  /\ Window \in Nat \ {0}
  /\ MaxTime \in Nat /\ MaxFaults \in Nat
  /\ \A r \in Requests : \A s \in Shapes[r] :
       /\ s.route \in Routes /\ s.header \in {"none", "malformed", "bearer"}
       /\ {s.raw, s.ip, s.bucket} \subseteq Seq(Symbols)

VARIABLES
  token,      \* TOKEN in the process environment, <<>> when unset
  scoped,     \* bucketTokens: the scoped tokens loaded at boot, by bucket
  now,        \* the clock
  store,      \* Redis: the counter under every sanitized key
  switch,     \* switch[l]: the limiter runs, or boot gave up on Redis
  mutex,      \* mutex[l]: the request in limiter l
  req,        \* req[r]: where the request is, and what it carries
  faults,     \* how many Redis calls failed
  passes      \* history: who was counted by which limiter, when, under which key

admissionVars == <<token, scoped, now, store, switch, mutex, req, faults, passes>>

-----------------------------------------------------------------------------
(* Keys and credentials.                                                   *)

\* The symbols keyPattern removes.  Addresses and names hold no spaces.
Dropped == {":", "|"}

sanitizeKey(key) == SelectSeq(key, LAMBDA ch : ch \notin Dropped)

TokenValid(raw) == raw # <<>> /\ raw = token

\* strings.Cut at the first ':'.
Found(raw) == \E i \in DOMAIN raw : raw[i] = ":"
CutAt(raw) == CHOOSE i \in DOMAIN raw : raw[i] = ":" /\ \A j \in 1 .. i - 1 : raw[j] # ":"
Before(raw) == SubSeq(raw, 1, CutAt(raw) - 1)
After(raw) == SubSeq(raw, CutAt(raw) + 1, Len(raw))

\* Mutation: the expiry is only looked at when the file is loaded.
BucketTokenMatches_eternal(name, secret) ==
  name \in DOMAIN scoped /\ scoped[name].secret = secret

\* An expiry of 0 is no expiry.
BucketTokenMatches(name, secret) ==
  /\ name \in DOMAIN scoped
  /\ scoped[name].secret = secret
  /\ scoped[name].expires = 0 \/ now < scoped[name].expires

\* A request that names no bucket: the empty name.
NoBucket == <<>>

\* The principals: nobody, the general token, or one bucket.
Nobody == [kind |-> "nobody", bucket |-> <<>>]
General == [kind |-> "general", bucket |-> <<>>]
Scoped(b) == [kind |-> "scoped", bucket |-> b]

ResolvePrincipal(s) ==
  IF s.header # "bearer" THEN Nobody
  ELSE IF TokenValid(s.raw) THEN General
  ELSE IF Found(s.raw) /\ BucketTokenMatches(Before(s.raw), After(s.raw))
       THEN Scoped(Before(s.raw))
  ELSE Nobody

RateLimitKey(s) ==
  LET p == ResolvePrincipal(s)
  IN  IF p.kind = "scoped" THEN s.ip \o <<"|", "bucket", ":">> \o p.bucket
      ELSE IF p.kind = "general" THEN s.ip \o <<"|", "general">>
      ELSE s.ip

-----------------------------------------------------------------------------
(* The limiter: fiber's fixed window over RedisStorage.                    *)

\* What Get answers for a key Redis does not hold, or when Redis fails.
NoItem == [hits |-> 0, exp |-> 0]

Stored(key) == IF key \in DOMAIN store THEN store[key] ELSE NoItem

\* Mutation: a window that is over keeps its count.
CountHit_stale(item) ==
  [hits |-> item.hits + 1, exp |-> IF item.exp = 0 \/ now >= item.exp THEN now + Window ELSE item.exp]

\* Mutation: a fresh counter is not given an expiry.
CountHit_eternal(item) ==
  IF item.exp # 0 /\ now >= item.exp
  THEN [hits |-> 1, exp |-> now + Window]
  ELSE [item EXCEPT !.hits = @ + 1]

\* The counter after one more request, at the time of the count.
CountHit(item) ==
  IF item.exp = 0 \/ now >= item.exp
  THEN [hits |-> 1, exp |-> now + Window]
  ELSE [item EXCEPT !.hits = @ + 1]

\* Upload routes, and whatever no earlier route answers, pass a second limiter.
LimitersOf(route) ==
  IF route \in {"upload", "index"} THEN {"global", "upload"} ELSE {"global"}

\* The limiter a request meets next: the global one is mounted first.
First(todo) == IF "global" \in todo THEN "global" ELSE "upload"

Idle == [pc |-> "idle"]

\* Where a request goes next: the limiters left to pass, then its credential.
Onward(todo) == IF todo = {} THEN "auth" ELSE "limit"

\* A limiter that is off only calls the next handler.
Arrive(r, s) ==
  LET todo == {l \in LimitersOf(s.route) : switch[l]}
  IN  /\ req[r].pc = "idle"
      /\ req' = [req EXCEPT ![r] = [pc |-> Onward(todo), shape |-> s, todo |-> todo,
                                    key |-> <<>>, item |-> NoItem, bucket |-> NoBucket,
                                    answer |-> "none", at |-> 0, token |-> <<>>]]
      /\ UNCHANGED <<token, scoped, now, store, switch, mutex, faults, passes>>

RedisCall(ok) == (ok \/ faults < MaxFaults) /\ faults' = faults + (IF ok THEN 0 ELSE 1)

\* The key is generated from the credentials in force on the way into the
\* limiter's mutex, under which the item is read; a failed read is a fresh item.
LimiterGet(r, ok) ==
  LET l == First(req[r].todo)
      key == sanitizeKey(RateLimitKey(req[r].shape))
  IN  /\ req[r].pc = "limit"
      /\ mutex[l] = NoRequest
      /\ mutex' = [mutex EXCEPT ![l] = r]
      /\ req' = [req EXCEPT ![r] = [req[r] EXCEPT !.pc = "set", !.key = key,
                                      !.item = IF ok THEN Stored(key) ELSE NoItem]]
      /\ RedisCall(ok)
      /\ UNCHANGED <<token, scoped, now, store, switch, passes>>

\* Mutation: a request that is over the limit leaves with the mutex.
Unlock_kept(l, over) == mutex' = IF over THEN mutex ELSE [mutex EXCEPT ![l] = NoRequest]

\* Over the limit or not, the mutex is released once the counter is written.
Unlock(l, over) == mutex' = [mutex EXCEPT ![l] = NoRequest]

\* Counted at the time of this step, written back unless Redis fails, which is
\* ignored; over the limit, the request is answered here.
LimiterSet(r, ok) ==
  LET l == First(req[r].todo)
      e == CountHit(req[r].item)
  IN  /\ req[r].pc = "set"
      /\ store' = IF ok THEN [k \in DOMAIN store \cup {req[r].key} |->
                                IF k = req[r].key THEN e ELSE store[k]] ELSE store
      /\ Unlock(l, e.hits > MaxHits[l])
      /\ passes' = passes \cup {[key |-> req[r].key, at |-> now, by |-> r, in |-> l]}
      /\ req' = [req EXCEPT ![r] =
            IF e.hits > MaxHits[l]
            THEN [req[r] EXCEPT !.pc = "done", !.answer = "limited", !.at = now, !.item = NoItem]
            ELSE [req[r] EXCEPT !.pc = Onward(req[r].todo \ {l}), !.todo = @ \ {l},
                                !.key = <<>>, !.item = NoItem]]
      /\ RedisCall(ok)
      /\ UNCHANGED <<token, scoped, now, switch>>

-----------------------------------------------------------------------------
(* The credential, the bucket and the handler.                             *)

\* The answer, with the TOKEN and the time the credential was checked at.  What
\* follows the check touches nothing the model shares until the answer is sent.
Answered(r, answer, bucket) ==
  req' = [req EXCEPT ![r] = [req[r] EXCEPT !.pc = "done", !.answer = answer, !.bucket = bucket,
                                           !.at = now, !.token = token]]

\* Reads and the index page ask for no credential.
ServeOpen(r) ==
  /\ req[r].pc = "auth" /\ req[r].shape.route \in {"read", "index"}
  /\ Answered(r, "served", req[r].shape.bucket)
  /\ UNCHANGED <<token, scoped, now, store, switch, mutex, faults, passes>>

\* MinIO's bucket list, then a write and a read of one Redis key; what S3
\* answers is reported and does not count.
HealthCheck(r, minio, cacheSet, cacheGet) ==
  /\ req[r].pc = "auth" /\ req[r].shape.route = "health"
  /\ Answered(r, IF minio /\ cacheSet /\ cacheGet THEN "healthy" ELSE "degraded", NoBucket)
  /\ UNCHANGED <<token, scoped, now, store, switch, mutex, faults, passes>>

\* The operator routes take the general token only; /ws takes it from the
\* query string, whatever the header is.
GeneralAuthMiddleware(r) ==
  LET s == req[r].shape
      given == s.route = "ws" \/ s.header = "bearer"
  IN  /\ req[r].pc = "auth" /\ s.route \in {"operator", "ws"}
      /\ Answered(r, IF given /\ TokenValid(s.raw) THEN "served" ELSE "unauthorised", s.bucket)
      /\ UNCHANGED <<token, scoped, now, store, switch, mutex, faults, passes>>

\* /resize works on the body it is sent: any credential, and no bucket.
ResizeImage(r) ==
  /\ req[r].pc = "auth" /\ req[r].shape.route = "resize"
  /\ Answered(r, IF ResolvePrincipal(req[r].shape) = Nobody THEN "unauthorised" ELSE "served", NoBucket)
  /\ UNCHANGED <<token, scoped, now, store, switch, mutex, faults, passes>>

\* resolveBucket: a scoped token and a request for another bucket,
Forbidden(p, requested) == p.kind = "scoped" /\ requested \notin {NoBucket, p.bucket}

\* and otherwise the bucket of the request or, when it names none, the token's.
resolveBucket(p, requested) ==
  IF p.kind = "scoped" /\ requested = NoBucket THEN p.bucket ELSE requested

\* A write: its principal, the bucket that principal is allowed, the handler.
\* Without a bucket only a general token comes that far, and is refused.
BucketAuthMiddleware(r) ==
  LET s == req[r].shape
      p == ResolvePrincipal(s)
      b == resolveBucket(p, s.bucket)
  IN  /\ req[r].pc = "auth" /\ s.route \in {"write", "upload"}
      /\ IF p = Nobody THEN Answered(r, "unauthorised", NoBucket)
         ELSE IF Forbidden(p, s.bucket) THEN Answered(r, "forbidden", NoBucket)
         ELSE IF b = NoBucket THEN Answered(r, "bad_request", NoBucket)
         ELSE Answered(r, "served", b)
      /\ UNCHANGED <<token, scoped, now, store, switch, mutex, faults, passes>>

Tick ==
  /\ now < MaxTime
  /\ now' = now + 1
  /\ UNCHANGED <<token, scoped, store, switch, mutex, req, faults, passes>>

\* One step of request r's goroutine.
Step(r) ==
  \/ \E ok \in BOOLEAN : LimiterGet(r, ok) \/ LimiterSet(r, ok)
  \/ ServeOpen(r)
  \/ \E minio, cacheSet, cacheGet \in BOOLEAN : HealthCheck(r, minio, cacheSet, cacheGet)
  \/ GeneralAuthMiddleware(r)
  \/ ResizeImage(r)
  \/ BucketAuthMiddleware(r)

InFlight == {r \in Requests : req[r].pc \notin {"idle", "done"}}

-----------------------------------------------------------------------------
(* What admission promises.                                                *)

\* The credential raw gave, at the time and under the TOKEN of the check: the
\* general token, or the scoped token of b while it lived.
IsGeneral(r) == req[r].token # <<>> /\ req[r].shape.raw = req[r].token
ScopedTo(r, b) ==
  /\ b \in DOMAIN scoped
  /\ req[r].shape.raw = b \o <<":">> \o scoped[b].secret
  /\ scoped[b].expires = 0 \/ req[r].at < scoped[b].expires

\* A write, an upload, a resize and an operator's request are served only to a
\* credential that allowed exactly that when it was checked: a scoped token
\* its own bucket and no operator route, whatever bucket the request names,
\* whenever TOKEN is reloaded and the scoped token expires (principal.go,
\* tokens.go BucketTokenMatchesAt, bucket_context.go resolveBucket).
EffectsAuthorised ==
  \A r \in Requests : req[r].pc = "done" /\ req[r].answer = "served" =>
    LET s == req[r].shape
    IN  /\ s.route \in {"operator", "ws"} => IsGeneral(r)
        /\ s.route = "resize" => IsGeneral(r) \/ \E b \in DOMAIN scoped : ScopedTo(r, b)
        /\ s.route \in {"write", "upload"} =>
              /\ IsGeneral(r) \/ ScopedTo(r, req[r].bucket)
              /\ s.bucket # NoBucket => req[r].bucket = s.bucket

\* The requests counted under r's key in the window that ends with r's refusal.
CountedWith(r) ==
  {p.by : p \in {c \in passes : c.key = req[r].key /\ c.at > req[r].at - Window /\ c.at <= req[r].at}}

\* q is counted once, and comes from the address r comes from.
CountsAsOne(q, r) ==
  LimitersOf(req[q].shape.route) = {"global"} /\ req[q].shape.ip = req[r].shape.ip

\* "Global: 100 requests per minute per IP": a request is turned away only when
\* more requests than RATE_LIMIT came from its address within the window that
\* ends with it; lost updates, failed Redis calls and windows that end in
\* between never add to a counter (security.go NewAdvancedRateLimiter).  Said
\* of the counters that no request is counted in twice, as uploads are, and
\* that no other address shares (sanitizeKey).
RefusedOnlyOverLimit ==
  \A r \in Requests :
    /\ req[r].pc = "done" /\ req[r].answer = "limited"
    /\ \A q \in {r} \cup CountedWith(r) : CountsAsOne(q, r)
    => Cardinality(CountedWith(r)) > MaxHits["global"]

=============================================================================
