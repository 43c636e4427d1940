----------------------------- MODULE ServerProofs -----------------------------
(***************************************************************************)
(* Proofs about Server and the admission of its requests, for any          *)
(* requests, credentials, limits, window and number of faults.             *)
(***************************************************************************)
EXTENDS Server, SequenceTheorems, FiniteSetTheorems, FunctionTheorems, TLAPS

-----------------------------------------------------------------------------
(* Credentials.                                                            *)

\* strings.Cut and its inverse: what is before the first ':' and what is after
\* it make up the credential.
LEMMA CutJoins ==
  ASSUME NEW raw \in Seq(Symbols), Found(raw)
  PROVE  raw = Before(raw) \o <<":">> \o After(raw)
<1>1. PICK c \in 1 .. Len(raw) : c = CutAt(raw) /\ raw[c] = ":"
  <2> DEFINE T == {i \in 1 .. Len(raw) : raw[i] = ":"}
  <2>1. T # {} /\ T \subseteq Nat
    BY DEF Found
  <2>2. PICK m \in T : \A y \in T : ~ (<<y, m>> \in OpToRel(<, Nat))
    BY <2>1, NatLessThanWellFounded, WFMin
  <2>3. \A j \in 1 .. m - 1 : raw[j] # ":"
    <3> SUFFICES ASSUME NEW j \in 1 .. m - 1, raw[j] = ":"
                 PROVE  FALSE
      OBVIOUS
    <3>1. j \in T /\ j < m /\ j \in Nat /\ m \in Nat
      OBVIOUS
    <3>2. <<j, m>> \in OpToRel(<, Nat)
      BY <3>1 DEF OpToRel
    <3>3. QED
      BY <2>2, <3>1, <3>2
  <2>4. m \in DOMAIN raw /\ raw[m] = ":" /\ DOMAIN raw = 1 .. Len(raw)
    OBVIOUS
  <2>5. CutAt(raw) \in DOMAIN raw /\ raw[CutAt(raw)] = ":"
    BY <2>3, <2>4 DEF CutAt
  <2>6. QED
    BY <2>4, <2>5
<1> DEFINE n == Len(raw)
<1>2. n \in Nat /\ c \in Nat \ {0} /\ n \in c .. n /\ \A i \in 1 .. n : raw[i] \in Symbols
  OBVIOUS
<1>3. raw = Before(raw) \o SubSeq(raw, c, n)
  <2>1. raw = SubSeq(raw, 1, n)
    BY SubSeqFull
  <2>2. SubSeq(raw, 1, n) = SubSeq(raw, 1, c - 1) \o SubSeq(raw, c, n)
    OBVIOUS
  <2>3. QED
    BY <1>1, <2>1, <2>2 DEF Before
<1>4. SubSeq(raw, c, n) = <<":">> \o After(raw)
  BY <1>1, <1>2, SubSeqRecursiveFirst DEF After
<1>5. Before(raw) \in Seq(Symbols) /\ After(raw) \in Seq(Symbols) /\ <<":">> \in Seq(Symbols)
  <2>1. Before(raw) \in Seq(Symbols)
    BY <1>1, <1>2, SubSeqProperties DEF Before
  <2>2. After(raw) \in Seq(Symbols)
    BY <1>1, <1>2, SubSeqProperties DEF After
  <2>3. <<":">> \in Seq(Symbols)
    BY <1>1, <1>2
  <2>4. QED
    BY <2>1, <2>2, <2>3
<1>6. (Before(raw) \o <<":">>) \o After(raw) = Before(raw) \o (<<":">> \o After(raw))
  BY <1>5, ConcatAssociative
<1>7. QED
  BY <1>3, <1>4, <1>6, Zenon

-----------------------------------------------------------------------------
(* The inductive invariant.                                                *)

\* A request that has arrived carries every field.
Live(q) ==
  q = [pc |-> q.pc, shape |-> q.shape, todo |-> q.todo, key |-> q.key, item |-> q.item,
       bucket |-> q.bucket, answer |-> q.answer, at |-> q.at, token |-> q.token]

ReqForm ==
  /\ req = [r \in Requests |-> req[r]]
  /\ \A r \in Requests :
       \/ req[r] = Idle
       \/ /\ Live(req[r])
          /\ req[r].shape \in Shapes[r]
          /\ req[r].pc \in {"limit", "set", "auth", "done"}
          /\ req[r].todo \subseteq Limiters
          /\ req[r].pc \in {"limit", "set"} => First(req[r].todo) \in req[r].todo

\* The history of counts is finite, and none is in the future.
PassesForm == IsFiniteSet(passes) /\ \A p \in passes : p.at \in Nat /\ p.at <= now

\* The counts under key k that a window ending at e has seen.
Since(k, e) == {p \in passes : p.key = k /\ p.at + Window >= e}

\* A counter, in Redis or in the hands of a limiter, is never ahead of the counts
\* its window has seen.
Backed(k, item) ==
  /\ item \in [hits : Nat, exp : Nat]
  /\ item.exp <= now + Window
  /\ item.exp # 0 => item.exp >= Window /\ item.hits > 0
  /\ item.hits <= Cardinality(Since(k, item.exp))

StoreBacked == \A k \in DOMAIN store : Backed(k, store[k]) /\ store[k].exp # 0
ItemsBacked == \A r \in Requests : req[r].pc = "set" => Backed(req[r].key, req[r].item)

\* A limiter counts a request once.
CountedOnce ==
  \A p \in passes : \A r \in Requests : p.by = r =>
    /\ req[r] # Idle
    /\ req[r].pc \in {"limit", "set"} => p.in \notin req[r].todo

\* No request arrives before the tokens are loaded.
BootQuiet ==
  main \in {"load_env", "check_token", "load_tokens", "spawn", "limiters"} =>
    ~listening /\ \A r \in Requests : req[r] = Idle

\* A request is refused only by a counter that is over the limit of the limiter
\* that refused it, in limiters passed.
RefusedOverCount ==
  \A r \in Requests : req[r].pc = "done" /\ req[r].answer = "limited" =>
    Cardinality({p \in passes : /\ p.key = req[r].key
                                /\ p.at > req[r].at - Window
                                /\ p.at <= req[r].at}) > MaxHits[First(req[r].todo)]

ServerInv ==
  /\ TypeOK /\ ReqForm /\ PassesForm /\ StoreBacked /\ ItemsBacked /\ CountedOnce /\ BootQuiet
  /\ RefusedOverCount /\ EffectsAuthorised

\* The process starts with nobody served.
LEMMA ServerInitInv == Init => ServerInv
<1> SUFFICES ASSUME Init
             PROVE  ServerInv
  OBVIOUS
<1>1. DOMAIN store = {} /\ passes = {} /\ now = 0
  BY DEF Init
<1>2. \A r \in Requests : req[r] = Idle /\ req[r].pc = "idle"
  BY DEF Init, Idle
<1>3. TypeOK
  <2>1. now \in 0 .. MaxTime /\ edits \in 0 .. MaxEdits
    BY AdmissionAssumption, ServerAssumption DEF Init
  <2>2. \A k \in DOMAIN store : store[k].hits > 0 /\ store[k].exp \in Window .. MaxTime + Window
    BY <1>1
  <2>3. switch \in [Limiters -> BOOLEAN] /\ mutex \in [Limiters -> Requests \cup {NoRequest}]
    BY DEF Init
  <2>4. {dirty, ctxDone, listening} \subseteq BOOLEAN
    BY DEF Init
  <2>5. token \in BootTokens \cup EnvTokens /\ envFile \in EnvTokens
    BY DEF Init
  <2>6. QED
    BY <2>1, <2>2, <2>3, <2>4, <2>5 DEF Init, TypeOK
<1>4. ReqForm
  BY <1>2 DEF Init, ReqForm
<1>5. PassesForm
  BY <1>1, FS_EmptySet DEF PassesForm
<1>6. StoreBacked /\ ItemsBacked /\ CountedOnce
  BY <1>1, <1>2 DEF StoreBacked, ItemsBacked, CountedOnce
<1>7. BootQuiet
  BY <1>2 DEF Init, BootQuiet
<1>8. RefusedOverCount /\ EffectsAuthorised
  BY <1>2 DEF RefusedOverCount, EffectsAuthorised
<1>9. QED
  BY <1>3, <1>4, <1>5, <1>6, <1>7, <1>8 DEF ServerInv

\* Counts are only added, so no set of them shrinks.
LEMMA CountsGrow ==
  ASSUME PassesForm, PassesForm', passes \subseteq passes'
  PROVE  /\ \A k, e : Cardinality(Since(k, e)) \in Nat /\ Cardinality(Since(k, e)') \in Nat
                      /\ Cardinality(Since(k, e)) <= Cardinality(Since(k, e)')
         /\ \A k, t : LET S == {p \in passes : p.key = k /\ p.at > t - Window /\ p.at <= t}
                          T == {p \in passes' : p.key = k /\ p.at > t - Window /\ p.at <= t}
                      IN  Cardinality(S) \in Nat /\ Cardinality(T) \in Nat /\ Cardinality(S) <= Cardinality(T)
<1>1. IsFiniteSet(passes) /\ IsFiniteSet(passes')
  BY DEF PassesForm
<1>2. ASSUME NEW S, NEW T, S \subseteq T, T \subseteq passes'
      PROVE  Cardinality(S) \in Nat /\ Cardinality(T) \in Nat /\ Cardinality(S) <= Cardinality(T)
  BY <1>1, <1>2, FS_Subset, FS_CardinalityType
<1>3. \A k, e : Since(k, e) \subseteq Since(k, e)' /\ Since(k, e)' \subseteq passes'
  BY DEF Since
<1>4. \A k, t : LET S == {p \in passes : p.key = k /\ p.at > t - Window /\ p.at <= t}
                    T == {p \in passes' : p.key = k /\ p.at > t - Window /\ p.at <= t}
                IN  S \subseteq T /\ T \subseteq passes'
  OBVIOUS
<1>5. QED
  BY <1>2, <1>3, <1>4

\* A counter stays backed while time passes and counts are added.
LEMMA BackedGrows ==
  ASSUME PassesForm, PassesForm', passes \subseteq passes', now \in Nat, now' \in Nat, now <= now',
         NEW k, NEW item, Backed(k, item)
  PROVE  Backed(k, item)'
<1>1. Cardinality(Since(k, item.exp)) <= Cardinality(Since(k, item.exp)')
      /\ Cardinality(Since(k, item.exp)) \in Nat /\ Cardinality(Since(k, item.exp)') \in Nat
  BY CountsGrow
<1>2. item \in [hits : Nat, exp : Nat] /\ item.exp <= now + Window /\ item.hits <= Cardinality(Since(k, item.exp))
      /\ (item.exp # 0 => item.exp >= Window /\ item.hits > 0)
  BY DEF Backed
<1>3. item.exp <= now' + Window /\ item.hits <= Cardinality(Since(k, item.exp)')
  BY <1>1, <1>2, AdmissionAssumption
<1>4. QED
  BY <1>2, <1>3 DEF Backed

-----------------------------------------------------------------------------
(* One request's step.                                                     *)

\* What EffectsAuthorised asks of one record.
Allowed(entries, q) ==
  /\ q.shape.route \in {"operator", "ws"} => q.token # <<>> /\ q.shape.raw = q.token
  /\ q.shape.route = "resize" =>
       \/ q.token # <<>> /\ q.shape.raw = q.token
       \/ \E b \in DOMAIN entries :
            /\ q.shape.raw = b \o <<":">> \o entries[b].secret
            /\ entries[b].expires = 0 \/ q.at < entries[b].expires
  /\ q.shape.route \in {"write", "upload"} =>
       /\ \/ q.token # <<>> /\ q.shape.raw = q.token
          \/ /\ q.bucket \in DOMAIN entries
             /\ q.shape.raw = q.bucket \o <<":">> \o entries[q.bucket].secret
             /\ entries[q.bucket].expires = 0 \/ q.at < entries[q.bucket].expires
       /\ q.shape.bucket # NoBucket => q.bucket = q.shape.bucket

\* What RefusedOverCount asks of one record.
OverLimit(counts, q) ==
  Cardinality({p \in counts : p.key = q.key /\ p.at > q.at - Window /\ p.at <= q.at})
    > MaxHits[First(q.todo)]

\* The two promises, record by record.
LEMMA PromisesByRecord ==
  /\ EffectsAuthorised <=>
       \A r \in Requests : req[r].pc = "done" /\ req[r].answer = "served" => Allowed(scoped, req[r])
  /\ RefusedOverCount <=>
       \A r \in Requests : req[r].pc = "done" /\ req[r].answer = "limited" => OverLimit(passes, req[r])
BY Zenon DEF EffectsAuthorised, IsGeneral, ScopedTo, Allowed, RefusedOverCount, OverLimit

\* What a record of a live request is, wherever the request stands.
Placed(r, q) ==
  /\ Live(q)
  /\ q.shape \in Shapes[r]
  /\ q.pc \in {"limit", "set", "auth", "done"}
  /\ q.todo \subseteq Limiters
  /\ q.pc \in {"limit", "set"} => First(q.todo) \in q.todo

\* A request that stands anywhere but at the start is placed.
LEMMA PlacedRequest ==
  ASSUME ReqForm, NEW r \in Requests, req[r].pc # "idle"
  PROVE  Placed(r, req[r]) /\ req[r] # Idle
BY DEF ReqForm, Placed, Idle

\* The next limiter is one of those left, if any is.
LEMMA FirstLeft ==
  ASSUME NEW todo, todo \subseteq Limiters
  PROVE  First(todo) \in Limiters /\ (todo # {} => First(todo) \in todo)
BY DEF First, Limiters

\* A step of one request replaces its record and no other.
LEMMA OneRecord ==
  ASSUME ReqForm, NEW r \in Requests, NEW n, Placed(r, n), req' = [req EXCEPT ![r] = n]
  PROVE  /\ ReqForm'
         /\ req'[r] = n
         /\ \A x \in Requests : x # r => req'[x] = req[x]
<1>1. req = [x \in Requests |-> req[x]]
  BY DEF ReqForm
<1>2. req' = [x \in Requests |-> IF x = r THEN n ELSE req[x]]
  BY <1>1
<1>3. req'[r] = n /\ \A x \in Requests : x # r => req'[x] = req[x]
  BY <1>2
<1>4. req' = [x \in Requests |-> req'[x]]
  BY <1>2
<1>5. ReqForm'
  BY <1>3, <1>4 DEF ReqForm, Placed, Idle, Live, First
<1>6. QED
  BY <1>3, <1>5

\* A step that moves one request and counts nothing keeps everything but the
\* types of the other variables.
LEMMA QuietStep ==
  ASSUME ServerInv, NEW r \in Requests, NEW n, Placed(r, n), req' = [req EXCEPT ![r] = n],
         UNCHANGED <<scoped, now, store, passes, main, listening>>,
         listening \/ req[r] # Idle,
         n.pc = "set" => Backed(n.key, n.item),
         req[r] = Idle \/ n.pc = "done" \/ (req[r].pc \in {"limit", "set"} /\ n.todo = req[r].todo),
         n.pc = "done" => n.answer # "limited",
         n.pc = "done" /\ n.answer = "served" => Allowed(scoped, n)
  PROVE  /\ ReqForm' /\ PassesForm' /\ StoreBacked' /\ ItemsBacked' /\ CountedOnce' /\ BootQuiet'
         /\ RefusedOverCount' /\ EffectsAuthorised'
<1>1. ReqForm' /\ req'[r] = n /\ \A x \in Requests : x # r => req'[x] = req[x]
  BY OneRecord DEF ServerInv
<1>2. PassesForm'
  BY DEF ServerInv, PassesForm
<1>3. \A k, item : Backed(k, item)' <=> Backed(k, item)
  BY DEF Backed, Since
<1>4. StoreBacked'
  BY <1>3 DEF ServerInv, StoreBacked
<1>5. ItemsBacked'
  BY <1>1, <1>3 DEF ServerInv, ItemsBacked
<1>6. n # Idle
  BY DEF Placed, Live, Idle
<1>7. CountedOnce'
  BY <1>1, <1>6 DEF ServerInv, CountedOnce
<1>8. BootQuiet'
  BY DEF ServerInv, BootQuiet
<1>9. RefusedOverCount'
  <2> SUFFICES ASSUME NEW x \in Requests, req'[x].pc = "done", req'[x].answer = "limited"
               PROVE  OverLimit(passes', req'[x])
    BY Zenon DEF RefusedOverCount, OverLimit
  <2>1. x # r /\ req'[x] = req[x]
    BY <1>1
  <2>2. OverLimit(passes, req[x])
    BY <2>1, PromisesByRecord DEF ServerInv
  <2>3. QED
    BY <2>1, <2>2, Zenon
<1>10. EffectsAuthorised'
  <2> SUFFICES ASSUME NEW x \in Requests, req'[x].pc = "done", req'[x].answer = "served"
               PROVE  Allowed(scoped', req'[x])
    BY Zenon DEF EffectsAuthorised, IsGeneral, ScopedTo, Allowed
  <2>1. Allowed(scoped, req'[x])
    BY <1>1, PromisesByRecord DEF ServerInv
  <2>2. QED
    BY <2>1, Zenon
<1>11. QED
  BY <1>1, <1>2, <1>4, <1>5, <1>7, <1>8, <1>9, <1>10

\* A counter Redis does not have is backed, and so is what Get answers.
LEMMA ReadBacked ==
  ASSUME ServerInv, NEW k
  PROVE  Backed(k, NoItem) /\ Backed(k, Stored(k))
<1>1. now \in Nat /\ Window \in Nat /\ PassesForm
  BY AdmissionAssumption DEF ServerInv, TypeOK
<1>2. Cardinality(Since(k, 0)) \in Nat
  <2>1. Since(k, 0) \subseteq passes /\ IsFiniteSet(passes)
    BY <1>1 DEF Since, PassesForm
  <2>2. QED
    BY <2>1, FS_Subset, FS_CardinalityType
<1>3. Backed(k, NoItem)
  BY <1>1, <1>2 DEF Backed, NoItem
<1>4. Backed(k, Stored(k))
  BY <1>3 DEF Stored, ServerInv, StoreBacked
<1>5. QED
  BY <1>3, <1>4

\* A request arrives and is placed before its first limiter or its credential.
LEMMA AcceptKeeps ==
  ASSUME ServerInv, NEW r \in Requests, Accept(r)
  PROVE  ServerInv'
<1>1. PICK s \in Shapes[r] : Arrive(r, s)
  BY DEF Accept
<1>2. PICK todo : todo = {l \in LimitersOf(s.route) : switch[l]}
  OBVIOUS
<1>3. PICK n : n = [pc |-> Onward(todo), shape |-> s, todo |-> todo, key |-> <<>>, item |-> NoItem,
                    bucket |-> NoBucket, answer |-> "none", at |-> 0, token |-> <<>>]
  OBVIOUS
<1>4. req' = [req EXCEPT ![r] = n] /\ req[r].pc = "idle"
  BY <1>1, <1>2, <1>3 DEF Arrive
<1>5. todo \subseteq Limiters
  BY <1>2 DEF LimitersOf, Limiters
<1>6. Placed(r, n)
  <2>1. Live(n)
    BY <1>3 DEF Live
  <2>2. n.pc \in {"limit", "auth"} /\ (n.pc = "limit" => todo # {})
    BY <1>3 DEF Onward
  <2>3. n.todo = todo /\ n.shape \in Shapes[r]
    BY <1>3
  <2>4. QED
    BY <1>5, <2>1, <2>2, <2>3, FirstLeft DEF Placed
<1>7. req[r] = Idle
  BY <1>4, PlacedRequest DEF ServerInv, ReqForm, Placed
<1>8. n.pc \notin {"set", "done"}
  BY <1>3 DEF Onward
<1>9. UNCHANGED <<scoped, now, store, passes, main, listening>> /\ listening
  BY <1>1 DEF Accept, Arrive, processVars
<1>10. TypeOK'
  BY <1>1 DEF Accept, Arrive, processVars, ServerInv, TypeOK
<1>11. QED
  BY <1>4, <1>6, <1>7, <1>8, <1>9, <1>10, QuietStep DEF ServerInv

\* The counter is read under the mutex.
LEMMA LimiterGetKeeps ==
  ASSUME ServerInv, NEW r \in Requests, NEW ok \in BOOLEAN, LimiterGet(r, ok), UNCHANGED processVars
  PROVE  ServerInv'
<1>1. req[r].pc = "limit"
  BY DEF LimiterGet
<1>2. Placed(r, req[r]) /\ req[r] # Idle
  BY <1>1, PlacedRequest DEF ServerInv
<1>3. PICK key : key = sanitizeKey(RateLimitKey(req[r].shape))
  OBVIOUS
<1>4. PICK item : item = IF ok THEN Stored(key) ELSE NoItem
  OBVIOUS
<1>5. PICK n : n = [req[r] EXCEPT !.pc = "set", !.key = key, !.item = item]
  OBVIOUS
<1>6. req' = [req EXCEPT ![r] = n]
  BY <1>3, <1>4, <1>5 DEF LimiterGet
<1>7. n = [pc |-> "set", shape |-> req[r].shape, todo |-> req[r].todo, key |-> key, item |-> item,
           bucket |-> req[r].bucket, answer |-> req[r].answer, at |-> req[r].at, token |-> req[r].token]
  BY <1>2, <1>5 DEF Placed, Live
<1>8. Placed(r, n) /\ n.pc = "set" /\ n.key = key /\ n.item = item /\ n.todo = req[r].todo
  BY <1>1, <1>2, <1>7 DEF Placed, Live
<1>9. Backed(key, item)
  BY <1>4, ReadBacked
<1>10. UNCHANGED <<scoped, now, store, passes, main, listening>>
  BY DEF LimiterGet, processVars
<1>11. TypeOK'
  <2>1. First(req[r].todo) \in Limiters
    BY <1>2, FirstLeft DEF Placed
  <2>2. mutex' \in [Limiters -> Requests \cup {NoRequest}]
    BY <2>1 DEF LimiterGet, ServerInv, TypeOK
  <2>3. QED
    BY <2>2 DEF LimiterGet, processVars, ServerInv, TypeOK
<1>12. QED
  BY <1>1, <1>2, <1>6, <1>8, <1>9, <1>10, <1>11, QuietStep DEF ServerInv

\* The last step of a request keeps everything when what it serves is allowed.
LEMMA AnswerKeeps ==
  ASSUME ServerInv, NEW r \in Requests, NEW answer, NEW bucket, Answered(r, answer, bucket),
         req[r].pc = "auth", answer # "limited",
         UNCHANGED <<token, scoped, now, store, switch, mutex, faults, passes>>, UNCHANGED processVars,
         answer = "served" =>
           Allowed(scoped, [req[r] EXCEPT !.pc = "done", !.answer = answer, !.bucket = bucket,
                                          !.at = now, !.token = token])
  PROVE  ServerInv'
<1>1. PICK n : n = [req[r] EXCEPT !.pc = "done", !.answer = answer, !.bucket = bucket,
                                  !.at = now, !.token = token]
  OBVIOUS
<1>2. req' = [req EXCEPT ![r] = n]
  BY <1>1 DEF Answered
<1>3. Placed(r, req[r]) /\ req[r] # Idle
  BY PlacedRequest DEF ServerInv
<1>4. Placed(r, n) /\ n.pc = "done" /\ n.answer = answer
  BY <1>1, <1>3 DEF Placed, Live
<1>5. answer = "served" => Allowed(scoped, n)
  BY <1>1
<1>6. UNCHANGED <<scoped, now, store, passes, main, listening>>
  BY DEF processVars
<1>7. TypeOK'
  BY DEF processVars, ServerInv, TypeOK
<1>8. QED
  BY <1>2, <1>3, <1>4, <1>5, <1>6, <1>7, QuietStep DEF ServerInv

\* What the record of an answered request says.
LEMMA AnswerFields ==
  ASSUME NEW q, Live(q), NEW answer, NEW bucket
  PROVE  LET n == [q EXCEPT !.pc = "done", !.answer = answer, !.bucket = bucket, !.at = now, !.token = token]
         IN  n.shape = q.shape /\ n.bucket = bucket /\ n.at = now /\ n.token = token
BY DEF Live

\* Open routes and the health check serve nothing that needs a credential.
LEMMA OpenKeeps ==
  ASSUME ServerInv, NEW r \in Requests, UNCHANGED processVars,
         \/ ServeOpen(r)
         \/ \E minio, cacheSet, cacheGet \in BOOLEAN : HealthCheck(r, minio, cacheSet, cacheGet)
  PROVE  ServerInv'
<1>1. CASE ServeOpen(r)
  <2>1. Placed(r, req[r])
    BY <1>1, PlacedRequest DEF ServerInv, ServeOpen
  <2>2. PICK n : n = [req[r] EXCEPT !.pc = "done", !.answer = "served", !.bucket = req[r].shape.bucket,
                                    !.at = now, !.token = token]
    OBVIOUS
  <2>3. n.shape = req[r].shape
    BY <2>1, <2>2, AnswerFields DEF Placed
  <2>4. Allowed(scoped, n)
    BY <1>1, <2>3 DEF ServeOpen, Allowed
  <2>5. QED
    BY <1>1, <2>2, <2>4, AnswerKeeps DEF ServeOpen
<1>2. CASE \E minio, cacheSet, cacheGet \in BOOLEAN : HealthCheck(r, minio, cacheSet, cacheGet)
  <2>1. PICK answer \in {"healthy", "degraded"} : Answered(r, answer, NoBucket)
    BY <1>2 DEF HealthCheck
  <2>2. QED
    BY <1>2, <2>1, AnswerKeeps DEF HealthCheck
<1>3. QED
  BY <1>1, <1>2

\* The operator routes serve the general token only.
LEMMA GeneralKeeps ==
  ASSUME ServerInv, NEW r \in Requests, UNCHANGED processVars, GeneralAuthMiddleware(r)
  PROVE  ServerInv'
<1>1. Placed(r, req[r])
  BY PlacedRequest DEF ServerInv, GeneralAuthMiddleware
<1>2. PICK answer \in {"served", "unauthorised"} :
        /\ Answered(r, answer, req[r].shape.bucket)
        /\ answer = "served" => TokenValid(req[r].shape.raw)
  BY DEF GeneralAuthMiddleware
<1>3. PICK n : n = [req[r] EXCEPT !.pc = "done", !.answer = answer, !.bucket = req[r].shape.bucket,
                                  !.at = now, !.token = token]
  OBVIOUS
<1>4. n.shape = req[r].shape /\ n.token = token
  BY <1>1, <1>3, AnswerFields DEF Placed
<1>5. answer = "served" => Allowed(scoped, n)
  BY <1>2, <1>4 DEF GeneralAuthMiddleware, Allowed, TokenValid
<1>6. QED
  BY <1>2, <1>3, <1>5, AnswerKeeps DEF GeneralAuthMiddleware

\* A resize is served a credential, whichever.
LEMMA ResizeKeeps ==
  ASSUME ServerInv, NEW r \in Requests, UNCHANGED processVars, ResizeImage(r)
  PROVE  ServerInv'
<1>1. Placed(r, req[r])
  BY PlacedRequest DEF ServerInv, ResizeImage
<1>2. PICK s \in Shapes[r] : s = req[r].shape
  BY <1>1 DEF Placed
<1>3. CASE ResolvePrincipal(s) # Nobody
  <2>1. Answered(r, "served", NoBucket)
    BY <1>2, <1>3 DEF ResizeImage
  <2>2. PICK n : n = [req[r] EXCEPT !.pc = "done", !.answer = "served", !.bucket = NoBucket, !.at = now, !.token = token]
    OBVIOUS
  <2>3. n.shape = s /\ n.at = now /\ n.token = token
    BY <1>1, <1>2, <2>2, AnswerFields DEF Placed
  <2>4. \/ token # <<>> /\ s.raw = token
        \/ \E b \in DOMAIN scoped :
             /\ s.raw = b \o <<":">> \o scoped[b].secret
             /\ scoped[b].expires = 0 \/ now < scoped[b].expires
    <3>1. CASE TokenValid(s.raw)
      BY <3>1 DEF TokenValid
    <3>2. CASE ~TokenValid(s.raw)
      <4>1. Found(s.raw) /\ BucketTokenMatches(Before(s.raw), After(s.raw))
        BY <1>3, <3>2 DEF ResolvePrincipal
      <4>2. s.raw = Before(s.raw) \o <<":">> \o After(s.raw)
        BY <4>1, CutJoins, AdmissionAssumption
      <4>3. PICK b \in DOMAIN scoped : b = Before(s.raw)
        BY <4>1 DEF BucketTokenMatches
      <4>4. scoped[b].secret = After(s.raw) /\ (scoped[b].expires = 0 \/ now < scoped[b].expires)
        BY <4>1, <4>3 DEF BucketTokenMatches
      <4>5. s.raw = b \o <<":">> \o scoped[b].secret
        BY <4>2, <4>3, <4>4, Zenon
      <4>6. QED
        BY <4>4, <4>5
    <3>3. QED
      BY <3>1, <3>2
  <2>5. s.route = "resize"
    BY <1>2 DEF ResizeImage
  <2>6. Allowed(scoped, n)
    BY <2>3, <2>4, <2>5, Zenon DEF Allowed
  <2>7. QED
    BY <2>1, <2>2, <2>6, AnswerKeeps DEF ResizeImage
<1>4. CASE ResolvePrincipal(s) = Nobody
  <2>1. Answered(r, "unauthorised", NoBucket)
    BY <1>2, <1>4 DEF ResizeImage
  <2>2. QED
    BY <2>1, AnswerKeeps DEF ResizeImage
<1>5. QED
  BY <1>3, <1>4

\* A write is served the general token, or the bucket of a scoped one.
LEMMA WriteKeeps ==
  ASSUME ServerInv, NEW r \in Requests, UNCHANGED processVars, BucketAuthMiddleware(r)
  PROVE  ServerInv'
<1>1. Placed(r, req[r])
  BY PlacedRequest DEF ServerInv, BucketAuthMiddleware
<1>2. PICK s \in Shapes[r] : s = req[r].shape
  BY <1>1 DEF Placed
<1>3. PICK p : p = ResolvePrincipal(s)
  OBVIOUS
<1>4. PICK b : b = resolveBucket(p, s.bucket)
  OBVIOUS
<1>5. s.raw \in Seq(Symbols)
  BY AdmissionAssumption
<1>6. CASE p # Nobody /\ ~Forbidden(p, s.bucket) /\ b # NoBucket
  <2>1. Answered(r, "served", b)
    BY <1>2, <1>3, <1>4, <1>6 DEF BucketAuthMiddleware
  <2>2. PICK n : n = [req[r] EXCEPT !.pc = "done", !.answer = "served", !.bucket = b, !.at = now, !.token = token]
    OBVIOUS
  <2>3. n.shape = s /\ n.bucket = b /\ n.at = now /\ n.token = token
    BY <1>1, <1>2, <2>2, AnswerFields DEF Placed
  <2>4. s.bucket # NoBucket => b = s.bucket
    BY <1>4 DEF resolveBucket
  <2>5. \/ TokenValid(s.raw)
        \/ /\ Found(s.raw) /\ BucketTokenMatches(Before(s.raw), After(s.raw))
           /\ b = Before(s.raw)
    <3>1. CASE TokenValid(s.raw)
      BY <3>1
    <3>2. CASE ~TokenValid(s.raw)
      <4>1. Found(s.raw) /\ BucketTokenMatches(Before(s.raw), After(s.raw)) /\ p = Scoped(Before(s.raw))
        BY <1>3, <1>6, <3>2 DEF ResolvePrincipal
      <4>2. p.kind = "scoped" /\ p.bucket = Before(s.raw)
        BY <4>1 DEF Scoped
      <4>3. b = p.bucket
        BY <1>4, <1>6, <4>2 DEF resolveBucket, Forbidden
      <4>4. QED
        BY <4>1, <4>2, <4>3
    <3>3. QED
      BY <3>1, <3>2
  <2>6. \/ token # <<>> /\ s.raw = token
        \/ /\ b \in DOMAIN scoped
           /\ s.raw = b \o <<":">> \o scoped[b].secret
           /\ scoped[b].expires = 0 \/ now < scoped[b].expires
    <3>1. CASE TokenValid(s.raw)
      BY <3>1 DEF TokenValid
    <3>2. CASE /\ Found(s.raw) /\ BucketTokenMatches(Before(s.raw), After(s.raw))
               /\ b = Before(s.raw)
      <4>1. s.raw = Before(s.raw) \o <<":">> \o After(s.raw)
        BY <1>5, <3>2, CutJoins
      <4>2. b \in DOMAIN scoped /\ scoped[b].secret = After(s.raw)
            /\ (scoped[b].expires = 0 \/ now < scoped[b].expires)
        BY <3>2 DEF BucketTokenMatches
      <4>3. s.raw = b \o <<":">> \o scoped[b].secret
        BY <3>2, <4>1, <4>2, Zenon
      <4>4. QED
        BY <4>2, <4>3
    <3>3. QED
      BY <2>5, <3>1, <3>2
  <2>7. s.route \in {"write", "upload"}
    BY <1>2 DEF BucketAuthMiddleware
  <2>8. Allowed(scoped, n)
    BY <2>3, <2>4, <2>6, <2>7, Zenon DEF Allowed
  <2>9. QED
    BY <2>1, <2>2, <2>8, AnswerKeeps DEF BucketAuthMiddleware
<1>7. CASE ~(p # Nobody /\ ~Forbidden(p, s.bucket) /\ b # NoBucket)
  <2>1. PICK answer \in {"unauthorised", "forbidden", "bad_request"} : Answered(r, answer, NoBucket)
    BY <1>2, <1>3, <1>4, <1>7 DEF BucketAuthMiddleware
  <2>2. QED
    BY <2>1, AnswerKeeps DEF BucketAuthMiddleware
<1>8. QED
  BY <1>6, <1>7

-----------------------------------------------------------------------------
(* The count.                                                              *)

\* One count, made now under key k by a request no limiter l has counted yet,
\* backs the counter it leads to.
LEMMA CountBacked ==
  ASSUME ServerInv, NEW k, NEW item, Backed(k, item), NEW pass, pass \notin passes,
         pass.key = k, pass.at = now, passes' = passes \cup {pass}, now' = now,
         NEW c, c = CountHit(item)
  PROVE  /\ PassesForm' /\ passes \subseteq passes'
         /\ Backed(k, c)' /\ c.exp # 0 /\ c.hits \in Nat /\ c.hits > 0
         /\ c.exp \in Window .. now + Window
         /\ LET W == {p \in passes' : p.key = k /\ p.at > now - Window /\ p.at <= now}
            IN  Cardinality(W) \in Nat /\ c.hits <= Cardinality(W)
<1>1. now \in Nat /\ Window \in Nat \ {0} /\ PassesForm
  BY AdmissionAssumption DEF ServerInv, TypeOK
<1>2. IsFiniteSet(passes) /\ IsFiniteSet(passes')
  BY <1>1, FS_AddElement DEF PassesForm
<1>3. PassesForm'
  BY <1>1, <1>2 DEF PassesForm
<1>4. item \in [hits : Nat, exp : Nat] /\ item.exp <= now + Window
      /\ item.hits <= Cardinality(Since(k, item.exp))
  BY DEF Backed
<1>5. ASSUME NEW e \in Nat, e <= now + Window
      PROVE  /\ Cardinality(Since(k, e)) \in Nat
             /\ Cardinality(Since(k, e)') = Cardinality(Since(k, e)) + 1
  <2>1. Since(k, e) \subseteq passes /\ pass \notin Since(k, e)
    BY DEF Since
  <2>2. Since(k, e)' = Since(k, e) \cup {pass}
    BY <1>1, <1>5 DEF Since
  <2>3. IsFiniteSet(Since(k, e))
    BY <1>2, <2>1, FS_Subset
  <2>4. QED
    BY <2>1, <2>2, <2>3, FS_AddElement, FS_CardinalityType
<1>6. /\ c \in [hits : Nat, exp : Nat] /\ c.exp > now /\ c.exp <= now + Window /\ c.hits > 0
      /\ c.exp >= Window
      /\ c.hits <= Cardinality(Since(k, c.exp)')
  <2>1. CASE item.exp = 0 \/ now >= item.exp
    <3>1. c = [hits |-> 1, exp |-> now + Window]
      BY <2>1 DEF CountHit
    <3>2. Cardinality(Since(k, now + Window)) \in Nat
          /\ Cardinality(Since(k, now + Window)') = Cardinality(Since(k, now + Window)) + 1
      BY <1>1, <1>5
    <3>3. QED
      BY <1>1, <3>1, <3>2
  <2>2. CASE ~(item.exp = 0 \/ now >= item.exp)
    <3>1. c = [item EXCEPT !.hits = item.hits + 1]
      BY <2>2 DEF CountHit
    <3>2. c.hits = item.hits + 1 /\ c.exp = item.exp /\ c \in [hits : Nat, exp : Nat]
      BY <1>4, <3>1
    <3>3. Cardinality(Since(k, item.exp)) \in Nat
          /\ Cardinality(Since(k, item.exp)') = Cardinality(Since(k, item.exp)) + 1
      BY <1>4, <1>5
    <3>4. item.exp >= Window
      BY <2>2 DEF Backed
    <3>5. QED
      BY <1>1, <1>4, <2>2, <3>2, <3>3, <3>4
  <2>3. QED
    BY <2>1, <2>2
<1>7. Backed(k, c)'
  <2>1. c.exp # 0 /\ c.exp <= now' + Window
    BY <1>1, <1>6
  <2>2. QED
    BY <1>6, <2>1 DEF Backed
<1>8. LET W == {p \in passes' : p.key = k /\ p.at > now - Window /\ p.at <= now}
      IN  Cardinality(W) \in Nat /\ c.hits <= Cardinality(W)
  <2> DEFINE W == {p \in passes' : p.key = k /\ p.at > now - Window /\ p.at <= now}
  <2>1. Since(k, c.exp)' \subseteq W /\ W \subseteq passes'
    BY <1>1, <1>3, <1>6 DEF Since, PassesForm
  <2>2. IsFiniteSet(W)
    BY <1>2, <2>1, FS_Subset
  <2>3. Cardinality(Since(k, c.exp)') <= Cardinality(W) /\ Cardinality(Since(k, c.exp)') \in Nat
        /\ Cardinality(W) \in Nat
    BY <2>1, <2>2, FS_Subset, FS_CardinalityType
  <2>4. QED
    BY <1>6, <2>3
<1>9. QED
  BY <1>1, <1>3, <1>6, <1>7, <1>8

\* The request is counted, and goes on or is refused.
LEMMA LimiterSetKeeps ==
  ASSUME ServerInv, NEW r \in Requests, NEW ok \in BOOLEAN, LimiterSet(r, ok), UNCHANGED processVars
  PROVE  ServerInv'
<1>1. req[r].pc = "set"
  BY DEF LimiterSet
<1>2. Placed(r, req[r]) /\ req[r] # Idle
  BY <1>1, PlacedRequest DEF ServerInv
<1>3. PICK l : l = First(req[r].todo)
  OBVIOUS
<1>4. PICK e : e = CountHit(req[r].item)
  OBVIOUS
<1>5. PICK pass : pass = [key |-> req[r].key, at |-> now, by |-> r, in |-> l]
  OBVIOUS
<1>6. l \in Limiters /\ l \in req[r].todo
  BY <1>1, <1>2, <1>3, FirstLeft DEF Placed
<1>7. pass \notin passes
  BY <1>1, <1>5, <1>6 DEF ServerInv, CountedOnce
<1>8. passes' = passes \cup {pass} /\ UNCHANGED <<token, scoped, now, switch, main, listening>>
  BY <1>3, <1>5 DEF LimiterSet, processVars
<1>9. Backed(req[r].key, req[r].item)
  BY <1>1 DEF ServerInv, ItemsBacked
<1>10. PICK key : key = req[r].key
  OBVIOUS
<1>11. /\ PassesForm' /\ passes \subseteq passes'
       /\ Backed(key, e)' /\ e.exp # 0 /\ e.hits \in Nat /\ e.hits > 0
       /\ e.exp \in Window .. now + Window
       /\ LET W == {p \in passes' : p.key = key /\ p.at > now - Window /\ p.at <= now}
          IN  Cardinality(W) \in Nat /\ e.hits <= Cardinality(W)
  BY <1>4, <1>5, <1>7, <1>8, <1>9, <1>10, CountBacked
<1>12. now \in Nat /\ MaxHits[l] \in Nat /\ now <= MaxTime /\ Window \in Nat
  BY <1>6, AdmissionAssumption DEF ServerInv, TypeOK
<1>13. \A k, item : Backed(k, item) => Backed(k, item)'
  BY <1>8, <1>11, <1>12, BackedGrows DEF ServerInv
<1>14. PICK n : n = IF e.hits > MaxHits[l]
                    THEN [req[r] EXCEPT !.pc = "done", !.answer = "limited", !.at = now, !.item = NoItem]
                    ELSE [req[r] EXCEPT !.pc = Onward(req[r].todo \ {l}), !.todo = req[r].todo \ {l},
                                        !.key = <<>>, !.item = NoItem]
  OBVIOUS
<1>15. req' = [req EXCEPT ![r] = n]
  BY <1>3, <1>4, <1>14 DEF LimiterSet
<1>16. Placed(r, n) /\ n # Idle /\ n.pc # "set" /\ n.todo \subseteq req[r].todo
       /\ (n.pc # "done" => n.todo = req[r].todo \ {l})
       /\ (n.pc = "done" => /\ e.hits > MaxHits[l] /\ n.answer = "limited" /\ n.at = now
                            /\ n.key = req[r].key /\ n.todo = req[r].todo)
  <2>1. CASE e.hits > MaxHits[l]
    <3>1. n = [pc |-> "done", shape |-> req[r].shape, todo |-> req[r].todo, key |-> req[r].key,
               item |-> NoItem, bucket |-> req[r].bucket, answer |-> "limited", at |-> now,
               token |-> req[r].token]
      BY <1>2, <1>14, <2>1 DEF Placed, Live
    <3>2. QED
      BY <1>2, <2>1, <3>1 DEF Placed, Live, Idle
  <2>2. CASE ~(e.hits > MaxHits[l])
    <3>1. PICK rest : rest = req[r].todo \ {l}
      OBVIOUS
    <3>2. n = [pc |-> Onward(rest), shape |-> req[r].shape, todo |-> rest, key |-> <<>>,
               item |-> NoItem, bucket |-> req[r].bucket, answer |-> req[r].answer, at |-> req[r].at,
               token |-> req[r].token]
      BY <1>2, <1>14, <2>2, <3>1 DEF Placed, Live
    <3>3. Onward(rest) \in {"limit", "auth"} /\ (Onward(rest) = "limit" => rest # {})
      BY DEF Onward
    <3>4. rest \subseteq Limiters /\ rest \subseteq req[r].todo
      BY <1>2, <3>1 DEF Placed
    <3>5. Live(n) /\ n.pc = Onward(rest) /\ n.shape = req[r].shape /\ n.todo = rest
      BY <3>2 DEF Live
    <3>6. n.pc = "limit" => First(n.todo) \in n.todo
      BY <3>3, <3>4, <3>5, FirstLeft
    <3>7. QED
      BY <1>2, <3>1, <3>3, <3>4, <3>5, <3>6 DEF Placed, Idle
  <2>3. QED
    BY <2>1, <2>2
<1>17. ReqForm' /\ req'[r] = n /\ \A x \in Requests : x # r => req'[x] = req[x]
  BY <1>15, <1>16, OneRecord DEF ServerInv
<1>18. StoreBacked' /\ \A k \in DOMAIN store' : store'[k].hits > 0
                         /\ store'[k].exp \in Window .. MaxTime + Window
  <2>1. store' = IF ok THEN [k \in DOMAIN store \cup {req[r].key} |->
                               IF k = req[r].key THEN e ELSE store[k]] ELSE store
    BY <1>4 DEF LimiterSet
  <2>2. \A k \in DOMAIN store' : (k = key /\ store'[k] = e) \/ (k \in DOMAIN store /\ store'[k] = store[k])
    BY <1>10, <2>1
  <2>3. e.exp \in Window .. MaxTime + Window
    BY <1>11, <1>12, AdmissionAssumption
  <2>4. ASSUME NEW k \in DOMAIN store'
        PROVE  \E i : i = store'[k] /\ Backed(k, i)' /\ i.exp # 0 /\ i.hits > 0
                      /\ i.exp \in Window .. MaxTime + Window
    <3>1. CASE k = key /\ store'[k] = e
      BY <1>11, <2>3, <3>1
    <3>2. CASE k \in DOMAIN store /\ store'[k] = store[k]
      <4>1. PICK i : i = store[k]
        OBVIOUS
      <4>2. Backed(k, i) /\ i.exp # 0 /\ i.hits > 0 /\ i.exp \in Window .. MaxTime + Window
        BY <3>2, <4>1 DEF ServerInv, StoreBacked, TypeOK
      <4>3. Backed(k, i)'
        BY <1>13, <4>2
      <4>4. QED
        BY <3>2, <4>1, <4>2, <4>3
    <3>3. QED
      BY <2>2, <2>4, <3>1, <3>2
  <2>5. StoreBacked'
    BY <2>4 DEF StoreBacked, Backed, Since
  <2>6. QED
    BY <2>4, <2>5
<1>19. ItemsBacked'
  BY <1>13, <1>16, <1>17 DEF ServerInv, ItemsBacked
<1>20. CountedOnce'
  BY <1>1, <1>5, <1>6, <1>8, <1>16, <1>17 DEF ServerInv, CountedOnce
<1>21. BootQuiet'
  BY <1>2, <1>8 DEF ServerInv, BootQuiet
<1>22. RefusedOverCount'
  <2> SUFFICES ASSUME NEW x \in Requests, req'[x].pc = "done", req'[x].answer = "limited"
               PROVE  OverLimit(passes', req'[x])
    BY Zenon DEF RefusedOverCount, OverLimit
  <2>1. CASE x = r
    <3>1. req'[x] = n /\ n.key = key /\ n.at = now /\ First(n.todo) = l /\ e.hits > MaxHits[l]
      BY <1>3, <1>16, <1>17, <1>10, <2>1
    <3>2. OverLimit(passes', n)
      BY <1>11, <1>12, <3>1 DEF OverLimit
    <3>3. QED
      BY <3>1, <3>2
  <2>2. CASE x # r
    <3>1. req'[x] = req[x] /\ OverLimit(passes, req[x])
      BY <1>17, <2>2, PromisesByRecord DEF ServerInv
    <3>2. PICK q : q = req[x]
      OBVIOUS
    <3>3. MaxHits[First(q.todo)] \in Nat
      BY AdmissionAssumption DEF First, Limiters
    <3>4. OverLimit(passes', q)
      <4> DEFINE S == {p \in passes : p.key = q.key /\ p.at > q.at - Window /\ p.at <= q.at}
                 T == {p \in passes' : p.key = q.key /\ p.at > q.at - Window /\ p.at <= q.at}
      <4>1. Cardinality(S) \in Nat /\ Cardinality(T) \in Nat /\ Cardinality(S) <= Cardinality(T)
        BY <1>11, CountsGrow DEF ServerInv
      <4>2. Cardinality(S) > MaxHits[First(q.todo)]
        BY <3>1, <3>2 DEF OverLimit
      <4> HIDE DEF S, T
      <4>3. Cardinality(T) > MaxHits[First(q.todo)]
        BY <3>3, <4>1, <4>2
      <4>4. QED
        BY <4>3 DEF OverLimit, T
    <3>5. QED
      BY <3>1, <3>2, <3>4
  <2>3. QED
    BY <2>1, <2>2
<1>23. EffectsAuthorised'
  <2> SUFFICES ASSUME NEW x \in Requests, req'[x].pc = "done", req'[x].answer = "served"
               PROVE  Allowed(scoped', req'[x])
    BY Zenon DEF EffectsAuthorised, IsGeneral, ScopedTo, Allowed
  <2>1. Allowed(scoped, req'[x])
    BY <1>16, <1>17, PromisesByRecord DEF ServerInv
  <2>2. QED
    BY <1>8, <2>1, Zenon
<1>24. TypeOK'
  <2>1. mutex' \in [Limiters -> Requests \cup {NoRequest}]
    BY DEF LimiterSet, Unlock, ServerInv, TypeOK
  <2>2. QED
    BY <1>8, <1>18, <2>1 DEF processVars, ServerInv, TypeOK
<1>25. QED
  BY <1>11, <1>17, <1>18, <1>19, <1>20, <1>21, <1>22, <1>23, <1>24 DEF ServerInv

-----------------------------------------------------------------------------
(* The process and the clock.                                              *)

\* A step that moves no request, and loads scoped tokens at most while none has
\* arrived, keeps what is said about requests.
LEMMA ProcessStep ==
  ASSUME ServerInv, UNCHANGED <<now, store, req, passes>>, TypeOK', BootQuiet',
         scoped' = scoped \/ \A r \in Requests : req[r] = Idle
  PROVE  ServerInv'
<1>1. ReqForm' /\ PassesForm' /\ CountedOnce' /\ RefusedOverCount'
  BY DEF ServerInv, ReqForm, PassesForm, CountedOnce, RefusedOverCount
<1>2. StoreBacked' /\ ItemsBacked'
  BY DEF ServerInv, StoreBacked, ItemsBacked, Backed, Since
<1>3. EffectsAuthorised'
  <2>1. CASE scoped' = scoped
    BY <2>1 DEF ServerInv, EffectsAuthorised, IsGeneral, ScopedTo
  <2>2. CASE \A r \in Requests : req[r] = Idle
    BY <2>2 DEF EffectsAuthorised, Idle
  <2>3. QED
    BY <2>1, <2>2
<1>4. QED
  BY <1>1, <1>2, <1>3 DEF ServerInv

\* Boot.
LEMMA BootKeeps ==
  ASSUME ServerInv, Boot
  PROVE  ServerInv'
<1> USE DEF ServerInv, TypeOK, BootQuiet
<1>1. CASE LoadEnv
  BY <1>1, ProcessStep DEF LoadEnv
<1>2. CASE ValidateGeneralToken
  BY <1>2, ProcessStep DEF ValidateGeneralToken, admissionVars
<1>3. ASSUME NEW file \in TokenFiles, LoadBucketTokens(file)
      PROVE  ServerInv'
  BY <1>3, ProcessStep DEF LoadBucketTokens
<1>4. ASSUME NEW tracer \in BOOLEAN, Spawn(tracer)
      PROVE  ServerInv'
  BY <1>4, ProcessStep DEF Spawn, admissionVars
<1>5. ASSUME NEW answers \in BootAnswers, StartLimiters(answers)
      PROVE  ServerInv'
  BY <1>5, ServerAssumption, ProcessStep DEF StartLimiters
<1>6. ASSUME NEW ok \in BOOLEAN, Listen(ok)
      PROVE  ServerInv'
  BY <1>6, ProcessStep DEF Listen, admissionVars
<1>7. QED
  BY <1>1, <1>2, <1>3, <1>4, <1>5, <1>6 DEF Boot

\* The watcher, its stop and the edits of .env.
LEMMA BackgroundKeeps ==
  ASSUME ServerInv, Watch \/ Signal \/ Shutdown \/ \E t \in EnvTokens : EditEnv(t)
  PROVE  ServerInv'
<1> USE DEF ServerInv, TypeOK, BootQuiet
<1>1. ASSUME NEW ok \in BOOLEAN, WatchStart(ok)
      PROVE  ServerInv'
  BY <1>1, ProcessStep DEF WatchStart, admissionVars
<1>2. ASSUME NEW ok \in BOOLEAN, Reload(ok)
      PROVE  ServerInv'
  BY <1>2, ProcessStep DEF Reload
<1>3. CASE WatchEvent
  BY <1>3, ProcessStep DEF WatchEvent, admissionVars
<1>4. CASE WatchLeave
  BY <1>4, ProcessStep DEF WatchLeave, admissionVars
<1>5. CASE Signal
  BY <1>5, ProcessStep DEF Signal, admissionVars
<1>6. CASE Shutdown
  BY <1>6, ProcessStep DEF Shutdown, StopWatcher, CloseListener, Drain, admissionVars
<1>7. ASSUME NEW t \in EnvTokens, EditEnv(t)
      PROVE  ServerInv'
  BY <1>7, ServerAssumption, ProcessStep DEF EditEnv, admissionVars
<1>8. QED
  BY <1>1, <1>2, <1>3, <1>4, <1>5, <1>6, <1>7 DEF Watch

\* Time passes.
LEMMA ClockKeeps ==
  ASSUME ServerInv, Clock
  PROVE  ServerInv'
<1>1. now < MaxTime /\ now' = now + 1 /\ now \in 0 .. MaxTime /\ MaxTime \in Nat
  BY AdmissionAssumption DEF ServerInv, TypeOK, Clock, Tick
<1>2. UNCHANGED <<scoped, store, req, passes, main, listening>>
  BY DEF Clock, Tick, processVars
<1>3. TypeOK'
  BY <1>1 DEF ServerInv, TypeOK, Clock, Tick, processVars
<1>4. PassesForm'
  BY <1>1, <1>2 DEF ServerInv, PassesForm
<1>5. \A k, item : Backed(k, item) => Backed(k, item)'
  BY <1>1, <1>2, <1>4, BackedGrows DEF ServerInv
<1>6. StoreBacked'
  <2> SUFFICES ASSUME NEW k \in DOMAIN store
               PROVE  Backed(k, store[k])' /\ store[k].exp # 0
    BY <1>2 DEF StoreBacked
  <2>1. PICK item : item = store[k]
    OBVIOUS
  <2>2. Backed(k, item)' /\ item.exp # 0
    BY <1>5, <2>1 DEF ServerInv, StoreBacked
  <2>3. QED
    BY <1>2, <2>1, <2>2 DEF Backed, Since
<1>7. ItemsBacked'
  <2> SUFFICES ASSUME NEW r \in Requests, req[r].pc = "set"
               PROVE  Backed(req[r].key, req[r].item)'
    BY <1>2 DEF ItemsBacked
  <2>1. PICK k, item : k = req[r].key /\ item = req[r].item
    OBVIOUS
  <2>2. Backed(k, item)'
    BY <1>5, <2>1 DEF ServerInv, ItemsBacked
  <2>3. QED
    BY <1>2, <2>1, <2>2 DEF Backed, Since
<1>8. ReqForm' /\ CountedOnce' /\ BootQuiet' /\ RefusedOverCount'
  BY <1>2 DEF ServerInv, ReqForm, CountedOnce, BootQuiet, RefusedOverCount
<1>9. EffectsAuthorised'
  BY <1>2 DEF ServerInv, EffectsAuthorised, IsGeneral, ScopedTo
<1>10. QED
  BY <1>3, <1>4, <1>6, <1>7, <1>8, <1>9 DEF ServerInv

-----------------------------------------------------------------------------
(* The theorems.                                                           *)

\* Every step keeps the invariant.
LEMMA ServerNextInv == ServerInv /\ [Next]_vars => ServerInv'
<1> SUFFICES ASSUME ServerInv, [Next]_vars
             PROVE  ServerInv'
  OBVIOUS
<1>1. ASSUME NEW r \in Requests, Serve(r)
      PROVE  ServerInv'
  <2>1. UNCHANGED processVars /\ Step(r)
    BY <1>1 DEF Serve
  <2>2. CASE \E ok \in BOOLEAN : LimiterGet(r, ok) \/ LimiterSet(r, ok)
    BY <2>1, <2>2, LimiterGetKeeps, LimiterSetKeeps
  <2>3. CASE \/ ServeOpen(r)
             \/ \E minio, cacheSet, cacheGet \in BOOLEAN : HealthCheck(r, minio, cacheSet, cacheGet)
    BY <2>1, <2>3, OpenKeeps
  <2>4. CASE GeneralAuthMiddleware(r)
    BY <2>1, <2>4, GeneralKeeps
  <2>5. CASE BucketAuthMiddleware(r)
    BY <2>1, <2>5, WriteKeeps
  <2>6. CASE ResizeImage(r)
    BY <2>1, <2>6, ResizeKeeps
  <2>7. QED
    BY <2>1, <2>2, <2>3, <2>4, <2>5, <2>6 DEF Step
<1>2. CASE UNCHANGED vars
  <2>1. TypeOK' /\ BootQuiet'
    BY <1>2 DEF vars, admissionVars, processVars, ServerInv, TypeOK, BootQuiet
  <2>2. QED
    BY <1>2, <2>1, ProcessStep DEF vars, admissionVars
<1>3. QED
  BY <1>1, <1>2, AcceptKeeps, BootKeeps, BackgroundKeeps, ClockKeeps DEF Next

\* The invariant holds throughout.
LEMMA ServerInvariant == Spec => []ServerInv
<1>1. QED
  BY ServerInitInv, ServerNextInv, PTL DEF Spec

\* Whatever is edited, reloaded, counted and answered, the server's variables keep
\* their types, and every counter in Redis has a count and an expiry (security.go
\* NewAdvancedRateLimiter, main.go).
THEOREM ServerTypeTheorem == Spec => []TypeOK
<1>1. ServerInv => TypeOK
  BY DEF ServerInv
<1>2. QED
  BY <1>1, ServerInvariant, PTL

\* Writes, uploads and operator requests are served only to a credential that
\* allowed exactly that when it was checked (principal.go, bucket_context.go), for
\* any credentials, token files, reloads of TOKEN and expiries.
THEOREM EffectsTheorem == Spec => []EffectsAuthorised
<1>1. ServerInv => EffectsAuthorised
  BY DEF ServerInv
<1>2. QED
  BY <1>1, ServerInvariant, PTL

-----------------------------------------------------------------------------
(* From limiters passed to requests.                                       *)

\* A limiter counts a request at most once, and only on the routes it is mounted
\* on; a refused request still has the limiter that refused it before it.
CountedApart ==
  /\ \A p, c \in passes : p.by = c.by /\ p.in = c.in => p = c
  /\ \A p \in passes : /\ p.by \in Requests
                        /\ req[p.by] # Idle
                        /\ p.in \in LimitersOf(req[p.by].shape.route)
  /\ \A r \in Requests : req[r] # Idle =>
       /\ req[r].todo \subseteq LimitersOf(req[r].shape.route)
       /\ req[r].pc = "done" /\ req[r].answer = "limited" => req[r].todo # {}

\* Nothing is counted at the start.
LEMMA ApartInit == Init => CountedApart
BY DEF Init, CountedApart

\* A step that counts nothing and replaces one record, by one of the same route
\* unless the request arrives.
LEMMA ApartQuiet ==
  ASSUME ServerInv, CountedApart, NEW r \in Requests, NEW n, req' = [req EXCEPT ![r] = n],
         passes' = passes, n # Idle,
         req[r] = Idle \/ (n.shape = req[r].shape /\ n.todo = req[r].todo),
         req[r] = Idle => n.todo \subseteq LimitersOf(n.shape.route),
         n.pc = "done" => n.answer # "limited"
  PROVE  CountedApart'
<1>1. req = [x \in Requests |-> req[x]]
  BY DEF ServerInv, ReqForm
<1>2. req'[r] = n /\ \A x \in Requests : x # r => req'[x] = req[x]
  BY <1>1
<1>3. \A p \in passes : /\ p.by \in Requests
                        /\ req'[p.by] # Idle
                        /\ p.in \in LimitersOf(req'[p.by].shape.route)
  BY <1>2 DEF CountedApart
<1>4. \A x \in Requests : req'[x] # Idle =>
       /\ req'[x].todo \subseteq LimitersOf(req'[x].shape.route)
       /\ req'[x].pc = "done" /\ req'[x].answer = "limited" => req'[x].todo # {}
  BY <1>2 DEF CountedApart
<1>5. QED
  BY <1>3, <1>4 DEF CountedApart

\* The count itself: the limiter is still before the request, so it has not
\* counted it yet.
LEMMA ApartSet ==
  ASSUME ServerInv, CountedApart, NEW r \in Requests, NEW ok \in BOOLEAN, LimiterSet(r, ok)
  PROVE  CountedApart'
<1>1. req[r].pc = "set"
  BY DEF LimiterSet
<1>2. Placed(r, req[r]) /\ req[r] # Idle
  BY <1>1, PlacedRequest DEF ServerInv
<1>3. PICK l : l = First(req[r].todo) /\ l \in req[r].todo
  BY <1>1, <1>2 DEF Placed
<1>4. PICK pass : pass = [key |-> req[r].key, at |-> now, by |-> r, in |-> l]
  OBVIOUS
<1>5. passes' = passes \cup {pass}
  BY <1>3, <1>4 DEF LimiterSet
<1>6. PICK n : n = IF CountHit(req[r].item).hits > MaxHits[l]
                   THEN [req[r] EXCEPT !.pc = "done", !.answer = "limited", !.at = now, !.item = NoItem]
                   ELSE [req[r] EXCEPT !.pc = Onward(req[r].todo \ {l}), !.todo = req[r].todo \ {l},
                                       !.key = <<>>, !.item = NoItem]
  OBVIOUS
<1>7. req' = [req EXCEPT ![r] = n]
  BY <1>3, <1>6 DEF LimiterSet
<1>8. /\ n.shape = req[r].shape /\ n.todo \subseteq req[r].todo /\ n # Idle
      /\ n.pc = "done" => n.todo = req[r].todo
  BY <1>2, <1>6 DEF Placed, Live, Idle, Onward
<1>9. req = [x \in Requests |-> req[x]]
  BY DEF ServerInv, ReqForm
<1>10. req'[r] = n /\ \A x \in Requests : x # r => req'[x] = req[x]
  BY <1>7, <1>9
<1>11. \A p \in passes : ~(p.by = r /\ p.in = l)
  BY <1>1, <1>3 DEF ServerInv, CountedOnce
<1>12. pass.by = r /\ pass.in = l /\ l \in LimitersOf(req[r].shape.route)
  BY <1>2, <1>3, <1>4 DEF CountedApart
<1>13. \A p, c \in passes' : p.by = c.by /\ p.in = c.in => p = c
  BY <1>5, <1>11, <1>12 DEF CountedApart
<1>14. \A p \in passes' : /\ p.by \in Requests
                          /\ req'[p.by] # Idle
                          /\ p.in \in LimitersOf(req'[p.by].shape.route)
  BY <1>5, <1>8, <1>10, <1>12 DEF CountedApart
<1>15. \A x \in Requests : req'[x] # Idle =>
       /\ req'[x].todo \subseteq LimitersOf(req'[x].shape.route)
       /\ req'[x].pc = "done" /\ req'[x].answer = "limited" => req'[x].todo # {}
  BY <1>2, <1>3, <1>8, <1>10 DEF CountedApart
<1>16. QED
  BY <1>13, <1>14, <1>15 DEF CountedApart

\* An answer keeps the route and the limiters passed.
LEMMA ApartAnswer ==
  ASSUME ServerInv, CountedApart, NEW r \in Requests, NEW answer, NEW bucket,
         Answered(r, answer, bucket), req[r].pc = "auth", answer # "limited", passes' = passes
  PROVE  CountedApart'
<1>1. Placed(r, req[r]) /\ req[r] # Idle
  BY PlacedRequest DEF ServerInv
<1>2. PICK n : n = [req[r] EXCEPT !.pc = "done", !.answer = answer, !.bucket = bucket,
                                  !.at = now, !.token = token]
  OBVIOUS
<1>3. req' = [req EXCEPT ![r] = n]
  BY <1>2 DEF Answered
<1>4. n.shape = req[r].shape /\ n.todo = req[r].todo /\ n # Idle /\ n.answer = answer
  BY <1>1, <1>2 DEF Placed, Live, Idle
<1>5. QED
  BY <1>1, <1>3, <1>4, ApartQuiet

\* Every step keeps the counts apart.
LEMMA ApartNext == ServerInv /\ CountedApart /\ [Next]_vars => CountedApart'
<1> SUFFICES ASSUME ServerInv, CountedApart, [Next]_vars
             PROVE  CountedApart'
  OBVIOUS
<1>1. ASSUME NEW r \in Requests, Accept(r)
      PROVE  CountedApart'
  <2>1. PICK s \in Shapes[r] : Arrive(r, s)
    BY <1>1 DEF Accept
  <2>2. PICK n : n = [pc |-> Onward({l \in LimitersOf(s.route) : switch[l]}), shape |-> s,
                      todo |-> {l \in LimitersOf(s.route) : switch[l]}, key |-> <<>>, item |-> NoItem,
                      bucket |-> NoBucket, answer |-> "none", at |-> 0, token |-> <<>>]
    OBVIOUS
  <2>3. req' = [req EXCEPT ![r] = n] /\ req[r].pc = "idle" /\ passes' = passes
    BY <2>1, <2>2 DEF Arrive
  <2>4. req[r] = Idle
    BY <2>3 DEF ServerInv, ReqForm
  <2>5. n.shape = s /\ n.todo \subseteq LimitersOf(s.route) /\ n # Idle /\ n.answer = "none"
    BY <2>2 DEF Idle, Onward
  <2>6. QED
    BY <2>3, <2>4, <2>5, ApartQuiet
<1>2. ASSUME NEW r \in Requests, NEW ok \in BOOLEAN, LimiterGet(r, ok)
      PROVE  CountedApart'
  <2>1. req[r].pc = "limit" /\ passes' = passes
    BY <1>2 DEF LimiterGet
  <2>2. Placed(r, req[r]) /\ req[r] # Idle
    BY <2>1, PlacedRequest DEF ServerInv
  <2>3. PICK key, item : /\ key = sanitizeKey(RateLimitKey(req[r].shape))
                         /\ item = IF ok THEN Stored(key) ELSE NoItem
    OBVIOUS
  <2>4. PICK n : n = [req[r] EXCEPT !.pc = "set", !.key = key, !.item = item]
    OBVIOUS
  <2>5. req' = [req EXCEPT ![r] = n]
    BY <1>2, <2>3, <2>4 DEF LimiterGet
  <2>6. n.shape = req[r].shape /\ n.todo = req[r].todo /\ n.pc = "set" /\ n # Idle
    BY <2>2, <2>4 DEF Placed, Live, Idle
  <2>7. QED
    BY <2>1, <2>2, <2>5, <2>6, ApartQuiet
<1>3. ASSUME NEW r \in Requests,
             \/ ServeOpen(r) \/ GeneralAuthMiddleware(r) \/ ResizeImage(r) \/ BucketAuthMiddleware(r)
             \/ \E minio, cacheSet, cacheGet \in BOOLEAN : HealthCheck(r, minio, cacheSet, cacheGet)
      PROVE  CountedApart'
  <2>1. /\ req[r].pc = "auth" /\ passes' = passes
        /\ \E answer \in {"served", "healthy", "degraded", "unauthorised", "forbidden", "bad_request"} :
             \E bucket : Answered(r, answer, bucket)
    BY <1>3, Zenon DEF ServeOpen, GeneralAuthMiddleware, ResizeImage, BucketAuthMiddleware, HealthCheck
  <2>2. PICK answer \in {"served", "healthy", "degraded", "unauthorised", "forbidden", "bad_request"} :
          \E bucket : Answered(r, answer, bucket)
    BY <2>1
  <2>3. answer # "limited"
    BY <2>2
  <2>4. QED
    BY <2>1, <2>2, <2>3, ApartAnswer
<1>4. ASSUME NEW r \in Requests, Serve(r)
      PROVE  CountedApart'
  BY <1>2, <1>3, <1>4, ApartSet DEF Serve, Step
<1>5. ASSUME UNCHANGED <<req, passes>>
      PROVE  CountedApart'
  BY <1>5 DEF CountedApart
<1>6. CASE Boot \/ Watch \/ Signal \/ Shutdown \/ Clock \/ \E t \in EnvTokens : EditEnv(t)
  BY <1>5, <1>6 DEF Boot, LoadEnv, ValidateGeneralToken, LoadBucketTokens, Spawn, StartLimiters, Listen,
     Watch, WatchEvent, WatchLeave, WatchStart, Reload, Signal, Shutdown, StopWatcher, CloseListener,
     Drain, Clock, Tick, EditEnv, admissionVars
<1>7. CASE UNCHANGED vars
  BY <1>5, <1>7 DEF vars, admissionVars
<1>8. QED
  BY <1>1, <1>4, <1>6, <1>7 DEF Next

\* Where every request counted is counted by one limiter, the counts are as many
\* as the requests.
LEMMA OneCountEach ==
  ASSUME ServerInv, CountedApart, NEW r \in Requests,
         \A q \in CountedWith(r) : LimitersOf(req[q].shape.route) = {"global"}
  PROVE  Cardinality(CountedWith(r)) =
           Cardinality({c \in passes : c.key = req[r].key /\ c.at > req[r].at - Window /\ c.at <= req[r].at})
<1> DEFINE W == {c \in passes : c.key = req[r].key /\ c.at > req[r].at - Window /\ c.at <= req[r].at}
           f == [p \in W |-> p.by]
<1>1. CountedWith(r) = {p.by : p \in W}
  BY DEF CountedWith
<1>2. IsFiniteSet(W)
  BY FS_Subset DEF ServerInv, PassesForm
<1>3. W \subseteq passes
  OBVIOUS
<1> HIDE DEF W
<1>4. f \in [W -> CountedWith(r)]
  BY <1>1
<1>5. \A p \in W : p.in = "global"
  BY <1>1, <1>3 DEF CountedApart
<1>6. \A p, c \in W : f[p] = f[c] => p = c
  BY <1>3, <1>5 DEF CountedApart
<1>7. \A q \in CountedWith(r) : \E p \in W : f[p] = q
  BY <1>1
<1>8. f \in Bijection(W, CountedWith(r))
  BY <1>4, <1>6, <1>7, Fun_IsBij
<1>9. Cardinality(CountedWith(r)) = Cardinality(W)
  BY <1>2, <1>8, FS_Bijection, Fun_ExistsBij
<1>10. QED
  BY <1>9 DEF W

\* A request is turned away only when more than RATE_LIMIT requests came from
\* its address in the window that ends with it, where no request was counted
\* twice and no other address was counted with it (security.go
\* NewAdvancedRateLimiter), for any limits, window, number of requests and Redis
\* failures.
THEOREM RefusedTheorem == Spec => []RefusedOnlyOverLimit
<1>1. ServerInv /\ CountedApart => RefusedOnlyOverLimit
  <2> SUFFICES ASSUME ServerInv, CountedApart, NEW r \in Requests,
                      req[r].pc = "done", req[r].answer = "limited",
                      \A q \in {r} \cup CountedWith(r) : CountsAsOne(q, r)
               PROVE  Cardinality(CountedWith(r)) > MaxHits["global"]
    BY DEF RefusedOnlyOverLimit
  <2>1. First(req[r].todo) = "global"
    <3>1. req[r] # Idle
      BY PlacedRequest DEF ServerInv
    <3>2. LimitersOf(req[r].shape.route) = {"global"}
      BY DEF CountsAsOne
    <3>3. QED
      BY <3>1, <3>2 DEF CountedApart, First
  <2>2. Cardinality({c \in passes : c.key = req[r].key /\ c.at > req[r].at - Window /\ c.at <= req[r].at})
          > MaxHits["global"]
    BY <2>1 DEF ServerInv, RefusedOverCount
  <2>3. QED
    BY <2>2, OneCountEach DEF CountsAsOne
<1>2. QED
  BY <1>1, ServerInvariant, ApartInit, ApartNext, PTL DEF Spec
=============================================================================
