--------------------------- MODULE HandlersProofs ---------------------------
(***************************************************************************)
(* Proofs about ArchiveLayout and Handlers, for any requests, files,       *)
(* environment, number of slots and number of faults.                      *)
(***************************************************************************)
EXTENDS Handlers, SequenceTheorems, FiniteSetTheorems, TLAPS

-----------------------------------------------------------------------------
(* The archive's names.                                                    *)

\* A key under its bucket's prefix.
Under(b, k) == b \o Slash \o k

\* The bucket, the '/', the key.
LEMMA Prefixed ==
  ASSUME NEW b \in Seq(Symbols), NEW k \in Seq(Symbols)
  PROVE  /\ Under(b, k) \in Seq(Symbols) /\ Len(Under(b, k)) = Len(b) + 1 + Len(k)
         /\ \A n \in 1 .. Len(b) : Under(b, k)[n] = b[n]
         /\ Under(b, k)[Len(b) + 1] = "/"
         /\ \A n \in 1 .. Len(k) : Under(b, k)[Len(b) + 1 + n] = k[n]
<1> DEFINE q == b \o Slash
<1>1. Slash \in Seq(Symbols) /\ Len(Slash) = 1 /\ Slash[1] = "/"
  BY HandlersAssumption DEF Slash
<1>2. Len(b) \in Nat /\ Len(k) \in Nat
  BY LenProperties
<1>3. /\ q \in Seq(Symbols) /\ Len(q) = Len(b) + Len(Slash)
      /\ \A i \in 1 .. Len(b) + Len(Slash) : q[i] = IF i <= Len(b) THEN b[i] ELSE Slash[i - Len(b)]
  BY <1>1, ConcatProperties, Zenon
<1> HIDE DEF q
<1>4. /\ Len(q) = Len(b) + 1 /\ \A i \in 1 .. Len(b) : q[i] = b[i]
  BY <1>1, <1>2, <1>3
<1>5. q[Len(b) + 1] = "/"
  <2>1. PICK m : m = Len(b) + 1
    OBVIOUS
  <2>2. m \in 1 .. Len(b) + Len(Slash) /\ ~(m <= Len(b)) /\ m - Len(b) = 1
    BY <1>1, <1>2, <2>1
  <2>3. QED
    BY <1>1, <1>3, <2>1, <2>2, Zenon
<1>6. /\ q \o k \in Seq(Symbols) /\ Len(q \o k) = Len(q) + Len(k)
      /\ \A i \in 1 .. Len(q) + Len(k) : (q \o k)[i] = IF i <= Len(q) THEN q[i] ELSE k[i - Len(q)]
  <2>1. q \in Seq(Symbols)
    BY <1>3
  <2>2. QED
    BY <2>1, ConcatProperties, Zenon
<1>7. Under(b, k) = q \o k
  BY Zenon DEF Under, q
<1>8. PICK u : u = Under(b, k)
  OBVIOUS
<1>9. /\ u \in Seq(Symbols) /\ Len(u) = Len(q) + Len(k)
      /\ \A i \in 1 .. Len(q) + Len(k) : u[i] = IF i <= Len(q) THEN q[i] ELSE k[i - Len(q)]
  BY <1>6, <1>7, <1>8, Zenon
<1>10. ASSUME NEW n \in 1 .. Len(k)
       PROVE  u[Len(b) + 1 + n] = k[n]
  <2>1. PICK m : m = Len(b) + 1 + n
    OBVIOUS
  <2>2. m \in 1 .. Len(q) + Len(k) /\ ~(m <= Len(q)) /\ m - Len(q) = n
    BY <1>2, <1>4, <2>1
  <2>3. QED
    BY <1>9, <2>1, <2>2, Zenon
<1>11. \A n \in 1 .. Len(b) + 1 : u[n] = q[n]
  BY <1>2, <1>4, <1>9
<1>12. Len(b) + 1 \in 1 .. Len(b) + 1 /\ \A n \in 1 .. Len(b) : n \in 1 .. Len(b) + 1
  BY <1>2
<1>13. QED
  BY <1>4, <1>5, <1>8, <1>9, <1>10, <1>11, <1>12

\* What is stored, and where.
LEMMA Resolved ==
  ASSUME NEW dest, NEW b, NEW k, NEW body
  PROVE  ObjectAt(dest, b, k, body) = IF dest # <<>> THEN <<dest, Under(b, k), body>> ELSE <<b, k, body>>
BY DEF ObjectAt, resolve, Under

\* Cutting the prefix of a bucket off a key under it leaves the key.
LEMMA Trimmed ==
  ASSUME NEW b \in Seq(Symbols), NEW k \in Seq(Symbols)
  PROVE  /\ HasPrefix(Under(b, k), Under(b, <<>>))
         /\ TrimPrefix(Under(b, k), Under(b, <<>>)) = k
         /\ k # <<>> => Under(b, k) # Under(b, <<>>)
<1> DEFINE e == <<>>
<1>1. PICK p, q : p = Under(b, k) /\ q = Under(b, e)
  OBVIOUS
<1>2. e \in Seq(Symbols) /\ Len(e) = 0 /\ Len(b) \in Nat /\ Len(k) \in Nat /\ (k # <<>> => Len(k) > 0)
  OBVIOUS
<1> HIDE DEF e
<1>3. /\ p \in Seq(Symbols) /\ Len(p) = Len(b) + 1 + Len(k)
      /\ \A n \in 1 .. Len(b) : p[n] = b[n]
      /\ p[Len(b) + 1] = "/"
      /\ \A n \in 1 .. Len(k) : p[Len(b) + 1 + n] = k[n]
  BY <1>1, Prefixed
<1>4. /\ q \in Seq(Symbols) /\ Len(q) = Len(b) + 1
      /\ \A n \in 1 .. Len(b) : q[n] = b[n]
      /\ q[Len(b) + 1] = "/"
  <2>1. e \in Seq(Symbols)
    BY <1>2
  <2>2. /\ Under(b, e) \in Seq(Symbols) /\ Len(Under(b, e)) = Len(b) + 1 + Len(e)
        /\ \A n \in 1 .. Len(b) : Under(b, e)[n] = b[n]
        /\ Under(b, e)[Len(b) + 1] = "/"
    BY <2>1, Prefixed
  <2>3. Len(b) + 1 + Len(e) = Len(b) + 1
    BY <1>2
  <2>4. QED
    BY <1>1, <2>2, <2>3
<1>5. SubSeq(p, 1, Len(q)) = q
  <2>1. \A n \in 1 .. Len(q) : p[n] = q[n]
    BY <1>2, <1>3, <1>4
  <2>2. SubSeq(p, 1, Len(q)) \in Seq(Symbols) /\ Len(SubSeq(p, 1, Len(q))) = Len(q)
        /\ \A n \in 1 .. Len(q) : SubSeq(p, 1, Len(q))[n] = p[n]
    BY <1>2, <1>3, <1>4
  <2>3. QED
    BY <1>4, <2>1, <2>2, SeqEqual
<1>6. SubSeq(p, Len(q) + 1, Len(p)) = k
  <2>1. SubSeq(p, Len(q) + 1, Len(p)) \in Seq(Symbols)
        /\ Len(SubSeq(p, Len(q) + 1, Len(p))) = Len(k)
        /\ \A n \in 1 .. Len(k) : SubSeq(p, Len(q) + 1, Len(p))[n] = p[Len(b) + 1 + n]
    BY <1>2, <1>3, <1>4
  <2>2. \A n \in 1 .. Len(k) : SubSeq(p, Len(q) + 1, Len(p))[n] = k[n]
    BY <1>3, <2>1
  <2>3. QED
    BY <2>1, <2>2, SeqEqual
<1>7. HasPrefix(p, q)
  BY <1>2, <1>3, <1>4, <1>5 DEF HasPrefix
<1>8. TrimPrefix(p, q) = k
  BY <1>6, <1>7 DEF TrimPrefix
<1>9. k # <<>> => Len(p) # Len(q)
  BY <1>2, <1>3, <1>4
<1>10. QED
  BY <1>1, <1>7, <1>8, <1>9 DEF e

\* A key is under the prefix of one bucket only: names hold no '/'.
LEMMA OnePrefix ==
  ASSUME NEW b, BucketName(b), NEW c, BucketName(c), NEW k \in Seq(Symbols),
         HasPrefix(Under(c, k), Under(b, <<>>))
  PROVE  b = c
<1>1. b \in Seq(Symbols) /\ c \in Seq(Symbols) /\ (\A n \in 1 .. Len(b) : b[n] # "/")
      /\ (\A n \in 1 .. Len(c) : c[n] # "/")
  BY DEF BucketName
<1> DEFINE e == <<>>
<1>2. PICK p, q : p = Under(c, k) /\ q = Under(b, e)
  OBVIOUS
<1>3. e \in Seq(Symbols) /\ Len(e) = 0 /\ Len(b) \in Nat /\ Len(k) \in Nat /\ Len(c) \in Nat
  BY <1>1
<1> HIDE DEF e
<1>4. /\ p \in Seq(Symbols) /\ Len(p) = Len(c) + 1 + Len(k)
      /\ \A n \in 1 .. Len(c) : p[n] = c[n]
      /\ p[Len(c) + 1] = "/"
  BY <1>1, <1>2, Prefixed
<1>5. /\ q \in Seq(Symbols) /\ Len(q) = Len(b) + 1
      /\ \A n \in 1 .. Len(b) : q[n] = b[n]
      /\ q[Len(b) + 1] = "/"
  <2>1. e \in Seq(Symbols)
    BY <1>3
  <2>2. /\ Under(b, e) \in Seq(Symbols) /\ Len(Under(b, e)) = Len(b) + 1 + Len(e)
        /\ \A n \in 1 .. Len(b) : Under(b, e)[n] = b[n]
        /\ Under(b, e)[Len(b) + 1] = "/"
    BY <1>1, <2>1, Prefixed
  <2>3. Len(b) + 1 + Len(e) = Len(b) + 1
    BY <1>3
  <2>4. QED
    BY <1>2, <2>2, <2>3
<1>6. Len(q) <= Len(p) /\ SubSeq(p, 1, Len(q)) = q
  BY <1>2 DEF HasPrefix, e
<1>7. \A n \in 1 .. Len(q) : p[n] = q[n]
  BY <1>3, <1>4, <1>5, <1>6
<1>8. ~(Len(c) < Len(b))
  <2> SUFFICES ASSUME Len(c) < Len(b)
               PROVE  FALSE
    OBVIOUS
  <2>1. Len(c) + 1 \in 1 .. Len(b) /\ Len(c) + 1 \in 1 .. Len(q)
    BY <1>3, <1>5
  <2>2. QED
    BY <1>1, <1>4, <1>5, <1>7, <2>1
<1>9. ~(Len(b) < Len(c))
  <2> SUFFICES ASSUME Len(b) < Len(c)
               PROVE  FALSE
    OBVIOUS
  <2>1. Len(b) + 1 \in 1 .. Len(c) /\ Len(b) + 1 \in 1 .. Len(q)
    BY <1>3, <1>5
  <2>2. QED
    BY <1>1, <1>4, <1>5, <1>7, <2>1
<1>10. Len(b) = Len(c)
  BY <1>3, <1>8, <1>9
<1>11. \A n \in 1 .. Len(b) : b[n] = c[n]
  BY <1>3, <1>4, <1>5, <1>7, <1>10
<1>12. QED
  BY <1>1, <1>10, <1>11, SeqEqual

\* The empty prefix, of a layout with a bucket for each.
LEMMA NoPrefix ==
  ASSUME NEW k \in Seq(Symbols)
  PROVE  HasPrefix(k, <<>>) /\ TrimPrefix(k, <<>>) = k
<1>1. Len(<<>>) = 0 /\ Len(k) \in Nat /\ SubSeq(k, 1, 0) = <<>> /\ SubSeq(k, 1, Len(k)) = k
  <2>1. SubSeq(k, 1, 0) = <<>>
    BY SubSeqEmpty
  <2>2. SubSeq(k, 1, Len(k)) = k
    BY SubSeqFull
  <2>3. QED
    BY <2>1, <2>2
<1>2. HasPrefix(k, <<>>)
  BY <1>1 DEF HasPrefix
<1>3. QED
  BY <1>1, <1>2 DEF TrimPrefix

\* Where Walk looks.
LEMMA WalkAt ==
  ASSUME NEW dest, NEW b
  PROVE  resolve(dest, b, <<>>) = IF dest # <<>> THEN <<dest, Under(b, <<>>)>> ELSE <<b, <<>>>>
BY DEF resolve, Under

\* A walk of its bucket finds what was archived for it.
LEMMA WalkFinds ==
  ASSUME NEW s, NEW dest, NEW b \in Seq(Symbols), NEW k \in Seq(Symbols), k # <<>>, NEW body,
         ObjectAt(dest, b, k, body) \in s
  PROVE  <<k, body>> \in Walk(s, dest, b)
<1>1. PICK o, at : o = ObjectAt(dest, b, k, body) /\ at = resolve(dest, b, <<>>)
  OBVIOUS
<1>2. o[3] = body /\ o[1] = at[1] /\ HasPrefix(o[2], at[2]) /\ o[2] # at[2] /\ TrimPrefix(o[2], at[2]) = k
  <2>1. CASE dest # <<>>
    <3>1. o = <<dest, Under(b, k), body>> /\ at = <<dest, Under(b, <<>>)>>
      BY <1>1, <2>1, Resolved, WalkAt
    <3>2. QED
      BY <3>1, Trimmed
  <2>2. CASE dest = <<>>
    <3>1. o = <<b, k, body>> /\ at = <<b, <<>>>>
      BY <1>1, <2>2, Resolved, WalkAt
    <3>2. QED
      BY <3>1, NoPrefix
  <2>3. QED
    BY <2>1, <2>2
<1>3. QED
  BY <1>1, <1>2 DEF Walk

\* What a walk of a bucket lists was archived for that bucket, under that key.
LEMMA WalkOnly ==
  ASSUME NEW s, NEW dest, NEW b, BucketName(b), NEW w \in Walk(s, dest, b)
  PROVE  \E o \in s : \A c, body : \A k \in Seq(Symbols) :
           BucketName(c) /\ o = ObjectAt(dest, c, k, body) => c = b /\ w = <<k, body>>
<1>1. PICK at : at = resolve(dest, b, <<>>)
  OBVIOUS
<1>2. PICK o \in s : o[1] = at[1] /\ HasPrefix(o[2], at[2]) /\ w = <<TrimPrefix(o[2], at[2]), o[3]>>
  BY <1>1 DEF Walk
<1>3. ASSUME NEW c, NEW body, NEW k \in Seq(Symbols), BucketName(c), o = ObjectAt(dest, c, k, body)
      PROVE  c = b /\ w = <<k, body>>
  <2>1. CASE dest # <<>>
    <3>1. o = <<dest, Under(c, k), body>> /\ at = <<dest, Under(b, <<>>)>>
      BY <1>1, <1>3, <2>1, Resolved, WalkAt
    <3>2. HasPrefix(Under(c, k), Under(b, <<>>)) /\ w = <<TrimPrefix(Under(c, k), Under(b, <<>>)), body>>
      BY <1>2, <3>1
    <3>3. c = b
      BY <1>3, <3>2, OnePrefix
    <3>4. TrimPrefix(Under(b, k), Under(b, <<>>)) = k
      BY Trimmed DEF BucketName
    <3>5. QED
      BY <3>2, <3>3, <3>4
  <2>2. CASE dest = <<>>
    <3>1. o = <<c, k, body>> /\ at = <<b, <<>>>>
      BY <1>1, <1>3, <2>2, Resolved, WalkAt
    <3>2. c = b /\ w = <<TrimPrefix(k, <<>>), body>>
      BY <1>2, <3>1
    <3>3. QED
      BY <3>2, NoPrefix
  <2>3. QED
    BY <2>1, <2>2
<1>4. QED
  BY <1>2, <1>3

-----------------------------------------------------------------------------
(* Sizes.                                                                  *)

\* A scaled side is the product rounded down, or one less.
LEMMA ScaledSide ==
  ASSUME NEW n \in Nat, NEW x \in Nat \ {0}, NEW y \in Nat \ {0}, NEW w \in Scaled(n, x, y)
  PROVE  w \in Int /\ w * y \in n * x - y .. n * x
<1>1. PICK m \in Nat : m = n * x
  OBVIOUS
<1>2. PICK whole \in Int : whole = m \div y
  BY <1>1
<1>3. whole * y <= m /\ m < whole * y + y
  BY <1>1, <1>2
<1>4. w = whole \/ (w = whole - 1 /\ whole * y = m)
  BY <1>1, <1>2 DEF Scaled
<1>5. (whole - 1) * y = whole * y - y
  BY <1>2
<1>6. w \in Int /\ w * y \in Int /\ m - y <= w * y /\ w * y <= m
  BY <1>1, <1>2, <1>3, <1>4, <1>5
<1>7. QED
  BY <1>1, <1>6

\* A size RatioWidthHeight answers fits the request.
LEMMA RatioFits ==
  ASSUME NEW size \in (Nat \ {0}) \X (Nat \ {0}), NEW want \in Int \X Int, Resizes(want),
         NEW to \in RatioWidthHeight(size, GetWidthAndHeight(want)), to[1] > 0 /\ to[2] > 0
  PROVE  Fits(to, size, want)
<1>1. PICK g : g = GetWidthAndHeight(want)
  OBVIOUS
<1>2. g[1] \in Nat /\ g[2] \in Nat /\ (g[1] # 0 \/ g[2] # 0) /\ g = <<g[1], g[2]>>
  BY <1>1, HandlersAssumption DEF GetWidthAndHeight, Clamp, Least, Resizes
<1>3. to \in RatioWidthHeight(size, g) /\ to[1] > 0 /\ to[2] > 0
  BY <1>1
<1>4. CASE g[1] = 0
  <2>1. PICK w \in Scaled(g[2], size[1], size[2]) : to = <<w, g[2]>>
    BY <1>3, <1>4 DEF RatioWidthHeight
  <2>2. w * size[2] \in g[2] * size[1] - size[2] .. g[2] * size[1]
    BY <1>2, <2>1, ScaledSide
  <2>3. QED
    BY <1>1, <1>2, <1>4, <2>1, <2>2 DEF Fits
<1>5. CASE g[1] # 0 /\ g[2] = 0
  <2>1. PICK h \in Scaled(g[1], size[2], size[1]) : to = <<g[1], h>>
    BY <1>3, <1>5 DEF RatioWidthHeight
  <2>2. h * size[1] \in g[1] * size[2] - size[1] .. g[1] * size[2]
    BY <1>2, <2>1, ScaledSide
  <2>3. QED
    BY <1>1, <1>2, <1>5, <2>1, <2>2 DEF Fits
<1>6. CASE g[1] # 0 /\ g[2] # 0
  BY <1>1, <1>2, <1>3, <1>6 DEF Fits, RatioWidthHeight
<1>7. QED
  BY <1>4, <1>5, <1>6

\* What ImagickResize answers is the original of a failure, or fits the request.
LEMMA ResizeFits ==
  ASSUME NEW f, f.size \in (Nat \ {0}) \X (Nat \ {0}), NEW want \in Int \X Int, Resizes(want),
         NEW out \in ImagickResize(f, want)
  PROVE  out.decoded = "failed" \/ (out.decoded = "ok" /\ Fits(out.size, f.size, want))
<1>1. CASE out = [size |-> f.size, decoded |-> "failed"]
  BY <1>1
<1>2. CASE \E to \in RatioWidthHeight(f.size, GetWidthAndHeight(want)) :
             to[1] > 0 /\ to[2] > 0 /\ out = [size |-> to, decoded |-> "ok"]
  <2>1. PICK to \in RatioWidthHeight(f.size, GetWidthAndHeight(want)) :
          to[1] > 0 /\ to[2] > 0 /\ out = [size |-> to, decoded |-> "ok"]
    BY <1>2
  <2>2. out.size = to /\ out.decoded = "ok"
    BY <2>1
  <2>3. QED
    BY <2>1, <2>2, RatioFits
<1>3. QED
  BY <1>1, <1>2 DEF ImagickResize

-----------------------------------------------------------------------------
(* The inductive invariant.  The first part speaks of one request alone:   *)
(* its record q, its tasks ts, its semaphore's count n, its channel c.     *)

KeyOf(r, s, i) == IF s.op \in Uploads THEN <<Uuid[r][i]>> ELSE s.files[i].key
BodiesOf(s, i) ==
  {"raw"} \union (IF s.optimize THEN {"small"} ELSE {})
          \union (IF Resizes(s.want) THEN {"resized"} ELSE {})
          \union (IF s.op = "url" /\ s.files[i].long THEN {"cut"} ELSE {})

\* What a scenario may ask r for.
ShapeOK(r, s) ==
  /\ s \in Shapes /\ BucketName(s.bucket)
  /\ s.op \notin Batches => Len(s.files) = 1
  /\ s.op \in Uploads => Len(s.files) <= Len(Uuid[r])

Pcs == {"idle", "check", "make", "start", "collect", "open", "slot", "queued", "decode", "done"}
Reading == {"open", "slot", "queued", "decode"}

\* Where a request is, and what that says of what it asked for.
ReqOK(q) ==
  /\ q = [pc |-> q.pc, shape |-> q.shape, started |-> q.started, answer |-> q.answer]
  /\ q.pc \in Pcs /\ q.started \in 0 .. Len(q.shape.files)
  /\ q.pc \in Reading => q.shape.op = "read"
  /\ q.pc \in {"slot", "queued", "decode"} => IsImageFile(q.shape.files[1]) /\ Resizes(q.shape.want)
  /\ q.pc \in {"idle", "check", "make"} => q.started = 0
  /\ q.pc = "make" => q.shape.op \in {"upload", "url"}
  /\ q.pc \in {"start", "collect"} => q.shape.op # "read" /\ Len(q.shape.files) \in 1 .. MaxBatch
  /\ q.pc = "start" => q.shape.op \in Batches /\ q.started < Len(q.shape.files)
  /\ q.pc = "check" /\ q.shape.op = "batch_delete" => Len(q.shape.files) \in 1 .. MaxBatch
  /\ q.pc # "done" => q.answer.status = "none"

\* CachedFits, of one request.
CacheOK(q) ==
  LET f == q.shape.files[1]
      a == q.answer
  IN  /\ q.shape.op = "read" /\ a.status = "ok" /\ a.cacheable /\ a.decoded # "failed"
      /\ IsImageFile(f) /\ Resizes(q.shape.want)
      => a.decoded = "ok" /\ (Overlong(f.size, q.shape.want) \/ Fits(a.size, f.size, q.shape.want))

Bodies4 == {"raw", "small", "resized", "cut"}
UploadPcs == {"none", "begin", "optimize", "encode", "typed", "put", "mirror", "report", "release", "gone"}
DeletePcs == {"none", "begin", "aws", "report", "release", "gone"}
TaskSet == [pc : UploadPcs \union DeletePcs, body : Bodies4, ok : BOOLEAN,
            archive : {"none", "stored", "failed", "removed"}]

\* The task of the i-th file of a request for s.
TaskOK(s, i, t) ==
  /\ t \in TaskSet
  /\ s.op \in Uploads => t.pc \in UploadPcs /\ t.body \in BodiesOf(s, i)
  /\ s.op \notin Uploads => t.pc \in DeletePcs
  /\ t.pc \in {"optimize", "encode"} => s.optimize
  /\ t.pc = "aws" => s.aws

\* The tasks there are, and those not started yet.
TasksOK(q, ts) ==
  /\ ts = [i \in DOMAIN ts |-> ts[i]]
  /\ DOMAIN ts = IF q.pc \in {"start", "collect"} THEN 1 .. Len(q.shape.files)
                 ELSE IF q.pc = "done" THEN DOMAIN ts ELSE {}
  /\ DOMAIN ts # {} => DOMAIN ts = 1 .. Len(q.shape.files) /\ Len(q.shape.files) \in 1 .. MaxBatch
  /\ \A i \in DOMAIN ts : TaskOK(q.shape, i, ts[i])
  /\ \A i \in DOMAIN ts : ts[i].pc = "none" <=> (q.pc = "start" /\ i > q.started)
  /\ q.pc = "done" => \A i \in DOMAIN ts : ts[i].pc = "gone"

Active(ts) == {i \in DOMAIN ts : ts[i].pc \notin {"none", "gone"}}
Reported(ts) == {i \in DOMAIN ts : ts[i].pc \in {"release", "gone"}}

\* The batch's slots are held by its tasks.
SemOK(q, ts, n) ==
  /\ n \in 0 .. BatchSlots
  /\ n = IF q.shape.op \in Batches THEN Cardinality(Active(ts)) ELSE 0

\* The channel holds one result of each task that reported, as it was.
ChanOK(ts, c) ==
  /\ c \in Seq([file : 1 .. MaxBatch, ok : BOOLEAN, archive : {"none", "stored", "failed", "removed"}])
  /\ Len(c) = Cardinality(Reported(ts))
  /\ \A n \in 1 .. Len(c) : c[n].file \in Reported(ts) /\ c[n].ok = ts[c[n].file].ok
                            /\ c[n].archive = ts[c[n].file].archive
  /\ \A i \in Reported(ts) : \E n \in 1 .. Len(c) : c[n].file = i

\* A good answer carries the whole channel, of all the tasks.
AnswerOK(q, ts, c) ==
  q.pc = "done" /\ q.answer.status = "ok" /\ q.shape.op # "read" =>
    DOMAIN ts = 1 .. Len(q.shape.files) /\ q.answer.results = c

LocalOK(r, q, ts, n, c) ==
  /\ ShapeOK(r, q.shape) /\ ReqOK(q) /\ CacheOK(q) /\ TasksOK(q, ts)
  /\ SemOK(q, ts, n) /\ ChanOK(ts, c) /\ AnswerOK(q, ts, c)

Form ==
  /\ req = [r \in Requests |-> req[r]] /\ task = [r \in Requests |-> task[r]]
  /\ sem = [r \in Requests |-> sem[r]] /\ chan = [r \in Requests |-> chan[r]]

Locals == Form /\ \A r \in Requests : LocalOK(r, req[r], task[r], sem[r], chan[r])

-----------------------------------------------------------------------------
(* The second part relates the tasks to the stores and the process.        *)

PastPut == {"mirror", "report", "release", "gone"}
Ended == {"report", "release", "gone"}

\* An object, in MinIO and in the archive, is of the upload of r's i-th file.
OwnObject(r, s, i, t) == <<s.bucket, KeyOf(r, s, i), t.body>>
OwnCopy(dest, r, s, i, t) == ObjectAt(dest, s.bucket, KeyOf(r, s, i), t.body)
Uploaded(s, ts, i) == i \in DOMAIN ts /\ s.op \in Uploads /\ ts[i].pc \in PastPut

\* Nothing is in MinIO under a random name but what its upload put there.
MinioForm ==
  \A o \in minio :
    \/ Known(o[2])
    \/ \E r \in Requests : \E i \in 1 .. MaxBatch :
         Uploaded(req[r].shape, task[r], i) /\ o = OwnObject(r, req[r].shape, i, task[r][i])

\* Everything in the archive lies where resolve puts an object of its bucket.
S3Form ==
  \A o \in s3 :
    \/ \E l \in Cold : o = ObjectAt(env.dest, l[1], l[2], "raw")
    \/ \E r \in Requests : \E i \in 1 .. MaxBatch :
         Uploaded(req[r].shape, task[r], i) /\ o = OwnCopy(env.dest, r, req[r].shape, i, task[r][i])

\* What a task that went well has done to MinIO, m, and to the archive, a, but
\* for the places that are to be deleted, c in MinIO and d in the archive.
Truth(m, a, c, d, dest, r, s, i, t) ==
  IF s.op \in Uploads
  THEN /\ t.pc = "mirror" \/ (t.pc \in Ended /\ t.ok) =>
            OwnObject(r, s, i, t) \in m \/ <<s.bucket, KeyOf(r, s, i)>> \in c
       /\ t.pc \in Ended /\ t.ok /\ t.archive = "stored" =>
            \/ OwnCopy(dest, r, s, i, t) \in a
            \/ <<s.bucket, KeyOf(r, s, i)>> \in d \/ resolve(dest, s.bucket, KeyOf(r, s, i)) \in d
  ELSE t.pc = "aws" \/ (t.pc \in Ended /\ t.ok) => \A o \in m : ~(o[1] = s.bucket /\ o[2] = KeyOf(r, s, i))

Truths ==
  \A r \in Requests : \A i \in DOMAIN task[r] :
    Truth(minio, s3, Condemned, AwsCondemned, env.dest, r, req[r].shape, i, task[r][i])

\* The keys asked for have no random name in them whose upload still runs.
Tolds == \A r \in Requests : req[r].pc # "idle" => Told(r)

Encoding == {t \in Tasks : task[t[1]][t[2]].pc = "encode"}
Decoding == {r \in Requests : req[r].pc = "decode"}

\* The process's slots are held by who encodes and who decodes.
Slots ==
  /\ faults \in 0 .. MaxFaults
  /\ optSem \in 0 .. OptimizeSlots /\ optSem = Cardinality(Encoding)
  /\ resizeSem \in 0 .. ResizeSlots /\ resizeSem = Cardinality(Decoding)

Stores == (\A b \in buckets : BucketName(b)) /\ MinioForm /\ S3Form /\ Truths /\ Tolds

\* The inductive invariant.
HandlersInv == env \in Environments /\ Locals /\ Stores /\ Slots

-----------------------------------------------------------------------------
(* The steps of one task, as its request sees them.                        *)

\* The tasks of a request are finitely many.
LEMMA TasksFinite ==
  ASSUME NEW q, NEW ts, TasksOK(q, ts)
  PROVE  /\ DOMAIN ts \subseteq 1 .. MaxBatch
         /\ IsFiniteSet(DOMAIN ts) /\ IsFiniteSet(Active(ts)) /\ IsFiniteSet(Reported(ts))
<1>1. MaxBatch \in Nat
  BY HandlersAssumption
<1>2. DOMAIN ts \subseteq 1 .. MaxBatch
  BY <1>1 DEF TasksOK
<1>3. IsFiniteSet(1 .. MaxBatch)
  BY <1>1, FS_Interval
<1>4. IsFiniteSet(DOMAIN ts)
  BY <1>2, <1>3, FS_Subset
<1>5. Active(ts) \subseteq DOMAIN ts /\ Reported(ts) \subseteq DOMAIN ts
  BY DEF Active, Reported
<1>6. QED
  BY <1>2, <1>4, <1>5, FS_Subset

\* A task that is not over belongs to a request that is not answered.
LEMMA TaskAlive ==
  ASSUME NEW q, NEW ts, ReqOK(q), TasksOK(q, ts), NEW i \in DOMAIN ts, ts[i].pc # "gone"
  PROVE  q.pc \in {"start", "collect"}
BY DEF ReqOK, TasksOK

\* One task moves between its start and its report.
LEMMA TaskMove ==
  ASSUME NEW r, NEW q, NEW ts, NEW n, NEW c, LocalOK(r, q, ts, n, c),
         NEW i \in DOMAIN ts, ts[i].pc \notin {"none", "release", "gone"},
         NEW t, TaskOK(q.shape, i, t), t.pc \notin {"none", "release", "gone"}
  PROVE  LocalOK(r, q, [ts EXCEPT ![i] = t], n, c)
<1>1. PICK u : u = [ts EXCEPT ![i] = t]
  OBVIOUS
<1>2. ShapeOK(r, q.shape) /\ ReqOK(q) /\ CacheOK(q) /\ TasksOK(q, ts) /\ SemOK(q, ts, n) /\ ChanOK(ts, c)
  BY DEF LocalOK
<1>3. ts = [j \in DOMAIN ts |-> ts[j]] /\ q.pc \in {"start", "collect"}
  BY <1>2, TaskAlive DEF TasksOK
<1>4. u = [j \in DOMAIN ts |-> IF j = i THEN t ELSE ts[j]]
  BY <1>1, <1>3
<1>5. DOMAIN u = DOMAIN ts /\ u[i] = t /\ \A j \in DOMAIN ts : j # i => u[j] = ts[j]
  BY <1>4
<1>6. Active(u) = Active(ts) /\ Reported(u) = Reported(ts) /\ i \notin Reported(u)
  BY <1>5 DEF Active, Reported
<1>7. TasksOK(q, u)
  <2>1. u = [j \in DOMAIN u |-> u[j]]
    BY <1>4
  <2>2. \A j \in DOMAIN u : TaskOK(q.shape, j, u[j])
    BY <1>2, <1>5 DEF TasksOK
  <2>3. \A j \in DOMAIN u : u[j].pc = "none" <=> (q.pc = "start" /\ j > q.started)
    BY <1>2, <1>5 DEF TasksOK
  <2>4. QED
    BY <1>2, <1>3, <1>5, <2>1, <2>2, <2>3 DEF TasksOK
<1>8. SemOK(q, u, n)
  BY <1>2, <1>6 DEF SemOK
<1>9. ChanOK(u, c)
  <2>1. \A m \in 1 .. Len(c) : c[m].file \in Reported(u) /\ u[c[m].file] = ts[c[m].file]
    BY <1>2, <1>5, <1>6 DEF ChanOK, Reported
  <2>2. QED
    BY <1>2, <1>6, <2>1 DEF ChanOK
<1>10. AnswerOK(q, u, c)
  BY <1>3 DEF AnswerOK
<1>11. QED
  BY <1>1, <1>2, <1>7, <1>8, <1>9, <1>10 DEF LocalOK

\* A task puts its result into the channel.
LEMMA TaskReport ==
  ASSUME NEW r, NEW q, NEW ts, NEW n, NEW c, LocalOK(r, q, ts, n, c),
         NEW i \in DOMAIN ts, ts[i].pc = "report",
         NEW t, t = [pc |-> "release", body |-> ts[i].body, ok |-> ts[i].ok, archive |-> ts[i].archive]
  PROVE  LocalOK(r, q, [ts EXCEPT ![i] = t], n, Append(c, [file |-> i, ok |-> ts[i].ok, archive |-> ts[i].archive]))
<1>1. PICK u, e : u = [ts EXCEPT ![i] = t] /\ e = [file |-> i, ok |-> ts[i].ok, archive |-> ts[i].archive]
  OBVIOUS
<1>2. PICK d : d = Append(c, e)
  OBVIOUS
<1>3. ShapeOK(r, q.shape) /\ ReqOK(q) /\ CacheOK(q) /\ TasksOK(q, ts) /\ SemOK(q, ts, n) /\ ChanOK(ts, c)
  BY DEF LocalOK
<1>4. ts = [j \in DOMAIN ts |-> ts[j]] /\ q.pc \in {"start", "collect"}
  BY <1>3, TaskAlive DEF TasksOK
<1>5. u = [j \in DOMAIN ts |-> IF j = i THEN t ELSE ts[j]]
  BY <1>1, <1>4
<1>6. DOMAIN u = DOMAIN ts /\ u[i] = t /\ \A j \in DOMAIN ts : j # i => u[j] = ts[j]
  BY <1>5
<1>7. TaskOK(q.shape, i, ts[i]) /\ ts[i] \in TaskSet
  BY <1>3 DEF TasksOK, TaskOK
<1>8. TaskOK(q.shape, i, t) /\ t.pc = "release" /\ t.ok = ts[i].ok /\ t.archive = ts[i].archive
  BY <1>7 DEF TaskOK, TaskSet, UploadPcs, DeletePcs
<1>9. Active(u) = Active(ts)
  BY <1>6, <1>8 DEF Active
<1>10. i \notin Reported(ts) /\ Reported(u) = Reported(ts) \union {i}
  BY <1>6, <1>8 DEF Reported
<1>11. TasksOK(q, u)
  <2>1. u = [j \in DOMAIN u |-> u[j]]
    BY <1>5
  <2>2. \A j \in DOMAIN u : TaskOK(q.shape, j, u[j])
    BY <1>3, <1>6, <1>8 DEF TasksOK
  <2>3. \A j \in DOMAIN u : u[j].pc = "none" <=> (q.pc = "start" /\ j > q.started)
    BY <1>3, <1>6, <1>8 DEF TasksOK
  <2>4. QED
    BY <1>3, <1>4, <1>6, <2>1, <2>2, <2>3 DEF TasksOK
<1>12. SemOK(q, u, n)
  BY <1>3, <1>9 DEF SemOK
<1>13. ChanOK(u, d)
  <2> DEFINE E == [file : 1 .. MaxBatch, ok : BOOLEAN, archive : {"none", "stored", "failed", "removed"}]
  <2>1. e \in E /\ e.file = i /\ e.ok = t.ok /\ e.archive = t.archive
    BY <1>1, <1>3, <1>7, <1>8, TasksFinite DEF TaskSet
  <2>2. c \in Seq(E)
    BY <1>3 DEF ChanOK
  <2>3. d \in Seq(E) /\ Len(c) \in Nat /\ Len(d) = Len(c) + 1 /\ d[Len(d)] = e /\ \A m \in 1 .. Len(c) : d[m] = c[m]
    <3> HIDE DEF E
    <3>1. QED
      BY <1>2, <2>1, <2>2
  <2>4. Len(d) = Cardinality(Reported(u))
    <3>1. IsFiniteSet(Reported(ts)) /\ Len(c) = Cardinality(Reported(ts))
      BY <1>3, TasksFinite DEF ChanOK
    <3>2. Cardinality(Reported(u)) = Cardinality(Reported(ts)) + 1
      BY <1>10, <3>1, FS_AddElement
    <3>3. QED
      BY <2>3, <3>1, <3>2
  <2>5. \A m \in 1 .. Len(c) : c[m].file \in Reported(u) /\ u[c[m].file] = ts[c[m].file]
    BY <1>3, <1>6, <1>10 DEF ChanOK, Reported
  <2>6. \A m \in 1 .. Len(d) : d[m].file \in Reported(u) /\ d[m].ok = u[d[m].file].ok
                               /\ d[m].archive = u[d[m].file].archive
    <3> SUFFICES ASSUME NEW m \in 1 .. Len(d)
                 PROVE  d[m].file \in Reported(u) /\ d[m].ok = u[d[m].file].ok /\ d[m].archive = u[d[m].file].archive
      OBVIOUS
    <3>1. CASE m = Len(d)
      BY <1>6, <1>10, <2>1, <2>3, <3>1
    <3>2. CASE m \in 1 .. Len(c)
      BY <1>3, <2>3, <2>5, <3>2 DEF ChanOK
    <3>3. QED
      BY <2>3, <3>1, <3>2
  <2>7. \A j \in Reported(u) : \E m \in 1 .. Len(d) : d[m].file = j
    <3> SUFFICES ASSUME NEW j \in Reported(u)
                 PROVE  \E m \in 1 .. Len(d) : d[m].file = j
      OBVIOUS
    <3>1. CASE j = i
      <4>1. Len(d) \in 1 .. Len(d) /\ d[Len(d)].file = i
        BY <2>1, <2>3
      <4>2. QED
        BY <3>1, <4>1
    <3>2. CASE j \in Reported(ts)
      <4>1. PICK m \in 1 .. Len(c) : c[m].file = j
        BY <1>3, <3>2 DEF ChanOK
      <4>2. QED
        BY <2>3, <4>1
    <3>3. QED
      BY <1>10, <3>1, <3>2
  <2>8. QED
    BY <2>3, <2>4, <2>6, <2>7 DEF ChanOK
<1>14. AnswerOK(q, u, d)
  BY <1>4 DEF AnswerOK
<1>15. QED
  BY <1>1, <1>2, <1>3, <1>11, <1>12, <1>13, <1>14 DEF LocalOK

\* A task gives its batch's slot back and is gone.
LEMMA TaskRelease ==
  ASSUME NEW r, NEW q, NEW ts, NEW n, NEW c, LocalOK(r, q, ts, n, c),
         NEW i \in DOMAIN ts, ts[i].pc = "release",
         NEW t, t = [pc |-> "gone", body |-> ts[i].body, ok |-> ts[i].ok, archive |-> ts[i].archive],
         NEW m, m = IF q.shape.op \in Batches THEN n - 1 ELSE n
  PROVE  LocalOK(r, q, [ts EXCEPT ![i] = t], m, c)
<1>1. PICK u : u = [ts EXCEPT ![i] = t]
  OBVIOUS
<1>2. ShapeOK(r, q.shape) /\ ReqOK(q) /\ CacheOK(q) /\ TasksOK(q, ts) /\ SemOK(q, ts, n) /\ ChanOK(ts, c)
  BY DEF LocalOK
<1>3. ts = [j \in DOMAIN ts |-> ts[j]] /\ q.pc \in {"start", "collect"}
  BY <1>2, TaskAlive DEF TasksOK
<1>4. u = [j \in DOMAIN ts |-> IF j = i THEN t ELSE ts[j]]
  BY <1>1, <1>3
<1>5. DOMAIN u = DOMAIN ts /\ u[i] = t /\ \A j \in DOMAIN ts : j # i => u[j] = ts[j]
  BY <1>4
<1>6. TaskOK(q.shape, i, ts[i]) /\ ts[i] \in TaskSet
  BY <1>2 DEF TasksOK, TaskOK
<1>7. TaskOK(q.shape, i, t) /\ t.pc = "gone" /\ t.ok = ts[i].ok /\ t.archive = ts[i].archive
  BY <1>6 DEF TaskOK, TaskSet, UploadPcs, DeletePcs
<1>8. i \in Active(ts) /\ Active(u) = Active(ts) \ {i}
  BY <1>5, <1>7 DEF Active
<1>9. Reported(u) = Reported(ts)
  BY <1>5, <1>7 DEF Reported
<1>10. TasksOK(q, u)
  <2>1. u = [j \in DOMAIN u |-> u[j]]
    BY <1>4
  <2>2. \A j \in DOMAIN u : TaskOK(q.shape, j, u[j])
    BY <1>2, <1>5, <1>7 DEF TasksOK
  <2>3. \A j \in DOMAIN u : u[j].pc = "none" <=> (q.pc = "start" /\ j > q.started)
    BY <1>2, <1>5, <1>7 DEF TasksOK
  <2>4. QED
    BY <1>2, <1>3, <1>5, <2>1, <2>2, <2>3 DEF TasksOK
<1>11. SemOK(q, u, m)
  <2>1. Cardinality(Active(ts)) \in Nat /\ Cardinality(Active(u)) = Cardinality(Active(ts)) - 1
        /\ Cardinality(Active(u)) \in Nat
    BY <1>2, <1>8, TasksFinite, FS_RemoveElement, FS_CardinalityType
  <2>2. QED
    BY <1>2, <2>1, HandlersAssumption DEF SemOK
<1>12. ChanOK(u, c)
  <2>1. \A k \in 1 .. Len(c) : c[k].file \in Reported(u) /\ u[c[k].file].ok = ts[c[k].file].ok
                               /\ u[c[k].file].archive = ts[c[k].file].archive
    BY <1>2, <1>5, <1>7, <1>9 DEF ChanOK, Reported
  <2>2. QED
    BY <1>2, <1>9, <2>1 DEF ChanOK
<1>13. AnswerOK(q, u, c)
  BY <1>3 DEF AnswerOK
<1>14. QED
  BY <1>1, <1>2, <1>10, <1>11, <1>12, <1>13 DEF LocalOK

\* A batch takes a slot and starts its next task.
LEMMA TaskStart ==
  ASSUME NEW r, NEW q, NEW ts, NEW n, NEW c, LocalOK(r, q, ts, n, c), q.pc = "start", n < BatchSlots,
         NEW i, i = q.started + 1,
         NEW p, p = [pc |-> IF i = Len(q.shape.files) THEN "collect" ELSE "start", shape |-> q.shape,
                     started |-> i, answer |-> q.answer]
  PROVE  i \in DOMAIN ts /\ LocalOK(r, p, [ts EXCEPT ![i] = NewTask("raw")], n + 1, c)
<1>1. PICK t, u : t = NewTask("raw") /\ u = [ts EXCEPT ![i] = t]
  OBVIOUS
<1>2. ShapeOK(r, q.shape) /\ ReqOK(q) /\ CacheOK(q) /\ TasksOK(q, ts) /\ SemOK(q, ts, n) /\ ChanOK(ts, c)
  BY DEF LocalOK
<1>3. /\ ts = [j \in DOMAIN ts |-> ts[j]] /\ q.shape.op \in Batches /\ Len(q.shape.files) \in 1 .. MaxBatch
      /\ DOMAIN ts = 1 .. Len(q.shape.files) /\ q.started \in 0 .. Len(q.shape.files) /\ q.started < Len(q.shape.files)
      /\ q.shape.op # "read" /\ q.answer.status = "none"
  BY <1>2 DEF TasksOK, ReqOK
<1>4. /\ i \in 1 .. Len(q.shape.files) /\ i > q.started /\ Len(q.shape.files) \in Nat /\ q.started \in Nat
      /\ (i = Len(q.shape.files) \/ i < Len(q.shape.files)) /\ i \in 0 .. Len(q.shape.files)
      /\ \A j \in 1 .. Len(q.shape.files) : (j > i) <=> (j > q.started /\ j # i)
  <2>1. Len(q.shape.files) \in Nat
    BY <1>3, HandlersAssumption
  <2>2. QED
    BY <1>3, <2>1
<1>5. ts[i].pc = "none"
  BY <1>2, <1>3, <1>4 DEF TasksOK
<1>6. u = [j \in DOMAIN ts |-> IF j = i THEN t ELSE ts[j]]
  BY <1>1, <1>3
<1>7. DOMAIN u = DOMAIN ts /\ u[i] = t /\ \A j \in DOMAIN ts : j # i => u[j] = ts[j]
  BY <1>3, <1>4, <1>6
<1>8. t.pc = "begin" /\ t \in TaskSet /\ t.body = "raw"
  BY <1>1 DEF NewTask, TaskSet, UploadPcs, DeletePcs, Bodies4
<1>9. TaskOK(q.shape, i, t)
  BY <1>8 DEF TaskOK, UploadPcs, DeletePcs, BodiesOf
<1>10. i \notin Active(ts) /\ Active(u) = Active(ts) \union {i}
  BY <1>3, <1>4, <1>5, <1>7, <1>8 DEF Active
<1>11. Reported(u) = Reported(ts) /\ i \notin Reported(ts)
  BY <1>5, <1>7, <1>8 DEF Reported
<1>12. p.shape = q.shape /\ p.started = i /\ p.answer = q.answer /\ p.pc = IF i = Len(q.shape.files) THEN "collect" ELSE "start"
  OBVIOUS
<1>13. p.pc \in {"start", "collect"} /\ (p.pc = "start" <=> i # Len(q.shape.files))
  BY <1>12
<1>14. ReqOK(p)
  BY <1>3, <1>4, <1>12, <1>13 DEF ReqOK, Pcs, Reading
<1>15. CacheOK(p)
  BY <1>3, <1>12 DEF CacheOK
<1>16. TasksOK(p, u)
  <2>1. u = [j \in DOMAIN u |-> u[j]]
    BY <1>6
  <2>2. \A j \in DOMAIN u : TaskOK(p.shape, j, u[j])
    BY <1>2, <1>7, <1>9, <1>12 DEF TasksOK
  <2>3. \A j \in DOMAIN u : u[j].pc = "none" <=> (p.pc = "start" /\ j > p.started)
    <3> SUFFICES ASSUME NEW j \in 1 .. Len(q.shape.files)
                 PROVE  u[j].pc = "none" <=> (p.pc = "start" /\ j > i)
      BY <1>3, <1>7, <1>12
    <3>1. u[j].pc = "none" <=> (j > q.started /\ j # i)
      BY <1>2, <1>3, <1>7, <1>8 DEF TasksOK
    <3>2. j > i => i # Len(q.shape.files)
      BY <1>4
    <3>3. QED
      BY <1>4, <1>13, <3>1, <3>2
  <2>4. QED
    BY <1>3, <1>7, <1>12, <1>13, <2>1, <2>2, <2>3 DEF TasksOK
<1>17. SemOK(p, u, n + 1)
  <2>1. Cardinality(Active(u)) = Cardinality(Active(ts)) + 1
    BY <1>2, <1>10, TasksFinite, FS_AddElement
  <2>2. n \in 0 .. BatchSlots /\ n = Cardinality(Active(ts))
    BY <1>2, <1>3 DEF SemOK
  <2>3. n + 1 \in 0 .. BatchSlots
    BY <2>2, HandlersAssumption
  <2>4. QED
    BY <1>3, <1>12, <2>1, <2>2, <2>3 DEF SemOK
<1>18. ChanOK(u, c)
  <2>1. \A m \in 1 .. Len(c) : c[m].file \in Reported(u) /\ u[c[m].file] = ts[c[m].file]
    BY <1>2, <1>7, <1>11 DEF ChanOK, Reported
  <2>2. QED
    BY <1>2, <1>11, <2>1 DEF ChanOK
<1>19. AnswerOK(p, u, c)
  BY <1>13 DEF AnswerOK
<1>20. QED
  BY <1>1, <1>2, <1>3, <1>4, <1>12, <1>14, <1>15, <1>16, <1>17, <1>18, <1>19 DEF LocalOK

-----------------------------------------------------------------------------
(* The steps of a request's own goroutine, as the request sees them.       *)

\* A request without tasks goes on or answers without starting any.
LEMMA RequestMove ==
  ASSUME NEW r, NEW q, NEW ts, NEW n, NEW c, LocalOK(r, q, ts, n, c), q.pc \notin {"start", "collect", "done"},
         NEW p, ReqOK(p), CacheOK(p), p.shape = q.shape, p.pc \notin {"start", "collect"},
         p.pc = "done" /\ p.answer.status = "ok" => p.shape.op = "read"
  PROVE  LocalOK(r, p, ts, n, c)
<1>1. ShapeOK(r, q.shape) /\ ReqOK(q) /\ TasksOK(q, ts) /\ SemOK(q, ts, n) /\ ChanOK(ts, c)
  BY DEF LocalOK
<1>2. DOMAIN ts = {} /\ ts = [i \in DOMAIN ts |-> ts[i]]
  BY <1>1 DEF TasksOK
<1>3. TasksOK(p, ts)
  BY <1>2 DEF TasksOK
<1>4. SemOK(p, ts, n)
  BY <1>1 DEF SemOK
<1>5. AnswerOK(p, ts, c)
  BY DEF AnswerOK
<1>6. QED
  BY <1>1, <1>3, <1>4, <1>5 DEF LocalOK

\* A request goes on to a place p, its answer still open.
LEMMA RequestGoes ==
  ASSUME NEW r, NEW q, NEW ts, NEW n, NEW c, LocalOK(r, q, ts, n, c), q.pc \notin {"start", "collect", "done"},
         NEW pc \in Pcs \ {"idle", "start", "collect", "done"},
         pc \in Reading => q.shape.op = "read",
         pc \in {"slot", "queued", "decode"} => IsImageFile(q.shape.files[1]) /\ Resizes(q.shape.want),
         pc = "make" => q.shape.op \in {"upload", "url"} /\ q.started = 0,
         pc = "check" => q.started = 0 /\ (q.shape.op = "batch_delete" => Len(q.shape.files) \in 1 .. MaxBatch),
         NEW p, p = [pc |-> pc, shape |-> q.shape, started |-> q.started, answer |-> q.answer]
  PROVE  LocalOK(r, p, ts, n, c)
<1>1. p.pc = pc /\ p.shape = q.shape /\ p.started = q.started /\ p.answer = q.answer
  OBVIOUS
<1>2. ReqOK(q) /\ q.answer.status = "none"
  BY DEF LocalOK, ReqOK
<1>3. ReqOK(p)
  BY <1>1, <1>2 DEF ReqOK, Pcs
<1>4. CacheOK(p)
  BY <1>1, <1>2 DEF CacheOK
<1>5. QED
  BY <1>1, <1>3, <1>4, RequestMove DEF Pcs

\* A request without tasks is refused.
LEMMA RequestRefused ==
  ASSUME NEW r, NEW q, NEW ts, NEW n, NEW c, LocalOK(r, q, ts, n, c), q.pc \notin {"start", "collect", "done"},
         NEW p, p = [pc |-> "done", shape |-> q.shape, started |-> q.started, answer |-> [status |-> "refused"]]
  PROVE  LocalOK(r, p, ts, n, c)
<1>1. p.pc = "done" /\ p.shape = q.shape /\ p.started = q.started /\ p.answer.status = "refused"
  OBVIOUS
<1>2. ReqOK(q)
  BY DEF LocalOK
<1>3. ReqOK(p)
  BY <1>1, <1>2 DEF ReqOK, Pcs, Reading
<1>4. CacheOK(p)
  BY <1>1 DEF CacheOK
<1>5. QED
  BY <1>1, <1>3, <1>4, RequestMove

\* A read is answered with a body.
LEMMA RequestServed ==
  ASSUME NEW r, NEW q, NEW ts, NEW n, NEW c, LocalOK(r, q, ts, n, c), q.pc \in Reading,
         NEW size, NEW cacheable, NEW decoded,
         cacheable /\ decoded # "failed" /\ IsImageFile(q.shape.files[1]) /\ Resizes(q.shape.want) =>
           decoded = "ok" /\ Fits(size, q.shape.files[1].size, q.shape.want),
         NEW p, p = [pc |-> "done", shape |-> q.shape, started |-> q.started,
                     answer |-> [status |-> "ok", size |-> size, cacheable |-> cacheable, decoded |-> decoded]]
  PROVE  LocalOK(r, p, ts, n, c)
<1>1. /\ p.pc = "done" /\ p.shape = q.shape /\ p.started = q.started
      /\ p.answer.status = "ok" /\ p.answer.size = size /\ p.answer.cacheable = cacheable
      /\ p.answer.decoded = decoded
  OBVIOUS
<1>2. ReqOK(q) /\ q.shape.op = "read"
  BY DEF LocalOK, ReqOK
<1>3. ReqOK(p)
  BY <1>1, <1>2 DEF ReqOK, Pcs, Reading
<1>4. CacheOK(p)
  BY <1>1 DEF CacheOK
<1>5. QED
  BY <1>1, <1>2, <1>3, <1>4, RequestMove DEF Reading

\* A read on a bucket that is there opens its object.
LEMMA ReadOpens ==
  ASSUME NEW r, NEW q, NEW ts, NEW n, NEW c, LocalOK(r, q, ts, n, c), q.pc \in {"check", "make"}, q.shape.op = "read",
         NEW p, p = [pc |-> "open", shape |-> q.shape, started |-> q.started, answer |-> q.answer]
  PROVE  LocalOK(r, p, <<>>, n, c)
<1>1. LocalOK(r, p, ts, n, c)
  BY RequestGoes DEF Pcs, Reading
<1>2. ts = <<>>
  <2>1. DOMAIN ts = {} /\ ts = [i \in DOMAIN ts |-> ts[i]]
    BY DEF LocalOK, TasksOK
  <2>2. QED
    BY <2>1
<1>3. QED
  BY <1>1, <1>2

\* A batch makes its channel, a single upload or delete is its own task.
LEMMA TasksMade ==
  ASSUME NEW r, NEW q, NEW ts, NEW n, NEW c, LocalOK(r, q, ts, n, c), q.pc \in {"check", "make"}, q.shape.op # "read",
         q.shape.op = "batch_upload" => q.shape.files # <<>> /\ ~(Len(q.shape.files) > MaxBatch),
         NEW p, p = [pc |-> IF q.shape.op \in Batches THEN "start" ELSE "collect", shape |-> q.shape,
                     started |-> q.started, answer |-> q.answer],
         NEW u, u = [i \in DOMAIN q.shape.files |-> IF q.shape.op \in Batches THEN NoTask ELSE NewTask("raw")]
  PROVE  LocalOK(r, p, u, n, c)
<1>1. ShapeOK(r, q.shape) /\ ReqOK(q) /\ TasksOK(q, ts) /\ SemOK(q, ts, n) /\ ChanOK(ts, c)
  BY DEF LocalOK
<1>2. /\ DOMAIN ts = {} /\ q.started = 0 /\ q.answer.status = "none"
      /\ q.shape.files \in Seq(Files) /\ q.shape.op \in Uploads \union Deletes \union {"read"}
  BY <1>1 DEF TasksOK, ReqOK, ShapeOK, Shapes
<1>3. Len(q.shape.files) \in 1 .. MaxBatch
  <2>1. MaxBatch \in Nat \ {0} /\ Len(q.shape.files) \in Nat /\ (q.shape.files # <<>> => Len(q.shape.files) > 0)
    BY <1>2, HandlersAssumption
  <2>2. CASE q.shape.op \notin Batches
    <3>1. Len(q.shape.files) = 1
      BY <1>1, <2>2 DEF ShapeOK
    <3>2. QED
      BY <2>1, <3>1
  <2>3. CASE q.shape.op = "batch_upload"
    BY <2>1, <2>3
  <2>4. CASE q.shape.op = "batch_delete"
    BY <1>1, <2>4 DEF ReqOK
  <2>5. QED
    BY <2>2, <2>3, <2>4 DEF Batches
<1>4. DOMAIN q.shape.files = 1 .. Len(q.shape.files) /\ Len(q.shape.files) > 0
  BY <1>2, <1>3
<1>5. p.shape = q.shape /\ p.started = 0 /\ p.answer = q.answer /\ p.pc = IF q.shape.op \in Batches THEN "start" ELSE "collect"
  BY <1>2
<1>6. ReqOK(p)
  BY <1>2, <1>3, <1>4, <1>5 DEF ReqOK, Pcs, Reading
<1>7. CacheOK(p)
  BY <1>2, <1>5 DEF CacheOK
<1>8. /\ DOMAIN u = 1 .. Len(q.shape.files)
      /\ \A i \in DOMAIN u : u[i] = IF q.shape.op \in Batches THEN NoTask ELSE NewTask("raw")
  BY <1>4
<1>9. /\ NoTask \in TaskSet /\ NoTask.pc = "none" /\ NoTask.body = "raw"
      /\ NewTask("raw") \in TaskSet /\ NewTask("raw").pc = "begin" /\ NewTask("raw").body = "raw"
  BY DEF NoTask, NewTask, TaskSet, UploadPcs, DeletePcs, Bodies4
<1>10. TasksOK(p, u)
  <2>1. u = [i \in DOMAIN u |-> u[i]]
    BY <1>8
  <2>2. \A i \in DOMAIN u : TaskOK(p.shape, i, u[i])
    BY <1>8, <1>9 DEF TaskOK, UploadPcs, DeletePcs, BodiesOf
  <2>3. \A i \in DOMAIN u : u[i].pc = "none" <=> (p.pc = "start" /\ i > p.started)
    BY <1>5, <1>8, <1>9
  <2>4. QED
    BY <1>3, <1>5, <1>8, <2>1, <2>2, <2>3 DEF TasksOK
<1>11. Active(ts) = {} /\ Reported(ts) = {} /\ Reported(u) = {} /\ (q.shape.op \in Batches => Active(u) = {})
  BY <1>2, <1>8, <1>9 DEF Active, Reported
<1>12. SemOK(p, u, n)
  BY <1>1, <1>5, <1>11 DEF SemOK
<1>13. ChanOK(u, c)
  BY <1>1, <1>11 DEF ChanOK
<1>14. AnswerOK(p, u, c)
  BY <1>5 DEF AnswerOK
<1>15. QED
  BY <1>1, <1>5, <1>6, <1>7, <1>10, <1>12, <1>13, <1>14 DEF LocalOK

\* The answer with the channel's results, when every task is gone.
LEMMA ResultsCollected ==
  ASSUME NEW r, NEW q, NEW ts, NEW n, NEW c, LocalOK(r, q, ts, n, c), q.pc = "collect",
         \A i \in DOMAIN ts : ts[i].pc = "gone",
         NEW status,
         NEW p, p = [pc |-> "done", shape |-> q.shape, started |-> q.started,
                     answer |-> [status |-> status, results |-> c]]
  PROVE  LocalOK(r, p, ts, n, c)
<1>1. ShapeOK(r, q.shape) /\ ReqOK(q) /\ TasksOK(q, ts) /\ SemOK(q, ts, n) /\ ChanOK(ts, c)
  BY DEF LocalOK
<1>2. p.pc = "done" /\ p.shape = q.shape /\ p.started = q.started /\ p.answer.results = c
  OBVIOUS
<1>3. q.shape.op # "read" /\ DOMAIN ts = 1 .. Len(q.shape.files)
  BY <1>1 DEF TasksOK, ReqOK
<1>4. ReqOK(p)
  BY <1>1, <1>2 DEF ReqOK, Pcs, Reading
<1>5. CacheOK(p)
  BY <1>2, <1>3 DEF CacheOK
<1>6. TasksOK(p, ts)
  BY <1>1, <1>2, <1>3 DEF TasksOK
<1>7. SemOK(p, ts, n)
  BY <1>1, <1>2 DEF SemOK
<1>8. AnswerOK(p, ts, c)
  BY <1>2, <1>3 DEF AnswerOK
<1>9. QED
  BY <1>1, <1>2, <1>4, <1>5, <1>6, <1>7, <1>8 DEF LocalOK

-----------------------------------------------------------------------------
(* The stores.                                                             *)

\* A step between two states of the stores takes nothing away but from the
\* places c2, in MinIO, and d2, in the archive, that are to be deleted.
Safe(m, a, m2, a2, c2, d2) ==
  /\ \A o \in m : o \in m2 \/ <<o[1], o[2]>> \in c2
  /\ \A o \in a : o \in a2 \/ <<o[1], o[2]>> \in d2

\* The keys of uploads are random names.
LEMMA RandomKeys ==
  ASSUME NEW r \in Requests, NEW s, ShapeOK(r, s), NEW i \in 1 .. Len(s.files)
  PROVE  /\ KeyOf(r, s, i) \in Seq(Symbols) /\ s.bucket \in Seq(Symbols)
         /\ s.op \in Uploads =>
              /\ KeyOf(r, s, i) # <<>> /\ KeyOf(r, s, i)[1] = Uuid[r][i] /\ Len(KeyOf(r, s, i)) = 1 /\ i \in DOMAIN Uuid[r]
              /\ ~Known(KeyOf(r, s, i))
<1>1. s.files \in Seq(Files) /\ s.bucket \in Seq(Symbols)
  BY DEF ShapeOK, Shapes
<1>2. s.files[i] \in Files /\ s.files[i].key \in Seq(Symbols) /\ i \in DOMAIN s.files
  <2>1. s.files[i] \in Files /\ i \in DOMAIN s.files
    BY <1>1
  <2>2. QED
    BY <2>1 DEF Files
<1>3. CASE s.op \notin Uploads
  BY <1>1, <1>2, <1>3 DEF KeyOf, ShapeOK
<1>4. CASE s.op \in Uploads
  <2>1. PICK k : k = KeyOf(r, s, i)
    OBVIOUS
  <2>2. Uuid[r] \in Seq(Symbols) /\ Len(s.files) <= Len(Uuid[r]) /\ Len(s.files) \in Nat
    BY <1>1, <1>4, UuidAssumption DEF ShapeOK
  <2>3. i \in DOMAIN Uuid[r] /\ Uuid[r][i] \in Symbols
    BY <2>2
  <2>4. k = <<Uuid[r][i]>>
    BY <1>4, <2>1 DEF KeyOf
  <2>5. k \in Seq(Symbols) /\ Len(k) = 1 /\ k[1] = Uuid[r][i] /\ 1 \in DOMAIN k /\ k # <<>>
    BY <2>3, <2>4
  <2>6. ~Known(k)
    BY <2>3, <2>5 DEF Known
  <2>7. QED
    BY <1>1, <1>4, <2>1, <2>3, <2>5, <2>6
<1>5. QED
  BY <1>3, <1>4

\* Two uploads never have one key.
LEMMA OneOwner ==
  ASSUME NEW r \in Requests, NEW s, ShapeOK(r, s), s.op \in Uploads, NEW i \in 1 .. Len(s.files),
         NEW q \in Requests, NEW z, ShapeOK(q, z), z.op \in Uploads, NEW j \in 1 .. Len(z.files),
         KeyOf(r, s, i) = KeyOf(q, z, j)
  PROVE  r = q /\ i = j
<1>1. i \in DOMAIN Uuid[r] /\ j \in DOMAIN Uuid[q] /\ Uuid[r][i] = Uuid[q][j]
  BY RandomKeys
<1>2. QED
  BY <1>1, UuidAssumption

\* A safe step that brings nothing into a place a task has deleted leaves what
\* the task has done as it is.
LEMMA TruthKept ==
  ASSUME NEW m, NEW a, NEW c, NEW d, NEW m2, NEW a2, NEW c2, NEW d2, Safe(m, a, m2, a2, c2, d2),
         c \subseteq c2, d \subseteq d2, NEW dest,
         NEW r \in Requests, NEW s, NEW i, NEW t, Truth(m, a, c, d, dest, r, s, i, t),
         s.op \notin Uploads => \A o \in m2 : o \in m \/ o[2] # KeyOf(r, s, i)
  PROVE  Truth(m2, a2, c2, d2, dest, r, s, i, t)
<1>1. CASE s.op \in Uploads
  <2>1. OwnObject(r, s, i, t)[1] = s.bucket /\ OwnObject(r, s, i, t)[2] = KeyOf(r, s, i)
    BY DEF OwnObject
  <2>2. PICK copy : copy = OwnCopy(dest, r, s, i, t)
    OBVIOUS
  <2>3. <<copy[1], copy[2]>> = resolve(dest, s.bucket, KeyOf(r, s, i))
    BY <2>2 DEF OwnCopy, ObjectAt, resolve
  <2>4. QED
    BY <1>1, <2>1, <2>2, <2>3 DEF Truth, Safe
<1>2. CASE s.op \notin Uploads
  BY <1>2 DEF Truth
<1>3. QED
  BY <1>1, <1>2

-----------------------------------------------------------------------------
(* A step is one request's: it leaves the others alone.                    *)

Alone(r) ==
  /\ Form'
  /\ \A x \in Requests \ {r} : req'[x] = req[x] /\ task'[x] = task[x] /\ sem'[x] = sem[x] /\ chan'[x] = chan[x]

\* The one request's own record, and the task of its i-th file, become.
Becomes(r, q) == req' = [req EXCEPT ![r] = q]
Moved(r, i, t) == task' = [task EXCEPT ![r] = [task[r] EXCEPT ![i] = t]]

\* If its own part of the invariant is kept, that of all is.
LEMMA LocalsKept ==
  ASSUME Locals, NEW r \in Requests, Alone(r), LocalOK(r, req'[r], task'[r], sem'[r], chan'[r])
  PROVE  Locals'
BY DEF Locals, Alone

\* What a record's update makes of it.
LEMMA ReqUpdates ==
  ASSUME Locals, NEW r \in Requests, NEW pc
  PROVE  /\ Go(r, pc) => Becomes(r, [pc |-> pc, shape |-> req[r].shape, started |-> req[r].started, answer |-> req[r].answer])
         /\ \A a : Answer(r, a) => Becomes(r, [pc |-> "done", shape |-> req[r].shape, started |-> req[r].started, answer |-> a])
         /\ \A n : req' = [req EXCEPT ![r].started = n, ![r].pc = pc] =>
              Becomes(r, [pc |-> pc, shape |-> req[r].shape, started |-> n, answer |-> req[r].answer])
<1>1. req = [x \in Requests |-> req[x]]
      /\ req[r] = [pc |-> req[r].pc, shape |-> req[r].shape, started |-> req[r].started, answer |-> req[r].answer]
  BY DEF Locals, Form, LocalOK, ReqOK
<1>2. QED
  BY <1>1 DEF Go, Answer, Becomes

\* The record of one request is the new one, the others are as they were.
LEMMA ReqBecomes ==
  ASSUME Locals, NEW r \in Requests, NEW q, Becomes(r, q)
  PROVE  /\ req' = [x \in Requests |-> req'[x]] /\ req'[r] = q /\ \A x \in Requests \ {r} : req'[x] = req[x]
BY DEF Locals, Form, Becomes

\* The function f of functions, with its cell at r and i replaced.
Cell(f, r, i, t) == [f EXCEPT ![r] = [f[r] EXCEPT ![i] = t]]

\* A cell may be replaced again.
LEMMA CellAgain ==
  ASSUME NEW S, NEW f, f = [x \in S |-> f[x]], NEW r \in S, f[r] = [j \in DOMAIN f[r] |-> f[r][j]],
         NEW i \in DOMAIN f[r], NEW t, NEW u, NEW h, h = Cell(f, r, i, t)
  PROVE  h[r][i] = t /\ [h EXCEPT ![r] = [h[r] EXCEPT ![i] = u]] = Cell(f, r, i, u)
<1>1. PICK g : g = f[r]
  OBVIOUS
<1>2. h = [x \in S |-> IF x = r THEN [j \in DOMAIN g |-> IF j = i THEN t ELSE g[j]] ELSE f[x]]
  BY <1>1 DEF Cell
<1>3. h[r] = [j \in DOMAIN g |-> IF j = i THEN t ELSE g[j]]
  BY <1>2
<1>4. [h[r] EXCEPT ![i] = u] = [j \in DOMAIN g |-> IF j = i THEN u ELSE g[j]]
  BY <1>1, <1>3
<1>5. [g EXCEPT ![i] = u] = [j \in DOMAIN g |-> IF j = i THEN u ELSE g[j]]
  BY <1>1
<1>6. PICK v : v = [g EXCEPT ![i] = u]
  OBVIOUS
<1>7. [h EXCEPT ![r] = v] = [f EXCEPT ![r] = v]
  BY <1>2
<1>8. QED
  BY <1>1, <1>3, <1>4, <1>5, <1>6, <1>7 DEF Cell

TaskOf(pc, body, ok, archive) == [pc |-> pc, body |-> body, ok |-> ok, archive |-> archive]

\* A table of tasks, with one at r and i.
Table(f, r, i, t) ==
  /\ f = [x \in Requests |-> f[x]] /\ f[r] = [j \in DOMAIN f[r] |-> f[r][j]]
  /\ i \in DOMAIN f[r] /\ t = f[r][i] /\ t = TaskOf(t.pc, t.body, t.ok, t.archive)

\* A record in a cell with some of its fields replaced is a cell replaced.
PcSet(f, r, i, pc) == [f EXCEPT ![r][i].pc = pc]
BodySet(f, r, i, pc, body) == [f EXCEPT ![r][i].pc = pc, ![r][i].body = body]
EndSet(f, r, i, pc, ok, archive) == [f EXCEPT ![r][i].pc = pc, ![r][i].ok = ok, ![r][i].archive = archive]

\* PcSet, BodySet and EndSet replace the cell by a task with those fields.
LEMMA CellFields ==
  ASSUME NEW f, NEW r \in Requests, NEW i, NEW t, Table(f, r, i, t),
         NEW pc, NEW body, NEW ok, NEW archive
  PROVE  /\ PcSet(f, r, i, pc) = Cell(f, r, i, TaskOf(pc, t.body, t.ok, t.archive))
         /\ BodySet(f, r, i, pc, body) = Cell(f, r, i, TaskOf(pc, body, t.ok, t.archive))
         /\ EndSet(f, r, i, pc, ok, archive) = Cell(f, r, i, TaskOf(pc, t.body, ok, archive))
<1>1. PICK t1, t2 : /\ t1 = TaskOf(pc, t.body, t.ok, t.archive)
                    /\ t2 = TaskOf(pc, t.body, ok, t.archive)
  OBVIOUS
<1>2. PICK h1, h2 : h1 = Cell(f, r, i, t1) /\ h2 = Cell(f, r, i, t2)
  OBVIOUS
<1>3. /\ f = [x \in Requests |-> f[x]] /\ f[r] = [j \in DOMAIN f[r] |-> f[r][j]]
       /\ i \in DOMAIN f[r] /\ t = f[r][i] /\ t = TaskOf(t.pc, t.body, t.ok, t.archive)
  BY DEF Table
<1>4. t1 = [t EXCEPT !.pc = pc]
  BY <1>1, <1>3 DEF TaskOf
<1>5. PcSet(f, r, i, pc) = h1
  BY <1>2, <1>4, <1>3 DEF Cell, PcSet
<1>6. h1[r][i] = t1 /\ h2[r][i] = t2
  BY <1>2, <1>3, CellAgain
<1>7. \A u : [h1 EXCEPT ![r] = [h1[r] EXCEPT ![i] = u]] = Cell(f, r, i, u)
  BY <1>2, <1>3, CellAgain
<1>8. \A u : [h2 EXCEPT ![r] = [h2[r] EXCEPT ![i] = u]] = Cell(f, r, i, u)
  BY <1>2, <1>3, CellAgain
<1>9. BodySet(f, r, i, pc, body) = Cell(f, r, i, TaskOf(pc, body, t.ok, t.archive))
  <2>1. PICK u : u = [t1 EXCEPT !.body = body]
    OBVIOUS
  <2>2. u = TaskOf(pc, body, t.ok, t.archive)
    BY <1>1, <2>1 DEF TaskOf
  <2>3. BodySet(f, r, i, pc, body) = [h1 EXCEPT ![r] = [h1[r] EXCEPT ![i] = [h1[r][i] EXCEPT !.body = body]]]
    BY <1>2, <1>4, <1>3 DEF Cell, BodySet
  <2>4. QED
    BY <1>6, <1>7, <2>1, <2>2, <2>3, Zenon
<1>10. EndSet(f, r, i, pc, ok, archive) = Cell(f, r, i, TaskOf(pc, t.body, ok, archive))
  <2>1. [t1 EXCEPT !.ok = ok] = t2
    BY <1>1 DEF TaskOf
  <2>2. PICK u : u = [t2 EXCEPT !.archive = archive]
    OBVIOUS
  <2>3. u = TaskOf(pc, t.body, ok, archive)
    BY <1>1, <2>2 DEF TaskOf
  <2>4. [h1 EXCEPT ![r] = [h1[r] EXCEPT ![i] = [h1[r][i] EXCEPT !.ok = ok]]] = h2
    BY <1>2, <1>6, <1>7, <2>1, Zenon
  <2>5. EndSet(f, r, i, pc, ok, archive) =
          [h2 EXCEPT ![r] = [h2[r] EXCEPT ![i] = [h2[r][i] EXCEPT !.archive = archive]]]
    BY <1>2, <1>4, <1>3, <2>4 DEF Cell, EndSet
  <2>6. QED
    BY <1>6, <1>8, <2>2, <2>3, <2>5, Zenon
<1>11. QED
  BY <1>1, <1>2, <1>5, <1>9, <1>10, Zenon

\* What the updates of a task make of it.
LEMMA TaskUpdates ==
  ASSUME Locals, NEW r \in Requests, NEW i \in DOMAIN task[r], NEW t, t = task[r][i]
  PROVE  /\ \A pc : GoTask(r, i, pc) => Moved(r, i, TaskOf(pc, t.body, t.ok, t.archive))
         /\ \A pc, body : task' = BodySet(task, r, i, pc, body) =>
              Moved(r, i, TaskOf(pc, body, t.ok, t.archive))
         /\ \A ok, archive : Done(r, i, ok, archive) =>
              Moved(r, i, TaskOf("report", t.body, ok, archive))
<1>1. /\ task = [x \in Requests |-> task[x]] /\ task[r] = [j \in DOMAIN task[r] |-> task[r][j]]
      /\ task[r][i] \in TaskSet
  BY DEF Locals, Form, LocalOK, TasksOK, TaskOK
<1>2. t = TaskOf(t.pc, t.body, t.ok, t.archive)
  BY <1>1 DEF TaskSet, TaskOf
<1>3. PICK f : f = task
  OBVIOUS
<1>4. Table(f, r, i, t)
  BY <1>1, <1>2, <1>3 DEF Table
<1>5. \A pc : PcSet(f, r, i, pc) = Cell(f, r, i, TaskOf(pc, t.body, t.ok, t.archive))
  BY <1>4, CellFields
<1>6. \A pc, body : BodySet(f, r, i, pc, body) =
        Cell(f, r, i, TaskOf(pc, body, t.ok, t.archive))
  BY <1>4, CellFields
<1>7. \A pc, ok, archive : EndSet(f, r, i, pc, ok, archive) = Cell(f, r, i, TaskOf(pc, t.body, ok, archive))
  BY <1>4, CellFields
<1>8. \A u : task' = Cell(f, r, i, u) => Moved(r, i, u)
  BY <1>3 DEF Cell, Moved
<1>9. \A pc : GoTask(r, i, pc) => task' = PcSet(f, r, i, pc)
  BY <1>3, Zenon DEF GoTask, PcSet
<1>10. \A ok, archive : Done(r, i, ok, archive) => task' = EndSet(f, r, i, "report", ok, archive)
  BY <1>3, Zenon DEF Done, EndSet
<1>11. QED
  BY <1>3, <1>5, <1>6, <1>7, <1>8, <1>9, <1>10

\* One task has moved, the others are where they were.
LEMMA TaskMoved ==
  ASSUME Locals, NEW r \in Requests, NEW i \in DOMAIN task[r], NEW t, Moved(r, i, t)
  PROVE  /\ DOMAIN task'[r] = DOMAIN task[r] /\ task'[r][i] = t
         /\ \A j \in DOMAIN task[r] : j # i => task'[r][j] = task[r][j]
         /\ \A x \in Requests \ {r} : task'[x] = task[x]
<1>1. task = [x \in Requests |-> task[x]] /\ task[r] = [j \in DOMAIN task[r] |-> task[r][j]]
  BY DEF Locals, Form, LocalOK, TasksOK
<1>2. task'[r] = [task[r] EXCEPT ![i] = t] /\ \A x \in Requests \ {r} : task'[x] = task[x]
  BY <1>1 DEF Moved
<1>3. QED
  BY <1>1, <1>2

\* The update of a task keeps the table's form.
LEMMA TaskForm ==
  ASSUME Locals, NEW r \in Requests, NEW i, NEW t, Moved(r, i, t)
  PROVE  task' = [x \in Requests |-> task'[x]] /\ task'[r] = [task[r] EXCEPT ![i] = t]
BY DEF Locals, Form, Moved

\* A request goes its way, from before it arrived to its answer, and the tasks
\* keep what they stored.
Kept(r) ==
  /\ req'[r].shape = req[r].shape
  /\ req[r].pc = "done" => req'[r].pc = "done"
  /\ req'[r].pc # "idle" \/ req[r].pc = "idle"
  /\ req[r].pc = "idle" /\ req'[r].pc # "idle" => Told(r)
  /\ \A i \in DOMAIN task[r] :
       /\ i \in DOMAIN task'[r]
       /\ task[r][i].pc \in PastPut => task'[r][i].pc \in PastPut /\ task'[r][i].body = task[r][i].body

\* What a request for a delete condemns.
LEMMA CondemnedHas ==
  ASSUME NEW r \in Requests, req[r].shape.op \in Deletes, req[r].pc # "idle", NEW i \in DOMAIN req[r].shape.files
  PROVE  /\ <<req[r].shape.bucket, req[r].shape.files[i].key>> \in Condemned
         /\ req[r].shape.aws => <<req[r].shape.bucket, req[r].shape.files[i].key>> \in AwsCondemned
BY DEF Condemned, AwsCondemned, Deleting, Places, Shape, File

\* What is to be deleted stays so.
LEMMA CondemnedGrows ==
  ASSUME NEW r \in Requests, Alone(r), Kept(r)
  PROVE  Condemned \subseteq Condemned' /\ AwsCondemned \subseteq AwsCondemned'
<1>1. ASSUME NEW x \in Requests, req[x].pc # "idle"
      PROVE  req'[x].shape = req[x].shape /\ req'[x].pc # "idle"
  BY <1>1 DEF Alone, Kept
<1>2. Deleting \subseteq Deleting'
  BY <1>1 DEF Deleting, Shape
<1>3. ASSUME NEW x \in Deleting
      PROVE  Places(x) = Places(x)' /\ Shape(x) = Shape(x)'
  BY <1>1, <1>3 DEF Deleting, Places, Shape, File
<1>4. QED
  BY <1>2, <1>3 DEF Condemned, AwsCondemned

\* It does not change while the requests do not.
LEMMA CondemnedSame ==
  ASSUME req' = req
  PROVE  Condemned' = Condemned /\ AwsCondemned' = AwsCondemned
BY DEF Condemned, AwsCondemned, Deleting, Places, Shape, File

\* Nobody is told a name whose upload still runs.
LEMMA ToldsKept ==
  ASSUME Tolds, NEW r \in Requests, Alone(r), Kept(r)
  PROVE  Tolds'
<1> SUFFICES ASSUME NEW x \in Requests, req'[x].pc # "idle"
             PROVE  Told(x)'
  BY DEF Tolds
<1>1. req'[x].shape = req[x].shape /\ Told(x)
  <2>1. CASE x = r
    BY <2>1 DEF Kept, Tolds
  <2>2. CASE x # r
    BY <2>2 DEF Alone, Tolds
  <2>3. QED
    BY <2>1, <2>2
<1>2. \A q \in Requests : req[q].pc = "done" => req'[q].pc = "done"
  BY DEF Alone, Kept
<1>3. QED
  BY <1>1, <1>2 DEF Told, Shape, File

\* What an upload puts is under no key that was asked for.
LEMMA NotAsked ==
  ASSUME Locals, Tolds, NEW r \in Requests, NEW i \in 1 .. Len(req[r].shape.files),
         req[r].shape.op \in Uploads, req[r].pc # "done",
         NEW x \in Requests, req[x].pc # "idle", req[x].shape.op \notin Uploads, NEW j \in 1 .. Len(req[x].shape.files)
  PROVE  KeyOf(r, req[r].shape, i) # KeyOf(x, req[x].shape, j)
<1>1. ShapeOK(r, req[r].shape) /\ ShapeOK(x, req[x].shape) /\ Told(x)
  BY DEF Locals, LocalOK, Tolds
<1>2. PICK k : k = KeyOf(r, req[r].shape, i)
  OBVIOUS
<1>3. k \in Seq(Symbols) /\ Len(k) = 1 /\ k[1] = Uuid[r][i] /\ i \in DOMAIN Uuid[r]
  BY <1>1, <1>2, RandomKeys
<1>4. 1 \in DOMAIN k
  BY <1>3
<1>5. DOMAIN req[x].shape.files = 1 .. Len(req[x].shape.files)
  BY <1>1 DEF ShapeOK, Shapes
<1>6. KeyOf(x, req[x].shape, j) = req[x].shape.files[j].key
  BY DEF KeyOf
<1>7. k # req[x].shape.files[j].key
  BY <1>1, <1>3, <1>4, <1>5 DEF Told, Shape, File
<1>8. QED
  BY <1>2, <1>6, <1>7

\* What comes into the stores is an upload's of r, and r's tasks are truthful.
LEMMA StoresKept ==
  ASSUME Locals, Stores, NEW r \in Requests, Alone(r), Kept(r), env' = env,
         \A b \in buckets' : BucketName(b), Safe(minio, s3, minio', s3', Condemned', AwsCondemned'),
         \A o \in minio' : o \in minio \/ \E i \in 1 .. MaxBatch :
           /\ req[r].pc # "done" /\ i \in 1 .. Len(req[r].shape.files)
           /\ Uploaded(req'[r].shape, task'[r], i) /\ o = OwnObject(r, req'[r].shape, i, task'[r][i]),
         \A o \in s3' : o \in s3 \/ \E i \in 1 .. MaxBatch :
           Uploaded(req'[r].shape, task'[r], i) /\ o = OwnCopy(env.dest, r, req'[r].shape, i, task'[r][i]),
         \A i \in DOMAIN task'[r] : Truth(minio', s3', Condemned', AwsCondemned', env.dest, r, req'[r].shape, i, task'[r][i])
  PROVE  Stores'
<1>1. \A x \in Requests : \A i \in 1 .. MaxBatch :
        Uploaded(req[x].shape, task[x], i) =>
          /\ Uploaded(req'[x].shape, task'[x], i)
          /\ req'[x].shape = req[x].shape /\ task'[x][i].body = task[x][i].body
  BY DEF Alone, Kept, Uploaded
<1>2. MinioForm'
  <2> SUFFICES ASSUME NEW o \in minio'
               PROVE  Known(o[2]) \/ \E x \in Requests : \E i \in 1 .. MaxBatch :
                        Uploaded(req'[x].shape, task'[x], i) /\ o = OwnObject(x, req'[x].shape, i, task'[x][i])
    BY DEF MinioForm
  <2>1. CASE o \in minio
    <3>1. CASE ~Known(o[2])
      <4>1. PICK x \in Requests, i \in 1 .. MaxBatch :
              Uploaded(req[x].shape, task[x], i) /\ o = OwnObject(x, req[x].shape, i, task[x][i])
        BY <2>1, <3>1 DEF Stores, MinioForm
      <4>2. QED
        BY <1>1, <4>1 DEF OwnObject
    <3>2. QED
      BY <3>1
  <2>2. CASE o \notin minio
    BY <2>2
  <2>3. QED
    BY <2>1, <2>2
<1>3. S3Form'
  <2> SUFFICES ASSUME NEW o \in s3'
               PROVE  \/ \E l \in Cold : o = ObjectAt(env.dest, l[1], l[2], "raw")
                      \/ \E x \in Requests : \E i \in 1 .. MaxBatch :
                           Uploaded(req'[x].shape, task'[x], i) /\ o = OwnCopy(env.dest, x, req'[x].shape, i, task'[x][i])
    BY DEF S3Form
  <2>1. CASE o \in s3
    <3>1. CASE \A l \in Cold : o # ObjectAt(env.dest, l[1], l[2], "raw")
      <4>1. PICK x \in Requests, i \in 1 .. MaxBatch :
              Uploaded(req[x].shape, task[x], i) /\ o = OwnCopy(env.dest, x, req[x].shape, i, task[x][i])
        BY <2>1, <3>1 DEF Stores, S3Form
      <4>2. QED
        BY <1>1, <4>1 DEF OwnCopy
    <3>2. QED
      BY <3>1
  <2>2. CASE o \notin s3
    BY <2>2
  <2>3. QED
    BY <2>1, <2>2
<1>4. Truths'
  <2> SUFFICES ASSUME NEW x \in Requests, NEW i \in DOMAIN task'[x]
               PROVE  Truth(minio', s3', Condemned', AwsCondemned', env.dest, x, req'[x].shape, i, task'[x][i])
    BY DEF Truths
  <2>1. CASE x = r
    BY <2>1
  <2>2. CASE x # r
    <3>1. req'[x] = req[x] /\ task'[x] = task[x]
      BY <2>2 DEF Alone
    <3>2. TasksOK(req[x], task[x])
      BY DEF Locals, LocalOK
    <3>3. i \in 1 .. Len(req[x].shape.files) /\ req[x].pc # "idle"
      <4>1. i \in DOMAIN task[x]
        BY <3>1
      <4>2. QED
        BY <3>2, <4>1 DEF TasksOK
    <3>4. Truth(minio, s3, Condemned, AwsCondemned, env.dest, x, req[x].shape, i, task[x][i])
      BY <3>1 DEF Stores, Truths
    <3>5. ASSUME req[x].shape.op \notin Uploads, NEW o \in minio', o \notin minio
          PROVE  o[2] # KeyOf(x, req[x].shape, i)
      <4>1. PICK j \in 1 .. MaxBatch :
              /\ req[r].pc # "done" /\ j \in 1 .. Len(req[r].shape.files)
              /\ Uploaded(req'[r].shape, task'[r], j) /\ o = OwnObject(r, req'[r].shape, j, task'[r][j])
        BY <3>5
      <4>2. req[r].shape.op \in Uploads /\ o[2] = KeyOf(r, req[r].shape, j)
        BY <4>1 DEF Uploaded, OwnObject, Kept
      <4>3. QED
        BY <3>3, <3>5, <4>1, <4>2, NotAsked DEF Stores
    <3>6. Truth(minio', s3', Condemned', AwsCondemned', env.dest, x, req[x].shape, i, task[x][i])
      BY <3>4, <3>5, CondemnedGrows, TruthKept
    <3>7. QED
      BY <3>1, <3>6
  <2>3. QED
    BY <2>1, <2>2
<1>5. Tolds'
  BY ToldsKept DEF Stores
<1>6. QED
  BY <1>2, <1>3, <1>4, <1>5 DEF Stores

\* A step of one task, in the stores.
LEMMA TaskStores ==
  ASSUME Locals, Stores, NEW r \in Requests, NEW i \in DOMAIN task[r], NEW t, Moved(r, i, t), Alone(r),
         req'[r].shape = req[r].shape, req'[r].pc \in {req[r].pc, "start", "collect"}, task[r][i].pc # "gone",
         env' = env, buckets' = buckets,
         task[r][i].pc \in PastPut => t.pc \in PastPut /\ t.body = task[r][i].body,
         Safe(minio, s3, minio', s3', Condemned', AwsCondemned'),
         \A o \in minio' : o \in minio \/ (req[r].shape.op \in Uploads /\ t.pc \in PastPut /\ o = OwnObject(r, req[r].shape, i, t)),
         \A o \in s3' : o \in s3 \/ (req[r].shape.op \in Uploads /\ t.pc \in PastPut /\ o = OwnCopy(env.dest, r, req[r].shape, i, t)),
         Truth(minio', s3', Condemned', AwsCondemned', env.dest, r, req[r].shape, i, t)
  PROVE  Stores'
<1>1. /\ DOMAIN task'[r] = DOMAIN task[r] /\ task'[r][i] = t
      /\ \A j \in DOMAIN task[r] : j # i => task'[r][j] = task[r][j]
  BY TaskMoved
<1>2. ShapeOK(r, req[r].shape) /\ TasksOK(req[r], task[r]) /\ req[r].pc \in {"start", "collect"}
  BY TaskAlive DEF Locals, LocalOK
<1>3. DOMAIN task[r] \subseteq 1 .. MaxBatch /\ DOMAIN task[r] = 1 .. Len(req[r].shape.files)
  BY <1>2, TasksFinite DEF TasksOK
<1>4. Kept(r)
  BY <1>1, <1>2 DEF Kept
<1>5. i \in 1 .. MaxBatch /\ (req[r].shape.op \in Uploads /\ t.pc \in PastPut => Uploaded(req'[r].shape, task'[r], i))
  BY <1>1, <1>3 DEF Uploaded
<1>6. ASSUME NEW j \in DOMAIN task'[r]
      PROVE  Truth(minio', s3', Condemned', AwsCondemned', env.dest, r, req'[r].shape, j, task'[r][j])
  <2>1. CASE j = i
    BY <1>1, <2>1
  <2>2. CASE j # i
    <3>1. task'[r][j] = task[r][j] /\ j \in 1 .. Len(req[r].shape.files) /\ j \in DOMAIN task[r]
      BY <1>1, <1>3, <2>2
    <3>2. Truth(minio, s3, Condemned, AwsCondemned, env.dest, r, req[r].shape, j, task[r][j])
      BY <3>1 DEF Stores, Truths
    <3>3. req[r].shape.op \notin Uploads => \A o \in minio' : o \in minio
      OBVIOUS
    <3>4. Truth(minio', s3', Condemned', AwsCondemned', env.dest, r, req[r].shape, j, task[r][j])
      BY <1>4, <3>2, <3>3, CondemnedGrows, TruthKept
    <3>5. QED
      BY <3>1, <3>4
  <2>3. QED
    BY <2>1, <2>2
<1>7. \A b \in buckets' : BucketName(b)
  BY DEF Stores
<1>8. \A o \in minio' : o \in minio \/ \E j \in 1 .. MaxBatch :
         /\ req[r].pc # "done" /\ j \in 1 .. Len(req[r].shape.files)
         /\ Uploaded(req'[r].shape, task'[r], j) /\ o = OwnObject(r, req'[r].shape, j, task'[r][j])
  BY <1>1, <1>2, <1>3, <1>5
<1>9. \A o \in s3' : o \in s3 \/ \E j \in 1 .. MaxBatch :
         Uploaded(req'[r].shape, task'[r], j) /\ o = OwnCopy(env.dest, r, req'[r].shape, j, task'[r][j])
  BY <1>1, <1>5
<1>10. QED
  BY <1>4, <1>6, <1>7, <1>8, <1>9, StoresKept

-----------------------------------------------------------------------------
(* The slots of the process.                                               *)

\* Who encodes and who decodes are finitely many.
LEMMA SlotsFinite ==
  IsFiniteSet(Encoding) /\ IsFiniteSet(Decoding)
<1>1. IsFiniteSet(Requests) /\ MaxBatch \in Nat
  BY HandlersAssumption
<1>2. IsFiniteSet(Requests \X (1 .. MaxBatch))
  <2>1. IsFiniteSet(1 .. MaxBatch)
    BY <1>1, FS_Interval
  <2>2. QED
    BY <1>1, <2>1, FS_Product
<1>3. Encoding \subseteq Requests \X (1 .. MaxBatch) /\ Decoding \subseteq Requests
  BY DEF Encoding, Tasks, Decoding
<1>4. QED
  BY <1>1, <1>2, <1>3, FS_Subset

\* Who encodes after a step of one task.
LEMMA EncodingMoved ==
  ASSUME Locals, NEW r \in Requests, NEW i \in DOMAIN task[r], NEW t, Moved(r, i, t)
  PROVE  /\ task[r][i].pc # "encode" /\ t.pc # "encode" => Encoding' = Encoding
         /\ task[r][i].pc # "encode" /\ t.pc = "encode" => <<r, i>> \notin Encoding /\ Encoding' = Encoding \union {<<r, i>>}
         /\ task[r][i].pc = "encode" /\ t.pc # "encode" => <<r, i>> \in Encoding /\ Encoding' = Encoding \ {<<r, i>>}
<1>1. /\ DOMAIN task'[r] = DOMAIN task[r] /\ task'[r][i] = t
      /\ \A j \in DOMAIN task[r] : j # i => task'[r][j] = task[r][j]
      /\ \A x \in Requests \ {r} : task'[x] = task[x]
  BY TaskMoved
<1>2. i \in 1 .. MaxBatch
  BY TasksFinite DEF Locals, LocalOK
<1>3. \A x \in Requests, j \in 1 .. MaxBatch :
        /\ <<x, j>> \in Encoding <=> (j \in DOMAIN task[x] /\ task[x][j].pc = "encode")
        /\ <<x, j>> \in Encoding' <=> (j \in DOMAIN task'[x] /\ task'[x][j].pc = "encode")
  BY DEF Encoding, Tasks
<1>4. Encoding \subseteq Requests \X (1 .. MaxBatch) /\ Encoding' \subseteq Requests \X (1 .. MaxBatch)
  BY DEF Encoding, Tasks
<1>5. \A x \in Requests, j \in 1 .. MaxBatch : <<x, j>> # <<r, i>> => (<<x, j>> \in Encoding' <=> <<x, j>> \in Encoding)
  BY <1>1, <1>3
<1>6. \A p \in Requests \X (1 .. MaxBatch) : p # <<r, i>> => (p \in Encoding' <=> p \in Encoding)
  BY <1>5
<1>7. (<<r, i>> \in Encoding <=> task[r][i].pc = "encode") /\ (<<r, i>> \in Encoding' <=> t.pc = "encode")
  BY <1>1, <1>2, <1>3
<1>8. QED
  BY <1>4, <1>6, <1>7

\* Who encodes after a step that touches no task that does.
LEMMA EncodingSame ==
  ASSUME \A x \in Requests : \A j \in 1 .. MaxBatch :
           (j \in DOMAIN task[x] /\ task[x][j].pc = "encode") <=> (j \in DOMAIN task'[x] /\ task'[x][j].pc = "encode")
  PROVE  Encoding' = Encoding
BY DEF Encoding, Tasks

\* Who decodes after a step of one request.
LEMMA DecodingMoved ==
  ASSUME Locals, NEW r \in Requests, NEW q, Becomes(r, q)
  PROVE  /\ req[r].pc # "decode" /\ q.pc # "decode" => Decoding' = Decoding
         /\ req[r].pc # "decode" /\ q.pc = "decode" => r \notin Decoding /\ Decoding' = Decoding \union {r}
         /\ req[r].pc = "decode" /\ q.pc # "decode" => r \in Decoding /\ Decoding' = Decoding \ {r}
<1>1. req'[r] = q /\ \A x \in Requests \ {r} : req'[x] = req[x]
  BY ReqBecomes
<1>2. QED
  BY <1>1 DEF Decoding

\* A call's failure is counted within the bound.
LEMMA FaultsBound ==
  ASSUME Slots, Fail \/ Works
  PROVE  faults' \in 0 .. MaxFaults
BY HandlersAssumption DEF Slots, Fail, Works

\* A step that takes and frees no slot.
LEMMA SlotsKept ==
  ASSUME Slots, Encoding' = Encoding, Decoding' = Decoding, optSem' = optSem, resizeSem' = resizeSem,
         faults' \in 0 .. MaxFaults
  PROVE  Slots'
BY DEF Slots

-----------------------------------------------------------------------------
(* One lemma for each step of a task.                                      *)

\* What is known where a task takes a step.
LEMMA TaskHere ==
  ASSUME Locals, NEW r \in Requests, NEW i \in DOMAIN task[r]
  PROVE  /\ LocalOK(r, req[r], task[r], sem[r], chan[r]) /\ ShapeOK(r, req[r].shape)
         /\ i \in 1 .. Len(req[r].shape.files) /\ i \in 1 .. MaxBatch
         /\ TaskOK(req[r].shape, i, task[r][i]) /\ task[r][i] \in TaskSet
<1>1. LocalOK(r, req[r], task[r], sem[r], chan[r])
  BY DEF Locals
<1>2. ShapeOK(r, req[r].shape) /\ TasksOK(req[r], task[r])
  BY <1>1 DEF LocalOK
<1>3. QED
  BY <1>1, <1>2, TasksFinite DEF TasksOK, TaskOK

\* A step between a task's start and its report.
LEMMA TaskKeeps ==
  ASSUME HandlersInv, NEW r \in Requests, NEW i \in DOMAIN task[r], NEW t, Moved(r, i, t),
         task[r][i].pc \notin {"none", "release", "gone"}, t.pc \notin {"none", "release", "gone"},
         TaskOK(req[r].shape, i, t),
         task[r][i].pc \in PastPut => t.pc \in PastPut /\ t.body = task[r][i].body,
         UNCHANGED <<env, buckets, req, sem, chan>>,
         Safe(minio, s3, minio', s3', Condemned', AwsCondemned'),
         \A o \in minio' : o \in minio \/ (req[r].shape.op \in Uploads /\ t.pc \in PastPut /\ o = OwnObject(r, req[r].shape, i, t)),
         \A o \in s3' : o \in s3 \/ (req[r].shape.op \in Uploads /\ t.pc \in PastPut /\ o = OwnCopy(env.dest, r, req[r].shape, i, t)),
         Truth(minio', s3', Condemned', AwsCondemned', env.dest, r, req[r].shape, i, t)
  PROVE  env' \in Environments /\ Locals' /\ Stores' /\ Decoding' = Decoding
<1>1. Locals /\ Stores /\ env' \in Environments /\ req' = req /\ env' = env /\ buckets' = buckets
      /\ sem' = sem /\ chan' = chan
  BY DEF HandlersInv
<1>2. task' = [x \in Requests |-> task'[x]] /\ task'[r] = [task[r] EXCEPT ![i] = t]
  BY <1>1, TaskForm
<1>3. \A x \in Requests \ {r} : task'[x] = task[x]
  BY <1>1, TaskMoved
<1>4. Alone(r)
  BY <1>1, <1>2, <1>3 DEF Alone, Form, Locals
<1>5. LocalOK(r, req[r], task[r], sem[r], chan[r])
  BY <1>1 DEF Locals
<1>6. LocalOK(r, req[r], [task[r] EXCEPT ![i] = t], sem[r], chan[r])
  BY <1>5, TaskMove
<1>7. Locals'
  <2>1. LocalOK(r, req'[r], task'[r], sem'[r], chan'[r])
    BY <1>1, <1>2, <1>6
  <2>2. QED
    BY <1>1, <1>4, <2>1, LocalsKept
<1>8. Stores'
  BY <1>1, <1>4, TaskStores
<1>9. Decoding' = Decoding
  BY <1>1 DEF Decoding
<1>10. QED
  BY <1>1, <1>7, <1>8, <1>9

\* Such a step that leaves the stores alone.
LEMMA TaskQuiet ==
  ASSUME HandlersInv, NEW r \in Requests, NEW i \in DOMAIN task[r], NEW t, Moved(r, i, t),
         task[r][i].pc \in {"begin", "optimize", "encode", "typed", "put"},
         t.pc \in {"optimize", "encode", "typed", "put", "report"}, t.pc = "report" => ~t.ok,
         TaskOK(req[r].shape, i, t),
         UNCHANGED <<env, storage, req, sem, chan>>
  PROVE  env' \in Environments /\ Locals' /\ Stores' /\ Decoding' = Decoding
<1>1. minio' = minio /\ s3' = s3 /\ UNCHANGED <<env, buckets, req, sem, chan>>
  BY DEF storage
<1>2. Safe(minio, s3, minio', s3', Condemned', AwsCondemned')
  BY <1>1 DEF Safe
<1>3. Truth(minio', s3', Condemned', AwsCondemned', env.dest, r, req[r].shape, i, t)
  BY DEF Truth, Ended
<1>4. task[r][i].pc \notin PastPut
  BY DEF PastPut
<1>5. task[r][i].pc \notin {"none", "release", "gone"} /\ t.pc \notin {"none", "release", "gone"}
  OBVIOUS
<1>6. (\A o \in minio' : o \in minio) /\ (\A o \in s3' : o \in s3)
  BY <1>1
<1>7. QED
  BY <1>1, <1>2, <1>3, <1>4, <1>5, <1>6, TaskKeeps

\* No one's slot is touched by a task that neither starts nor ends encoding.
LEMMA TaskSlots ==
  ASSUME HandlersInv, NEW r \in Requests, NEW i \in DOMAIN task[r], NEW t, Moved(r, i, t),
         task[r][i].pc # "encode", t.pc # "encode", Decoding' = Decoding,
         UNCHANGED <<optSem, resizeSem>>, Fail \/ Works
  PROVE  Slots'
<1>1. Encoding' = Encoding
  BY EncodingMoved DEF HandlersInv
<1>2. QED
  BY <1>1, FaultsBound, SlotsKept DEF HandlersInv

\* A task of an upload goes on with a body.
LEMMA TaskGoes ==
  ASSUME Locals, NEW r \in Requests, NEW i \in DOMAIN task[r], req[r].shape.op \in Uploads,
         NEW body \in BodiesOf(req[r].shape, i), NEW pc \in {"typed", "put", "mirror", "optimize", "encode"},
         pc \in {"optimize", "encode"} => req[r].shape.optimize,
         task' = BodySet(task, r, i, pc, body) \/ (body = task[r][i].body /\ GoTask(r, i, pc))
  PROVE  \E u : Moved(r, i, u) /\ TaskOK(req[r].shape, i, u) /\ u.pc = pc /\ u.body = body
<1>1. PICK t : t = task[r][i]
  OBVIOUS
<1>2. PICK u : u = TaskOf(pc, body, t.ok, t.archive)
  OBVIOUS
<1>3. t \in TaskSet /\ body \in Bodies4
  BY <1>1, TaskHere DEF BodiesOf, Bodies4
<1>4. u.pc = pc /\ u.body = body /\ u.ok = t.ok /\ u.archive = t.archive /\ u \in TaskSet
  BY <1>2, <1>3 DEF TaskOf, TaskSet, UploadPcs, DeletePcs
<1>5. TaskOK(req[r].shape, i, u)
  BY <1>4 DEF TaskOK, UploadPcs
<1>6. Moved(r, i, u)
  BY <1>1, <1>2, TaskUpdates
<1>7. QED
  BY <1>4, <1>5, <1>6

\* A task has its result.
LEMMA TaskEnds ==
  ASSUME Locals, NEW r \in Requests, NEW i \in DOMAIN task[r], NEW ok \in BOOLEAN,
         NEW archive \in {"none", "stored", "failed", "removed"}, Done(r, i, ok, archive)
  PROVE  \E u : /\ Moved(r, i, u) /\ TaskOK(req[r].shape, i, u) /\ u.pc = "report" /\ u.body = task[r][i].body
                /\ u.ok = ok /\ u.archive = archive
<1>1. PICK t : t = task[r][i]
  OBVIOUS
<1>2. PICK u : u = TaskOf("report", t.body, ok, archive)
  OBVIOUS
<1>3. t \in TaskSet /\ TaskOK(req[r].shape, i, t)
  BY <1>1, TaskHere
<1>4. u.pc = "report" /\ u.body = t.body /\ u.ok = ok /\ u.archive = archive /\ u \in TaskSet
  BY <1>2, <1>3 DEF TaskOf, TaskSet, UploadPcs, DeletePcs
<1>5. TaskOK(req[r].shape, i, u)
  BY <1>3, <1>4 DEF TaskOK, UploadPcs, DeletePcs
<1>6. Moved(r, i, u)
  BY <1>1, <1>2, TaskUpdates
<1>7. QED
  BY <1>1, <1>4, <1>5, <1>6

\* A task ends with an error.
LEMMA TaskFails ==
  ASSUME Locals, NEW r \in Requests, NEW i \in DOMAIN task[r], Failed(r, i)
  PROVE  \E u : /\ Moved(r, i, u) /\ TaskOK(req[r].shape, i, u) /\ u.pc = "report" /\ u.body = task[r][i].body /\ ~u.ok
<1>1. PICK ok \in BOOLEAN : ok = FALSE
  OBVIOUS
<1>2. Done(r, i, ok, "none")
  BY <1>1, Zenon DEF Failed
<1>3. QED
  BY <1>1, <1>2, TaskEnds

\* A file of an upload is validated: its task goes on with a body, or fails.
LEMMA BeginUploadStep ==
  ASSUME HandlersInv, NEW r \in Requests, NEW i, BeginUpload(r, i)
  PROVE  HandlersInv'
<1>1. /\ Locals /\ i \in DOMAIN task[r] /\ task[r][i].pc = "begin" /\ req[r].shape.op \in Uploads
      /\ UNCHANGED <<env, storage, req, sem, chan, optSem, resizeSem, faults>>
  BY DEF BeginUpload, At, Shape, HandlersInv, Uploads
<1>2. task[r][i].body \in BodiesOf(req[r].shape, i)
  BY <1>1, TaskHere DEF TaskOK
<1>3. \E u : /\ Moved(r, i, u) /\ TaskOK(req[r].shape, i, u) /\ u.pc \in {"optimize", "put", "report"}
             /\ u.pc = "report" => ~u.ok
  <2>1. CASE Failed(r, i)
    BY <1>1, <2>1, TaskFails
  <2>2. CASE req[r].shape.optimize /\ GoTask(r, i, "optimize")
    BY <1>1, <1>2, <2>2, TaskGoes
  <2>3. ASSUME NEW body \in IF Shape(r).op = "upload" /\ IsImageFile(File(r, i)) /\ Resizes(Shape(r).want)
                            THEN {"resized", "raw"} ELSE {"raw"},
               task' = BodySet(task, r, i, "put", body)
        PROVE  \E u : Moved(r, i, u) /\ TaskOK(req[r].shape, i, u) /\ u.pc = "put"
    <3>1. body \in BodiesOf(req[r].shape, i)
      BY <2>3 DEF BodiesOf, Shape
    <3>2. QED
      BY <1>1, <2>3, <3>1, TaskGoes
  <2>4. Failed(r, i) \/ (req[r].shape.optimize /\ GoTask(r, i, "optimize"))
          \/ \E body \in IF Shape(r).op = "upload" /\ IsImageFile(File(r, i)) /\ Resizes(Shape(r).want)
                         THEN {"resized", "raw"} ELSE {"raw"} :
               task' = BodySet(task, r, i, "put", body)
    BY Zenon DEF BeginUpload, Shape, BodySet
  <2>5. QED
    BY <2>1, <2>2, <2>3, <2>4
<1>4. PICK u : /\ Moved(r, i, u) /\ TaskOK(req[r].shape, i, u) /\ u.pc \in {"optimize", "put", "report"}
               /\ u.pc = "report" => ~u.ok
  BY <1>3
<1>5. env' \in Environments /\ Locals' /\ Stores' /\ Decoding' = Decoding
  BY <1>1, <1>4, TaskQuiet
<1>6. Slots'
  BY <1>1, <1>4, <1>5, TaskSlots DEF Works
<1>7. QED
  BY <1>5, <1>6 DEF HandlersInv

\* A URL of a batch is fetched, or its task fails.
LEMMA BeginFetchStep ==
  ASSUME HandlersInv, NEW r \in Requests, NEW i, BeginFetch(r, i)
  PROVE  HandlersInv'
<1>1. /\ Locals /\ i \in DOMAIN task[r] /\ task[r][i].pc = "begin" /\ req[r].shape.op = "url"
      /\ UNCHANGED <<env, storage, req, sem, chan, optSem, resizeSem>> /\ (Fail \/ Works)
  BY DEF BeginFetch, At, Shape, HandlersInv
<1>2. req[r].shape.op \in Uploads
  BY <1>1 DEF Uploads
<1>3. \E u : /\ Moved(r, i, u) /\ TaskOK(req[r].shape, i, u) /\ u.pc \in {"optimize", "typed", "report"}
             /\ u.pc = "report" => ~u.ok
  <2>1. CASE Failed(r, i)
    BY <1>1, <2>1, TaskFails
  <2>2. PICK pc, body : pc = (IF Shape(r).optimize THEN "optimize" ELSE "typed") /\ body = IF File(r, i).long THEN "cut" ELSE "raw"
    OBVIOUS
  <2>3. CASE task' = BodySet(task, r, i, pc, body)
    <3>1. body \in BodiesOf(req[r].shape, i) /\ pc \in {"optimize", "typed"} /\ (pc = "optimize" => req[r].shape.optimize)
      BY <1>1, <2>2 DEF BodiesOf, Shape, File
    <3>2. QED
      BY <1>1, <1>2, <2>3, <3>1, TaskGoes
  <2>4. Failed(r, i) \/ task' = BodySet(task, r, i, pc, body)
    BY <2>2, Zenon DEF BeginFetch, BodySet
  <2>5. QED
    BY <2>1, <2>3, <2>4
<1>4. PICK u : /\ Moved(r, i, u) /\ TaskOK(req[r].shape, i, u) /\ u.pc \in {"optimize", "typed", "report"}
               /\ u.pc = "report" => ~u.ok
  BY <1>3
<1>5. env' \in Environments /\ Locals' /\ Stores' /\ Decoding' = Decoding
  BY <1>1, <1>4, TaskQuiet
<1>6. Slots'
  BY <1>1, <1>4, <1>5, TaskSlots
<1>7. QED
  BY <1>5, <1>6 DEF HandlersInv

\* The type of a body is checked: it goes on, or its task fails.
LEMMA CheckTypeStep ==
  ASSUME HandlersInv, NEW r \in Requests, NEW i, CheckType(r, i)
  PROVE  HandlersInv'
<1>1. /\ Locals /\ i \in DOMAIN task[r] /\ task[r][i].pc = "typed"
      /\ UNCHANGED <<env, storage, req, sem, chan, optSem, resizeSem, faults>>
      /\ Failed(r, i) \/ GoTask(r, i, "put")
  BY DEF CheckType, At, HandlersInv
<1>2. req[r].shape.op \in Uploads /\ task[r][i].body \in BodiesOf(req[r].shape, i)
  BY <1>1, TaskHere DEF TaskOK, DeletePcs
<1>3. \E u : Moved(r, i, u) /\ TaskOK(req[r].shape, i, u) /\ u.pc \in {"put", "report"} /\ (u.pc = "report" => ~u.ok)
  <2>1. CASE Failed(r, i)
    BY <1>1, <2>1, TaskFails
  <2>2. CASE GoTask(r, i, "put")
    BY <1>1, <1>2, <2>2, TaskGoes
  <2>3. QED
    BY <1>1, <2>1, <2>2
<1>4. PICK u : Moved(r, i, u) /\ TaskOK(req[r].shape, i, u) /\ u.pc \in {"put", "report"} /\ (u.pc = "report" => ~u.ok)
  BY <1>3
<1>5. env' \in Environments /\ Locals' /\ Stores' /\ Decoding' = Decoding
  BY <1>1, <1>4, TaskQuiet
<1>6. Slots'
  BY <1>1, <1>4, <1>5, TaskSlots DEF Works
<1>7. QED
  BY <1>5, <1>6 DEF HandlersInv

\* A slot of optimizeSem is taken: one more encodes.
LEMMA AcquireOptimizeSlotStep ==
  ASSUME HandlersInv, NEW r \in Requests, NEW i, AcquireOptimizeSlot(r, i)
  PROVE  HandlersInv'
<1>1. /\ Locals /\ Slots /\ i \in DOMAIN task[r] /\ task[r][i].pc = "optimize" /\ GoTask(r, i, "encode")
      /\ optSem < OptimizeSlots /\ optSem' = optSem + 1
      /\ UNCHANGED <<env, storage, req, sem, chan, resizeSem, faults>>
  BY DEF AcquireOptimizeSlot, At, HandlersInv
<1>2. req[r].shape.op \in Uploads /\ task[r][i].body \in BodiesOf(req[r].shape, i) /\ req[r].shape.optimize
  BY <1>1, TaskHere DEF TaskOK, DeletePcs
<1>3. PICK u : Moved(r, i, u) /\ TaskOK(req[r].shape, i, u) /\ u.pc = "encode"
  BY <1>1, <1>2, TaskGoes
<1>4. env' \in Environments /\ Locals' /\ Stores' /\ Decoding' = Decoding
  BY <1>1, <1>3, TaskQuiet
<1>5. <<r, i>> \notin Encoding /\ Encoding' = Encoding \union {<<r, i>>}
  BY <1>1, <1>3, EncodingMoved
<1>6. Cardinality(Encoding') = Cardinality(Encoding) + 1
  BY <1>5, SlotsFinite, FS_AddElement
<1>7. Slots'
  BY <1>1, <1>4, <1>6, HandlersAssumption DEF Slots
<1>8. QED
  BY <1>4, <1>7 DEF HandlersInv

\* The encoding is over: its slot is free again.
LEMMA OptimizedStep ==
  ASSUME HandlersInv, NEW r \in Requests, NEW i, Optimized(r, i)
  PROVE  HandlersInv'
<1>1. /\ Locals /\ Slots /\ i \in DOMAIN task[r] /\ task[r][i].pc = "encode" /\ optSem' = optSem - 1
      /\ UNCHANGED <<env, storage, req, sem, chan, resizeSem, faults>>
  BY DEF Optimized, At, HandlersInv
<1>2. PICK pc : pc = IF Shape(r).op = "url" THEN "typed" ELSE "put"
  OBVIOUS
<1>3. PICK body \in OptimizeImage(File(r, i), task[r][i].body) : task' = BodySet(task, r, i, pc, body)
  BY <1>2, Zenon DEF Optimized, BodySet
<1>4. req[r].shape.op \in Uploads /\ task[r][i].body \in BodiesOf(req[r].shape, i) /\ req[r].shape.optimize
  BY <1>1, TaskHere DEF TaskOK, DeletePcs
<1>5. body \in BodiesOf(req[r].shape, i)
  BY <1>3, <1>4 DEF OptimizeImage, BodiesOf
<1>6. PICK u : Moved(r, i, u) /\ TaskOK(req[r].shape, i, u) /\ u.pc = pc
  BY <1>1, <1>2, <1>3, <1>4, <1>5, TaskGoes
<1>7. pc \in {"typed", "put"}
  BY <1>2
<1>8. env' \in Environments /\ Locals' /\ Stores' /\ Decoding' = Decoding
  BY <1>1, <1>6, <1>7, TaskQuiet
<1>9. <<r, i>> \in Encoding /\ Encoding' = Encoding \ {<<r, i>>}
  BY <1>1, <1>6, <1>7, EncodingMoved
<1>10. Cardinality(Encoding') = Cardinality(Encoding) - 1 /\ Cardinality(Encoding') \in Nat
  BY <1>9, SlotsFinite, FS_RemoveElement, FS_CardinalityType
<1>11. Slots'
  BY <1>1, <1>8, <1>10, HandlersAssumption DEF Slots
<1>12. QED
  BY <1>8, <1>11 DEF HandlersInv

\* An object is put into MinIO under a random name, or its task fails.
LEMMA PutObjectStep ==
  ASSUME HandlersInv, NEW r \in Requests, NEW i, PutObject(r, i)
  PROVE  HandlersInv'
<1>1. /\ Locals /\ i \in DOMAIN task[r] /\ task[r][i].pc = "put" /\ (Fail \/ Works)
      /\ UNCHANGED <<env, buckets, s3, req, sem, chan, optSem, resizeSem>>
  BY DEF PutObject, At, HandlersInv
<1>2. PICK own : own = OwnObject(r, req[r].shape, i, task[r][i])
  OBVIOUS
<1>3. \/ minio' = minio \union {own} /\ GoTask(r, i, "mirror")
      \/ minio' \in {minio, minio \union {own}} /\ Failed(r, i)
  BY <1>2 DEF PutObject, OwnObject, Key, KeyOf, Shape, File
<1>4. ShapeOK(r, req[r].shape) /\ i \in 1 .. Len(req[r].shape.files)
  BY <1>1, TaskHere
<1>5. req[r].shape.op \in Uploads /\ task[r][i].body \in BodiesOf(req[r].shape, i)
  BY <1>1, TaskHere DEF TaskOK, DeletePcs
<1>6. minio \subseteq minio'
  BY <1>3
<1>7. Safe(minio, s3, minio', s3', Condemned', AwsCondemned')
  BY <1>1, <1>6 DEF Safe
<1>8. PICK u : /\ Moved(r, i, u) /\ TaskOK(req[r].shape, i, u) /\ u.body = task[r][i].body
               /\ \/ u.pc = "mirror" /\ minio' = minio \union {own}
                  \/ u.pc = "report" /\ ~u.ok
  <2>1. CASE Failed(r, i)
    BY <1>1, <2>1, TaskFails
  <2>2. CASE minio' = minio \union {own} /\ GoTask(r, i, "mirror")
    BY <1>1, <1>5, <2>2, TaskGoes
  <2>3. QED
    BY <1>3, <2>1, <2>2
<1>9. own = OwnObject(r, req[r].shape, i, u)
  BY <1>2, <1>8 DEF OwnObject
<1>10. Truth(minio', s3', Condemned', AwsCondemned', env.dest, r, req[r].shape, i, u)
  BY <1>5, <1>8, <1>9 DEF Truth, Ended
<1>11. u.pc \in PastPut /\ u.pc \notin {"none", "release", "gone"} /\ u.pc # "encode" /\ task[r][i].pc \notin PastPut
  BY <1>1, <1>8 DEF PastPut
<1>12. \A o \in minio' : o \in minio \/ (req[r].shape.op \in Uploads /\ u.pc \in PastPut /\ o = OwnObject(r, req[r].shape, i, u))
  BY <1>3, <1>5, <1>9, <1>11
<1>13. \A o \in s3' : o \in s3
  BY <1>1
<1>14. env' \in Environments /\ Locals' /\ Stores' /\ Decoding' = Decoding
  BY <1>1, <1>7, <1>8, <1>10, <1>11, <1>12, <1>13, TaskKeeps
<1>15. Slots'
  BY <1>1, <1>8, <1>11, <1>14, TaskSlots
<1>16. QED
  BY <1>14, <1>15 DEF HandlersInv

\* The object is put into the archive, or that fails without undoing the first.
LEMMA MirrorStep ==
  ASSUME HandlersInv, NEW r \in Requests, NEW i, Mirror(r, i)
  PROVE  HandlersInv'
<1>1. /\ Locals /\ Stores /\ i \in DOMAIN task[r] /\ task[r][i].pc = "mirror" /\ (Fail \/ Works)
      /\ UNCHANGED <<env, buckets, minio, req, sem, chan, optSem, resizeSem>>
  BY DEF Mirror, At, HandlersInv
<1>2. PICK copy : copy = OwnCopy(env.dest, r, req[r].shape, i, task[r][i])
  OBVIOUS
<1>3. PICK archive \in {"none", "stored", "failed", "removed"}, ok \in BOOLEAN :
        Done(r, i, ok, archive) /\ s3' \in {s3, s3 \union {copy}} /\ (archive = "stored" => s3' = s3 \union {copy})
  <2>1. PICK ok \in BOOLEAN : ok = TRUE
    OBVIOUS
  <2>2. \/ Done(r, i, ok, "none") /\ s3' = s3
        \/ Done(r, i, ok, "stored") /\ s3' = s3 \union {copy}
        \/ Done(r, i, ok, "failed") /\ s3' \in {s3, s3 \union {copy}}
    BY <1>2, <2>1 DEF Mirror, OwnCopy, Key, KeyOf, Shape, File
  <2>3. QED
    BY <2>2
<1>4. ShapeOK(r, req[r].shape) /\ i \in 1 .. Len(req[r].shape.files)
  BY <1>1, TaskHere
<1>5. req[r].shape.op \in Uploads
  BY <1>1, TaskHere DEF TaskOK, DeletePcs
<1>6. Safe(minio, s3, minio', s3', Condemned', AwsCondemned')
  BY <1>1, <1>3 DEF Safe
<1>7. PICK u : /\ Moved(r, i, u) /\ TaskOK(req[r].shape, i, u) /\ u.body = task[r][i].body
               /\ u.pc = "report" /\ u.archive = archive
  BY <1>1, <1>3, TaskEnds
<1>8. copy = OwnCopy(env.dest, r, req[r].shape, i, u)
      /\ OwnObject(r, req[r].shape, i, u) = OwnObject(r, req[r].shape, i, task[r][i])
  BY <1>2, <1>7 DEF OwnObject, OwnCopy
<1>9. /\ \/ OwnObject(r, req[r].shape, i, task[r][i]) \in minio
         \/ <<req[r].shape.bucket, KeyOf(r, req[r].shape, i)>> \in Condemned
      /\ Condemned' = Condemned
  BY <1>1, <1>5, CondemnedSame DEF Stores, Truths, Truth
<1>10. Truth(minio', s3', Condemned', AwsCondemned', env.dest, r, req[r].shape, i, u)
  BY <1>1, <1>3, <1>5, <1>7, <1>8, <1>9 DEF Truth
<1>11. u.pc \in PastPut /\ u.pc \notin {"none", "release", "gone"} /\ u.pc # "encode"
  BY <1>7 DEF PastPut
<1>12. \A o \in s3' : o \in s3 \/ (req[r].shape.op \in Uploads /\ u.pc \in PastPut /\ o = OwnCopy(env.dest, r, req[r].shape, i, u))
  BY <1>3, <1>5, <1>8, <1>11
<1>13. \A o \in minio' : o \in minio
  BY <1>1
<1>14. env' \in Environments /\ Locals' /\ Stores' /\ Decoding' = Decoding
  BY <1>1, <1>6, <1>7, <1>10, <1>11, <1>12, <1>13, TaskKeeps
<1>15. Slots'
  BY <1>1, <1>7, <1>11, <1>14, TaskSlots
<1>16. QED
  BY <1>14, <1>15 DEF HandlersInv

\* A delete goes on to the archive.
LEMMA TaskToArchive ==
  ASSUME Locals, NEW r \in Requests, NEW i \in DOMAIN task[r], req[r].shape.op \notin Uploads, req[r].shape.aws,
         GoTask(r, i, "aws")
  PROVE  \E u : Moved(r, i, u) /\ TaskOK(req[r].shape, i, u) /\ u.pc = "aws"
<1>1. PICK t : t = task[r][i]
  OBVIOUS
<1>2. PICK u : u = TaskOf("aws", t.body, t.ok, t.archive)
  OBVIOUS
<1>3. t \in TaskSet
  BY <1>1, TaskHere
<1>4. u.pc = "aws" /\ u \in TaskSet
  BY <1>2, <1>3 DEF TaskOf, TaskSet, UploadPcs, DeletePcs
<1>5. TaskOK(req[r].shape, i, u)
  BY <1>4 DEF TaskOK, DeletePcs
<1>6. Moved(r, i, u)
  BY <1>1, <1>2, TaskUpdates
<1>7. QED
  BY <1>4, <1>5, <1>6

\* What the task of a delete removes was condemned when the request came in.
LEMMA DeleteCondemns ==
  ASSUME Locals, NEW r \in Requests, NEW i \in DOMAIN task[r], task[r][i].pc # "gone",
         req[r].shape.op \notin Uploads, req' = req
  PROVE  /\ <<req[r].shape.bucket, KeyOf(r, req[r].shape, i)>> \in Condemned'
         /\ req[r].shape.aws => <<req[r].shape.bucket, KeyOf(r, req[r].shape, i)>> \in AwsCondemned'
<1>1. ReqOK(req[r]) /\ TasksOK(req[r], task[r]) /\ ShapeOK(r, req[r].shape) /\ i \in 1 .. Len(req[r].shape.files)
  BY TaskHere DEF LocalOK
<1>2. req[r].pc \in {"start", "collect"}
  BY <1>1, TaskAlive
<1>3. req[r].shape.op \in Deletes
  BY <1>1, <1>2 DEF ReqOK, ShapeOK, Shapes
<1>4. i \in DOMAIN req[r].shape.files
  BY <1>1 DEF ShapeOK, Shapes
<1>5. /\ <<req[r].shape.bucket, KeyOf(r, req[r].shape, i)>> \in Condemned
      /\ req[r].shape.aws => <<req[r].shape.bucket, KeyOf(r, req[r].shape, i)>> \in AwsCondemned
  BY <1>2, <1>3, <1>4, CondemnedHas DEF KeyOf
<1>6. QED
  BY <1>5, CondemnedSame

\* A delete removes the object of MinIO.
LEMMA RemoveObjectStep ==
  ASSUME HandlersInv, NEW r \in Requests, NEW i, RemoveObject(r, i)
  PROVE  HandlersInv'
<1>1. /\ Locals /\ i \in DOMAIN task[r] /\ task[r][i].pc = "begin" /\ (Fail \/ Works)
      /\ req[r].shape.op \notin Uploads
      /\ UNCHANGED <<env, buckets, s3, req, sem, chan, optSem, resizeSem>>
  BY DEF RemoveObject, At, HandlersInv, Shape, Uploads, Deletes
<1>2. PICK gone : gone = {o \in minio : o[1] = req[r].shape.bucket /\ o[2] = KeyOf(r, req[r].shape, i)}
  OBVIOUS
<1>3. PICK ok \in BOOLEAN : ok = TRUE
  OBVIOUS
<1>4. \/ minio' = minio \ gone /\ ((req[r].shape.aws /\ GoTask(r, i, "aws")) \/ Done(r, i, ok, "none"))
      \/ minio' \in {minio, minio \ gone} /\ Failed(r, i)
  BY <1>2, <1>3 DEF RemoveObject, Key, KeyOf, Shape, File
<1>5. ShapeOK(r, req[r].shape) /\ i \in 1 .. Len(req[r].shape.files)
  BY <1>1, TaskHere
<1>6. <<req[r].shape.bucket, KeyOf(r, req[r].shape, i)>> \in Condemned'
  BY <1>1, DeleteCondemns
<1>7. Safe(minio, s3, minio', s3', Condemned', AwsCondemned')
  BY <1>1, <1>2, <1>4, <1>6 DEF Safe
<1>8. PICK u : /\ Moved(r, i, u) /\ TaskOK(req[r].shape, i, u) /\ u.pc \in {"aws", "report"}
               /\ u.pc = "aws" \/ u.ok => minio' = minio \ gone
  <2>1. CASE Failed(r, i)
    BY <1>1, <2>1, TaskFails
  <2>2. CASE minio' = minio \ gone /\ req[r].shape.aws /\ GoTask(r, i, "aws")
    BY <1>1, <2>2, TaskToArchive
  <2>3. CASE minio' = minio \ gone /\ Done(r, i, ok, "none")
    BY <1>1, <2>3, TaskEnds
  <2>4. QED
    BY <1>4, <2>1, <2>2, <2>3
<1>9. Truth(minio', s3', Condemned', AwsCondemned', env.dest, r, req[r].shape, i, u)
  BY <1>1, <1>2, <1>8 DEF Truth, Ended
<1>10. u.pc \notin {"none", "release", "gone"} /\ u.pc # "encode" /\ task[r][i].pc \notin PastPut
  BY <1>1, <1>8 DEF PastPut
<1>11. (\A o \in minio' : o \in minio) /\ (\A o \in s3' : o \in s3)
  BY <1>1, <1>4
<1>12. env' \in Environments /\ Locals' /\ Stores' /\ Decoding' = Decoding
  BY <1>1, <1>7, <1>8, <1>9, <1>10, <1>11, TaskKeeps
<1>13. Slots'
  BY <1>1, <1>8, <1>10, <1>12, TaskSlots
<1>14. QED
  BY <1>12, <1>13 DEF HandlersInv

\* A delete removes the object of the archive.
LEMMA RemoveArchivedStep ==
  ASSUME HandlersInv, NEW r \in Requests, NEW i, RemoveArchived(r, i)
  PROVE  HandlersInv'
<1>1. /\ Locals /\ Stores /\ i \in DOMAIN task[r] /\ task[r][i].pc = "aws" /\ (Fail \/ Works)
      /\ UNCHANGED <<env, buckets, minio, req, sem, chan, optSem, resizeSem>>
  BY DEF RemoveArchived, At, HandlersInv
<1>2. PICK gone : gone = {o \in s3 : o[1] = req[r].shape.bucket /\ o[2] = KeyOf(r, req[r].shape, i)}
  OBVIOUS
<1>3. PICK ok \in BOOLEAN : ok = TRUE
  OBVIOUS
<1>4. PICK archive \in {"removed", "failed"} : Done(r, i, ok, archive) /\ s3' \in {s3, s3 \ gone}
  BY <1>2, <1>3 DEF RemoveArchived, Key, KeyOf, Shape, File
<1>5. ShapeOK(r, req[r].shape) /\ i \in 1 .. Len(req[r].shape.files)
  BY <1>1, TaskHere
<1>6. req[r].shape.op \notin Uploads /\ req[r].shape.aws
  BY <1>1, TaskHere DEF TaskOK, UploadPcs
<1>7. <<req[r].shape.bucket, KeyOf(r, req[r].shape, i)>> \in AwsCondemned'
  BY <1>1, <1>6, DeleteCondemns
<1>8. Safe(minio, s3, minio', s3', Condemned', AwsCondemned')
  BY <1>1, <1>2, <1>4, <1>7 DEF Safe
<1>9. PICK u : Moved(r, i, u) /\ TaskOK(req[r].shape, i, u) /\ u.pc = "report"
  BY <1>1, <1>4, TaskEnds
<1>10. Truth(minio', s3', Condemned', AwsCondemned', env.dest, r, req[r].shape, i, u)
  <2>1. Truth(minio, s3, Condemned, AwsCondemned, env.dest, r, req[r].shape, i, task[r][i])
    BY <1>1 DEF Stores, Truths
  <2>2. QED
    BY <1>1, <1>6, <2>1 DEF Truth
<1>11. u.pc \notin {"none", "release", "gone"} /\ u.pc # "encode" /\ task[r][i].pc \notin PastPut
  BY <1>1, <1>9 DEF PastPut
<1>12. (\A o \in minio' : o \in minio) /\ (\A o \in s3' : o \in s3)
  BY <1>1, <1>4
<1>13. env' \in Environments /\ Locals' /\ Stores' /\ Decoding' = Decoding
  BY <1>1, <1>8, <1>9, <1>10, <1>11, <1>12, TaskKeeps
<1>14. Slots'
  BY <1>1, <1>9, <1>11, <1>13, TaskSlots
<1>15. QED
  BY <1>13, <1>14 DEF HandlersInv

\* The last two steps of a task leave the stores and its result as they are.
LEMMA TaskOver ==
  ASSUME HandlersInv, NEW r \in Requests, NEW i \in DOMAIN task[r], NEW pc \in {"release", "gone"},
         task[r][i].pc \in {"report", "release"}, GoTask(r, i, pc), Alone(r),
         UNCHANGED <<env, storage, req, optSem, resizeSem, faults>>,
         NEW t, t = TaskOf(pc, task[r][i].body, task[r][i].ok, task[r][i].archive)
  PROVE  Moved(r, i, t) /\ Stores' /\ Slots'
<1>1. Locals /\ Stores /\ req' = req /\ env' = env /\ buckets' = buckets /\ minio' = minio /\ s3' = s3
  BY DEF HandlersInv, storage
<1>2. Moved(r, i, t)
  BY <1>1, TaskUpdates
<1>3. t.pc = pc /\ t.body = task[r][i].body /\ t.ok = task[r][i].ok /\ t.archive = task[r][i].archive
  BY DEF TaskOf
<1>4. Safe(minio, s3, minio', s3', Condemned', AwsCondemned')
  BY <1>1 DEF Safe
<1>5. Truth(minio', s3', Condemned', AwsCondemned', env.dest, r, req[r].shape, i, t)
  <2>1. Truth(minio, s3, Condemned, AwsCondemned, env.dest, r, req[r].shape, i, task[r][i])
    BY <1>1 DEF Stores, Truths
  <2>2. Condemned' = Condemned /\ AwsCondemned' = AwsCondemned
    BY <1>1, CondemnedSame
  <2>3. QED
    BY <1>1, <1>3, <2>1, <2>2 DEF Truth, Ended, OwnObject, OwnCopy
<1>6. t.pc \in PastPut /\ t.pc # "encode" /\ task[r][i].pc # "encode"
  BY <1>3 DEF PastPut
<1>7. (\A o \in minio' : o \in minio) /\ (\A o \in s3' : o \in s3)
  BY <1>1
<1>8. Stores'
  BY <1>1, <1>2, <1>3, <1>4, <1>5, <1>6, <1>7, TaskStores
<1>9. Decoding' = Decoding
  BY <1>1 DEF Decoding
<1>10. Slots'
  BY <1>2, <1>6, <1>9, TaskSlots DEF Works
<1>11. QED
  BY <1>2, <1>8, <1>10

\* A task sends its result into the channel.
LEMMA ReportStep ==
  ASSUME HandlersInv, NEW r \in Requests, NEW i, Report(r, i)
  PROVE  HandlersInv'
<1>1. /\ Locals /\ i \in DOMAIN task[r] /\ task[r][i].pc = "report" /\ GoTask(r, i, "release")
      /\ UNCHANGED <<env, storage, req, sem, optSem, resizeSem, faults>>
  BY DEF Report, At, HandlersInv
<1>2. PICK t, e : /\ t = TaskOf("release", task[r][i].body, task[r][i].ok, task[r][i].archive)
                  /\ e = [file |-> i, ok |-> task[r][i].ok, archive |-> task[r][i].archive]
  OBVIOUS
<1>3. Form /\ chan' = [chan EXCEPT ![r] = Append(chan[r], e)]
  BY <1>1, <1>2 DEF Report, Locals
<1>4. chan' = [x \in Requests |-> chan'[x]] /\ chan'[r] = Append(chan[r], e) /\ \A x \in Requests \ {r} : chan'[x] = chan[x]
  BY <1>3 DEF Form
<1>5. Moved(r, i, t)
  BY <1>1, <1>2, TaskUpdates
<1>6. task' = [x \in Requests |-> task'[x]] /\ task'[r] = [task[r] EXCEPT ![i] = t]
  BY <1>1, <1>5, TaskForm
<1>7. \A x \in Requests \ {r} : task'[x] = task[x]
  BY <1>1, <1>5, TaskMoved
<1>8. Alone(r)
  BY <1>1, <1>3, <1>4, <1>6, <1>7 DEF Alone, Form
<1>9. Stores' /\ Slots'
  BY <1>1, <1>2, <1>8, TaskOver
<1>10. LocalOK(r, req[r], task[r], sem[r], chan[r])
  BY <1>1 DEF Locals
<1>11. t = [pc |-> "release", body |-> task[r][i].body, ok |-> task[r][i].ok, archive |-> task[r][i].archive]
  BY <1>2 DEF TaskOf
<1>12. LocalOK(r, req[r], [task[r] EXCEPT ![i] = t], sem[r], Append(chan[r], e))
  BY <1>1, <1>2, <1>10, <1>11, TaskReport
<1>13. LocalOK(r, req'[r], task'[r], sem'[r], chan'[r])
  BY <1>1, <1>4, <1>6, <1>12
<1>14. Locals'
  BY <1>1, <1>8, <1>13, LocalsKept
<1>15. QED
  BY <1>1, <1>9, <1>14 DEF HandlersInv

\* A task gives its slot back.
LEMMA ReleaseStep ==
  ASSUME HandlersInv, NEW r \in Requests, NEW i, Release(r, i)
  PROVE  HandlersInv'
<1>1. /\ Locals /\ i \in DOMAIN task[r] /\ task[r][i].pc = "release" /\ GoTask(r, i, "gone")
      /\ UNCHANGED <<env, storage, req, chan, optSem, resizeSem, faults>>
  BY DEF Release, At, HandlersInv
<1>2. PICK t : t = TaskOf("gone", task[r][i].body, task[r][i].ok, task[r][i].archive)
  OBVIOUS
<1>3. Form /\ sem' = IF req[r].shape.op \in Batches THEN [sem EXCEPT ![r] = sem[r] - 1] ELSE sem
  BY <1>1 DEF Release, Locals, Shape
<1>4. /\ sem' = [x \in Requests |-> sem'[x]] /\ \A x \in Requests \ {r} : sem'[x] = sem[x]
      /\ sem'[r] = IF req[r].shape.op \in Batches THEN sem[r] - 1 ELSE sem[r]
  BY <1>3 DEF Form
<1>5. Moved(r, i, t)
  BY <1>1, <1>2, TaskUpdates
<1>6. task' = [x \in Requests |-> task'[x]] /\ task'[r] = [task[r] EXCEPT ![i] = t]
  BY <1>1, <1>5, TaskForm
<1>7. \A x \in Requests \ {r} : task'[x] = task[x]
  BY <1>1, <1>5, TaskMoved
<1>8. Alone(r)
  BY <1>1, <1>3, <1>4, <1>6, <1>7 DEF Alone, Form
<1>9. Stores' /\ Slots'
  BY <1>1, <1>2, <1>8, TaskOver
<1>10. LocalOK(r, req[r], task[r], sem[r], chan[r])
  BY <1>1 DEF Locals
<1>11. t = [pc |-> "gone", body |-> task[r][i].body, ok |-> task[r][i].ok, archive |-> task[r][i].archive]
  BY <1>2 DEF TaskOf
<1>12. LocalOK(r, req[r], [task[r] EXCEPT ![i] = t], sem'[r], chan[r])
  BY <1>1, <1>4, <1>10, <1>11, TaskRelease
<1>13. LocalOK(r, req'[r], task'[r], sem'[r], chan'[r])
  BY <1>1, <1>6, <1>12
<1>14. Locals'
  BY <1>1, <1>8, <1>13, LocalsKept
<1>15. QED
  BY <1>1, <1>9, <1>14 DEF HandlersInv

-----------------------------------------------------------------------------
(* One lemma for each step of a request's own goroutine.                   *)

\* What is known of a request.
LEMMA RequestHere ==
  ASSUME HandlersInv, NEW r \in Requests
  PROVE  /\ LocalOK(r, req[r], task[r], sem[r], chan[r]) /\ ShapeOK(r, req[r].shape) /\ ReqOK(req[r])
         /\ Locals /\ Stores /\ Slots /\ env \in Environments
BY DEF HandlersInv, Locals, LocalOK

\* A request without tasks takes a step that leaves the stores alone.
LEMMA RequestKeeps ==
  ASSUME HandlersInv, NEW r \in Requests, NEW q, Becomes(r, q), q.shape = req[r].shape,
         LocalOK(r, q, task[r], sem[r], chan[r]),
         req[r].pc # "done", q.pc # "idle", req[r].pc = "idle" => Told(r),
         UNCHANGED <<env, minio, s3, task, sem, chan>>,
         \A b \in buckets' : BucketName(b)
  PROVE  env' \in Environments /\ Locals' /\ Stores' /\ Encoding' = Encoding
<1>1. Locals /\ Stores /\ Form /\ env' \in Environments
  BY DEF HandlersInv, Locals
<1>2. req' = [x \in Requests |-> req'[x]] /\ req'[r] = q /\ \A x \in Requests \ {r} : req'[x] = req[x]
  BY <1>1, ReqBecomes
<1>3. Alone(r)
  BY <1>1, <1>2 DEF Alone, Form
<1>4. Locals'
  BY <1>1, <1>2, <1>3, LocalsKept
<1>5. Kept(r)
  BY <1>2 DEF Kept
<1>6. Safe(minio, s3, minio', s3', Condemned', AwsCondemned')
  BY DEF Safe
<1>7. ASSUME NEW i \in DOMAIN task'[r]
      PROVE  Truth(minio', s3', Condemned', AwsCondemned', env.dest, r, req'[r].shape, i, task'[r][i])
  <2>1. Truth(minio, s3, Condemned, AwsCondemned, env.dest, r, req[r].shape, i, task[r][i])
    BY <1>1 DEF Stores, Truths
  <2>2. Truth(minio', s3', Condemned', AwsCondemned', env.dest, r, req[r].shape, i, task[r][i])
    BY <1>3, <1>5, <1>6, <2>1, CondemnedGrows, TruthKept
  <2>3. QED
    BY <1>2, <2>2
<1>8. (\A o \in minio' : o \in minio) /\ (\A o \in s3' : o \in s3) /\ env' = env
  OBVIOUS
<1>9. Stores'
  BY <1>1, <1>3, <1>5, <1>6, <1>7, <1>8, StoresKept
<1>10. Encoding' = Encoding
  BY EncodingSame
<1>11. QED
  BY <1>1, <1>4, <1>9, <1>10

\* Such a step that takes and frees no slot either.
LEMMA RequestQuiet ==
  ASSUME HandlersInv, NEW r \in Requests, NEW q, Becomes(r, q), q.shape = req[r].shape,
         LocalOK(r, q, task[r], sem[r], chan[r]), req[r].pc \notin {"decode", "done"}, q.pc \notin {"decode", "idle"},
         req[r].pc = "idle" => Told(r),
         UNCHANGED <<env, storage, task, sem, chan, optSem, resizeSem>>, Fail \/ Works
  PROVE  HandlersInv'
<1>1. UNCHANGED <<env, minio, s3, task, sem, chan>> /\ buckets' = buckets
  BY DEF storage
<1>2. \A b \in buckets' : BucketName(b)
  BY <1>1 DEF HandlersInv, Stores
<1>3. env' \in Environments /\ Locals' /\ Stores' /\ Encoding' = Encoding
  BY <1>1, <1>2, RequestKeeps
<1>4. Decoding' = Decoding
  BY DecodingMoved DEF HandlersInv
<1>5. Slots'
  BY <1>3, <1>4, FaultsBound, SlotsKept DEF HandlersInv
<1>6. QED
  BY <1>3, <1>5 DEF HandlersInv

\* A request is refused, perhaps with its bucket made.
LEMMA RefuseMade ==
  ASSUME HandlersInv, NEW r \in Requests, req[r].pc \in {"idle", "check", "make", "open"}, Refuse(r),
         req[r].pc = "idle" => Told(r),
         UNCHANGED <<env, minio, s3, task, sem, chan, optSem, resizeSem>>, Fail \/ Works,
         \A b \in buckets' : BucketName(b)
  PROVE  HandlersInv'
<1>1. PICK q : q = [pc |-> "done", shape |-> req[r].shape, started |-> req[r].started, answer |-> [status |-> "refused"]]
  OBVIOUS
<1>2. Becomes(r, q)
  BY <1>1, RequestHere, ReqUpdates DEF Refuse
<1>3. LocalOK(r, q, task[r], sem[r], chan[r])
  BY <1>1, RequestHere, RequestRefused
<1>4. q.shape = req[r].shape /\ q.pc = "done" /\ Locals /\ Slots
  BY <1>1, RequestHere
<1>5. env' \in Environments /\ Locals' /\ Stores' /\ Encoding' = Encoding
  BY <1>2, <1>3, <1>4, RequestKeeps
<1>6. Decoding' = Decoding
  BY <1>2, <1>4, DecodingMoved
<1>7. Slots'
  BY <1>4, <1>5, <1>6, FaultsBound, SlotsKept
<1>8. QED
  BY <1>5, <1>7 DEF HandlersInv

\* A request is refused, and no bucket made.
LEMMA RefuseStep ==
  ASSUME HandlersInv, NEW r \in Requests, req[r].pc \in {"idle", "check", "make", "open"}, Refuse(r),
         req[r].pc = "idle" => Told(r),
         UNCHANGED <<env, storage, task, sem, chan, optSem, resizeSem>>, Fail \/ Works
  PROVE  HandlersInv'
<1>1. UNCHANGED <<env, minio, s3, task, sem, chan, optSem, resizeSem>> /\ buckets' = buckets
  BY DEF storage
<1>2. \A b \in buckets' : BucketName(b)
  BY <1>1 DEF HandlersInv, Stores
<1>3. QED
  BY <1>1, <1>2, RefuseMade

\* A request goes on without a slot.
LEMMA GoStep ==
  ASSUME HandlersInv, NEW r \in Requests, req[r].pc \in {"idle", "check", "open", "slot"},
         NEW pc \in {"check", "make", "slot", "queued"}, Go(r, pc), req[r].pc = "idle" => Told(r),
         pc \in {"slot", "queued"} => req[r].shape.op = "read" /\ IsImageFile(req[r].shape.files[1]) /\ Resizes(req[r].shape.want),
         pc = "make" => req[r].shape.op \in {"upload", "url"} /\ req[r].started = 0,
         pc = "check" => req[r].started = 0 /\ (req[r].shape.op = "batch_delete" => Len(req[r].shape.files) \in 1 .. MaxBatch),
         UNCHANGED <<env, storage, task, sem, chan, optSem, resizeSem>>, Fail \/ Works
  PROVE  HandlersInv'
<1>1. PICK q : q = [pc |-> pc, shape |-> req[r].shape, started |-> req[r].started, answer |-> req[r].answer]
  OBVIOUS
<1>2. Becomes(r, q)
  BY <1>1, RequestHere, ReqUpdates
<1>3. pc \in Pcs \ {"idle", "start", "collect", "done"} /\ req[r].pc \notin {"start", "collect", "done"}
      /\ (pc \in Reading => pc \in {"slot", "queued"}) /\ (pc \in {"slot", "queued", "decode"} => pc \in {"slot", "queued"})
  BY DEF Pcs, Reading
<1>4. LocalOK(r, q, task[r], sem[r], chan[r])
  BY <1>1, <1>3, RequestHere, RequestGoes
<1>5. q.shape = req[r].shape /\ q.pc = pc
  BY <1>1
<1>6. QED
  BY <1>2, <1>4, <1>5, RequestQuiet

\* A request arrives.
LEMMA ArriveStep ==
  ASSUME HandlersInv, NEW r \in Requests, Arrive(r)
  PROVE  HandlersInv'
<1>1. /\ req[r].pc = "idle" /\ Told(r) /\ UNCHANGED <<env, storage, task, sem, chan, optSem, resizeSem>> /\ Works
  BY DEF Arrive, Works
<1>2. CASE Refuse(r)
  BY <1>1, <1>2, RefuseStep
<1>3. CASE Go(r, "check") /\ ~(req[r].shape.op = "batch_delete" /\ Len(req[r].shape.files) \notin 1 .. MaxBatch)
  <2>1. req[r].started = 0
    BY <1>1, RequestHere DEF ReqOK
  <2>2. QED
    BY <1>1, <1>3, <2>1, GoStep
<1>4. QED
  BY <1>2, <1>3 DEF Arrive, Shape

\* The tasks of a request appear, none of them with a step taken.
LEMMA TasksAppear ==
  ASSUME HandlersInv, NEW r \in Requests, req[r].pc \in {"check", "make"},
         NEW q, Becomes(r, q), q.shape = req[r].shape, q.pc \notin {"decode", "idle"},
         NEW u, task' = [task EXCEPT ![r] = u], \A i \in DOMAIN u : u[i].pc \in {"none", "begin"},
         LocalOK(r, q, u, sem[r], chan[r]),
         UNCHANGED <<env, minio, s3, sem, chan, optSem, resizeSem, faults>>,
         \A b \in buckets' : BucketName(b)
  PROVE  HandlersInv'
<1>1. Locals /\ Stores /\ Slots /\ Form /\ env' \in Environments
  BY DEF HandlersInv, Locals
<1>2. req' = [x \in Requests |-> req'[x]] /\ req'[r] = q /\ \A x \in Requests \ {r} : req'[x] = req[x]
  BY <1>1, ReqBecomes
<1>3. task' = [x \in Requests |-> task'[x]] /\ task'[r] = u /\ \A x \in Requests \ {r} : task'[x] = task[x]
  BY <1>1 DEF Form
<1>4. Alone(r)
  BY <1>1, <1>2, <1>3 DEF Alone, Form
<1>5. Locals'
  BY <1>1, <1>2, <1>3, <1>4, LocalsKept
<1>6. DOMAIN task[r] = {}
  <2>1. TasksOK(req[r], task[r])
    BY <1>1 DEF Locals, LocalOK
  <2>2. QED
    BY <2>1 DEF TasksOK
<1>7. Kept(r)
  BY <1>2, <1>6 DEF Kept
<1>8. Safe(minio, s3, minio', s3', Condemned', AwsCondemned')
  BY DEF Safe
<1>9. \A i \in DOMAIN task'[r] : Truth(minio', s3', Condemned', AwsCondemned', env.dest, r, req'[r].shape, i, task'[r][i])
  BY <1>3 DEF Truth, Ended
<1>10. (\A o \in minio' : o \in minio) /\ (\A o \in s3' : o \in s3) /\ env' = env
  OBVIOUS
<1>11. Stores'
  BY <1>1, <1>4, <1>7, <1>8, <1>9, <1>10, StoresKept
<1>12. Encoding' = Encoding
  <2>1. \A x \in Requests : \A j \in 1 .. MaxBatch :
          (j \in DOMAIN task[x] /\ task[x][j].pc = "encode") <=> (j \in DOMAIN task'[x] /\ task'[x][j].pc = "encode")
    <3> SUFFICES ASSUME NEW x \in Requests, NEW j \in 1 .. MaxBatch
                 PROVE  (j \in DOMAIN task[x] /\ task[x][j].pc = "encode") <=> (j \in DOMAIN task'[x] /\ task'[x][j].pc = "encode")
      OBVIOUS
    <3>1. CASE x = r
      BY <1>3, <1>6, <3>1
    <3>2. CASE x # r
      BY <1>3, <3>2
    <3>3. QED
      BY <3>1, <3>2
  <2>2. QED
    BY <2>1, EncodingSame
<1>13. Decoding' = Decoding
  BY <1>1, DecodingMoved
<1>14. Slots'
  BY <1>1, <1>12, <1>13, FaultsBound, SlotsKept DEF Works
<1>15. QED
  BY <1>1, <1>5, <1>11, <1>14 DEF HandlersInv

\* What a bucket that is there leads to.
LEMMA ProceedStep ==
  ASSUME HandlersInv, NEW r \in Requests, req[r].pc \in {"check", "make"}, Proceed(r),
         UNCHANGED <<env, minio, s3, sem, chan, optSem, resizeSem, faults>>,
         \A b \in buckets' : BucketName(b)
  PROVE  HandlersInv'
<1>1. PICK s : s = req[r].shape
  OBVIOUS
<1>2. LocalOK(r, req[r], task[r], sem[r], chan[r]) /\ Locals /\ Slots
  BY RequestHere
<1>3. CASE Refuse(r) /\ UNCHANGED task
  BY <1>3, RefuseMade DEF Works
<1>4. CASE s.op = "read" /\ Go(r, "open") /\ task' = [task EXCEPT ![r] = <<>>]
  <2>1. PICK q : q = [pc |-> "open", shape |-> s, started |-> req[r].started, answer |-> req[r].answer]
    OBVIOUS
  <2>2. Becomes(r, q)
    BY <1>1, <1>2, <1>4, <2>1, ReqUpdates
  <2>3. LocalOK(r, q, <<>>, sem[r], chan[r])
    BY <1>1, <1>2, <1>4, <2>1, ReadOpens
  <2>4. q.shape = req[r].shape /\ q.pc = "open"
    BY <1>1, <2>1
  <2>5. PICK u : u = <<>>
    OBVIOUS
  <2>6. DOMAIN u = {}
    BY <2>5
  <2>7. QED
    BY <1>4, <2>2, <2>3, <2>4, <2>5, <2>6, TasksAppear
<1>5. PICK pc : pc = IF s.op \in Batches THEN "start" ELSE "collect"
  OBVIOUS
<1>6. PICK u : u = [i \in DOMAIN s.files |-> IF s.op \in Batches THEN NoTask ELSE NewTask("raw")]
  OBVIOUS
<1>7. CASE /\ s.op # "read" /\ Go(r, pc) /\ task' = [task EXCEPT ![r] = u]
           /\ ~(s.op = "batch_upload" /\ (s.files = <<>> \/ Len(s.files) > MaxBatch))
  <2>1. PICK q : q = [pc |-> pc, shape |-> s, started |-> req[r].started, answer |-> req[r].answer]
    OBVIOUS
  <2>2. Becomes(r, q)
    BY <1>1, <1>2, <1>7, <2>1, ReqUpdates
  <2>3. LocalOK(r, q, u, sem[r], chan[r])
    BY <1>1, <1>2, <1>5, <1>6, <1>7, <2>1, TasksMade
  <2>4. q.shape = req[r].shape /\ q.pc \notin {"decode", "idle"}
    BY <1>1, <1>5, <2>1
  <2>5. \A i \in DOMAIN u : u[i].pc \in {"none", "begin"}
    BY <1>6 DEF NoTask, NewTask
  <2>6. QED
    BY <1>7, <2>2, <2>3, <2>4, <2>5, TasksAppear
<1>8. QED
  <2>1. \/ Refuse(r) /\ UNCHANGED task
        \/ /\ Go(r, IF s.op = "read" THEN "open" ELSE pc)
           /\ task' = [task EXCEPT ![r] = IF s.op = "read" THEN <<>> ELSE u]
           /\ ~(s.op = "batch_upload" /\ (s.files = <<>> \/ Len(s.files) > MaxBatch))
    BY <1>1, <1>5, <1>6 DEF Proceed, Shape
  <2>2. QED
    BY <1>3, <1>4, <1>7, <2>1

\* The bucket is looked for.
LEMMA CheckBucketStep ==
  ASSUME HandlersInv, NEW r \in Requests, CheckBucket(r)
  PROVE  HandlersInv'
<1>1. req[r].pc = "check" /\ UNCHANGED <<env, storage, sem, chan, optSem, resizeSem>>
  BY DEF CheckBucket
<1>2. CASE (Fail \/ Works) /\ Refuse(r) /\ UNCHANGED task
  BY <1>1, <1>2, RefuseStep
<1>3. CASE Works /\ Proceed(r)
  <2>1. \A b \in buckets' : BucketName(b)
    BY <1>1 DEF HandlersInv, Stores, storage
  <2>2. UNCHANGED <<env, minio, s3, sem, chan, optSem, resizeSem, faults>>
    BY <1>1, <1>3 DEF storage, Works
  <2>3. QED
    BY <1>1, <1>3, <2>1, <2>2, ProceedStep
<1>4. CASE Works /\ req[r].shape.op \in {"upload", "url"} /\ Go(r, "make") /\ UNCHANGED task
  <2>1. req[r].started = 0
    BY <1>1, RequestHere DEF ReqOK
  <2>2. QED
    BY <1>1, <1>4, <2>1, GoStep
<1>5. QED
  BY <1>2, <1>3, <1>4 DEF CheckBucket, Shape

\* The bucket is made by an upload.
LEMMA MakeBucketStep ==
  ASSUME HandlersInv, NEW r \in Requests, MakeBucket(r)
  PROVE  HandlersInv'
<1>1. req[r].pc = "make" /\ UNCHANGED <<env, minio, s3, sem, chan, optSem, resizeSem>>
  BY DEF MakeBucket
<1>2. CASE (Fail \/ Works) /\ Refuse(r) /\ buckets' \in {buckets, buckets \union {req[r].shape.bucket}} /\ UNCHANGED task
  <2>1. \A b \in buckets' : BucketName(b)
    BY <1>2, RequestHere DEF ShapeOK, Stores
  <2>2. QED
    BY <1>1, <1>2, <2>1, RefuseMade
<1>3. CASE Works /\ buckets' = buckets \union {req[r].shape.bucket} /\ Proceed(r)
  <2>1. BucketName(req[r].shape.bucket) /\ \A b \in buckets : BucketName(b)
    BY RequestHere DEF ShapeOK, Stores
  <2>2. \A b \in buckets' : BucketName(b)
    BY <1>3, <2>1
  <2>3. UNCHANGED <<env, minio, s3, sem, chan, optSem, resizeSem, faults>>
    BY <1>1, <1>3 DEF Works
  <2>4. QED
    BY <1>1, <1>3, <2>2, <2>3, ProceedStep
<1>4. QED
  BY <1>2, <1>3 DEF MakeBucket, Shape

\* A batch starts the task of its next file.
LEMMA StartFileStep ==
  ASSUME HandlersInv, NEW r \in Requests, StartFile(r)
  PROVE  HandlersInv'
<1>1. LocalOK(r, req[r], task[r], sem[r], chan[r]) /\ Locals /\ Stores /\ Slots /\ Form /\ env \in Environments
  BY RequestHere DEF Locals
<1>2. PICK i, pc, t : /\ i = req[r].started + 1 /\ t = NewTask("raw")
                      /\ pc = IF i = Len(req[r].shape.files) THEN "collect" ELSE "start"
  OBVIOUS
<1>3. PICK q : q = [pc |-> pc, shape |-> req[r].shape, started |-> i, answer |-> req[r].answer]
  OBVIOUS
<1>4. /\ req[r].pc = "start" /\ sem[r] < BatchSlots /\ sem' = [sem EXCEPT ![r] = sem[r] + 1]
      /\ UNCHANGED <<env, storage, chan, optSem, resizeSem, faults>>
  BY DEF StartFile
<1>5. req' = [req EXCEPT ![r].started = i, ![r].pc = pc]
  BY <1>2, Zenon DEF StartFile, Shape
<1>6. Becomes(r, q)
  BY <1>1, <1>3, <1>5, ReqUpdates
<1>7. Moved(r, i, t)
  BY <1>2 DEF StartFile, Moved
<1>8. i \in DOMAIN task[r] /\ LocalOK(r, q, [task[r] EXCEPT ![i] = t], sem[r] + 1, chan[r])
  BY <1>1, <1>2, <1>3, <1>4, TaskStart
<1>9. q.shape = req[r].shape /\ q.pc = pc /\ pc \in {"start", "collect"}
  BY <1>2, <1>3
<1>10. req' = [x \in Requests |-> req'[x]] /\ req'[r] = q /\ \A x \in Requests \ {r} : req'[x] = req[x]
  BY <1>1, <1>6, ReqBecomes
<1>11. task' = [x \in Requests |-> task'[x]] /\ task'[r] = [task[r] EXCEPT ![i] = t]
  BY <1>1, <1>7, TaskForm
<1>12. \A x \in Requests \ {r} : task'[x] = task[x]
  BY <1>1, <1>7, <1>8, TaskMoved
<1>13. sem' = [x \in Requests |-> sem'[x]] /\ sem'[r] = sem[r] + 1 /\ \A x \in Requests \ {r} : sem'[x] = sem[x]
  BY <1>1, <1>4 DEF Form
<1>14. Alone(r)
  BY <1>1, <1>4, <1>10, <1>11, <1>12, <1>13 DEF Alone, Form
<1>15. Locals'
  <2>1. LocalOK(r, req'[r], task'[r], sem'[r], chan'[r])
    BY <1>4, <1>8, <1>10, <1>11, <1>13
  <2>2. QED
    BY <1>1, <1>14, <2>1, LocalsKept
<1>16. task[r][i].pc = "none" /\ t.pc = "begin"
  <2>1. ReqOK(req[r]) /\ TasksOK(req[r], task[r])
    BY <1>1 DEF LocalOK
  <2>2. req[r].started \in Int
    BY <2>1 DEF ReqOK
  <2>3. i > req[r].started
    BY <1>2, <2>2
  <2>4. QED
    BY <1>2, <1>4, <1>8, <2>1, <2>3 DEF TasksOK, NewTask
<1>17. minio' = minio /\ s3' = s3 /\ buckets' = buckets /\ env' = env
  BY <1>4 DEF storage
<1>18. Stores'
  <2>1. Safe(minio, s3, minio', s3', Condemned', AwsCondemned')
    BY <1>17 DEF Safe
  <2>2. Truth(minio', s3', Condemned', AwsCondemned', env.dest, r, req[r].shape, i, t)
    BY <1>16 DEF Truth, Ended
  <2>3. task[r][i].pc \notin PastPut
    BY <1>16 DEF PastPut
  <2>4. (\A o \in minio' : o \in minio) /\ (\A o \in s3' : o \in s3)
    BY <1>17
  <2>5. req'[r].shape = req[r].shape /\ req'[r].pc \in {"start", "collect"} /\ task[r][i].pc # "gone"
    BY <1>9, <1>10, <1>16
  <2>6. QED
    BY <1>1, <1>7, <1>8, <1>14, <1>17, <2>1, <2>2, <2>3, <2>4, <2>5, TaskStores
<1>19. Encoding' = Encoding
  BY <1>1, <1>7, <1>8, <1>16, EncodingMoved
<1>20. Decoding' = Decoding
  BY <1>1, <1>4, <1>6, <1>9, DecodingMoved
<1>21. Slots'
  BY <1>1, <1>4, <1>19, <1>20, FaultsBound, SlotsKept DEF Works
<1>22. QED
  BY <1>1, <1>15, <1>17, <1>18, <1>21 DEF HandlersInv

\* A request collects its results and answers.
LEMMA CollectStep ==
  ASSUME HandlersInv, NEW r \in Requests, Collect(r)
  PROVE  HandlersInv'
<1>1. LocalOK(r, req[r], task[r], sem[r], chan[r]) /\ Locals
  BY RequestHere
<1>2. PICK status : status = IF Shape(r).op \in Batches \/ chan[r][1].ok THEN "ok" ELSE "refused"
  OBVIOUS
<1>3. PICK q : q = [pc |-> "done", shape |-> req[r].shape, started |-> req[r].started,
                    answer |-> [status |-> status, results |-> chan[r]]]
  OBVIOUS
<1>4. /\ req[r].pc = "collect" /\ \A i \in DOMAIN task[r] : task[r][i].pc = "gone"
      /\ Answer(r, [status |-> status, results |-> chan[r]])
      /\ UNCHANGED <<env, storage, task, sem, chan, optSem, resizeSem>> /\ Works
  BY <1>2 DEF Collect, Gone, Works
<1>5. Becomes(r, q)
  BY <1>1, <1>3, <1>4, ReqUpdates
<1>6. LocalOK(r, q, task[r], sem[r], chan[r])
  BY <1>1, <1>3, <1>4, ResultsCollected
<1>7. q.shape = req[r].shape /\ q.pc = "done"
  BY <1>3
<1>8. QED
  BY <1>4, <1>5, <1>6, <1>7, RequestQuiet

\* A read is answered, from where no slot is held.
LEMMA ServeStep ==
  ASSUME HandlersInv, NEW r \in Requests, req[r].pc \in {"open", "queued"}, NEW cacheable \in BOOLEAN, NEW decoded,
         cacheable => ~(IsImageFile(req[r].shape.files[1]) /\ Resizes(req[r].shape.want)),
         NEW size, Answer(r, [status |-> "ok", size |-> size, cacheable |-> cacheable, decoded |-> decoded]),
         UNCHANGED <<env, storage, task, sem, chan, optSem, resizeSem>>, Fail \/ Works
  PROVE  HandlersInv'
<1>1. LocalOK(r, req[r], task[r], sem[r], chan[r]) /\ Locals
  BY RequestHere
<1>2. PICK q : q = [pc |-> "done", shape |-> req[r].shape, started |-> req[r].started,
                    answer |-> [status |-> "ok", size |-> size, cacheable |-> cacheable, decoded |-> decoded]]
  OBVIOUS
<1>3. Becomes(r, q)
  BY <1>1, <1>2, ReqUpdates
<1>4. LocalOK(r, q, task[r], sem[r], chan[r])
  BY <1>1, <1>2, RequestServed DEF Reading
<1>5. q.shape = req[r].shape /\ q.pc = "done"
  BY <1>2
<1>6. QED
  BY <1>3, <1>4, <1>5, RequestQuiet

\* A read opens its object.
LEMMA OpenStep ==
  ASSUME HandlersInv, NEW r \in Requests, Open(r)
  PROVE  HandlersInv'
<1>1. req[r].pc = "open" /\ UNCHANGED <<env, storage, task, sem, chan, optSem, resizeSem>>
  BY DEF Open
<1>2. CASE (Fail \/ Works) /\ Refuse(r)
  BY <1>1, <1>2, RefuseStep
<1>3. CASE (Fail \/ Works) /\ IsImageFile(req[r].shape.files[1]) /\ Resizes(req[r].shape.want) /\ Go(r, "slot")
  <2>1. req[r].shape.op = "read"
    BY <1>1, RequestHere DEF ReqOK, Reading
  <2>2. QED
    BY <1>1, <1>3, <2>1, GoStep
<1>4. PICK yes \in BOOLEAN : yes = TRUE
  OBVIOUS
<1>5. CASE /\ Fail \/ Works
           /\ ~(IsImageFile(req[r].shape.files[1]) /\ Resizes(req[r].shape.want))
           /\ Answer(r, [status |-> "ok", size |-> req[r].shape.files[1].size, cacheable |-> yes, decoded |-> "none"])
  BY <1>1, <1>5, ServeStep
<1>6. QED
  BY <1>2, <1>3, <1>4, <1>5 DEF Open, Opened, Serve, File, Shape

\* A read waits for a slot to resize.
LEMMA QueueStep ==
  ASSUME HandlersInv, NEW r \in Requests, Queue(r)
  PROVE  HandlersInv'
<1>1. req[r].pc = "slot" /\ UNCHANGED <<env, storage, task, sem, chan, optSem, resizeSem>> /\ Works /\ Go(r, "queued")
  BY DEF Queue, Works
<1>2. req[r].shape.op = "read" /\ IsImageFile(req[r].shape.files[1]) /\ Resizes(req[r].shape.want)
  BY <1>1, RequestHere DEF ReqOK, Reading
<1>3. QED
  BY <1>1, <1>2, GoStep

\* A read has waited too long: it serves the original, uncached.
LEMMA QueueTimeoutStep ==
  ASSUME HandlersInv, NEW r \in Requests, QueueTimeout(r)
  PROVE  HandlersInv'
<1>1. req[r].pc = "queued" /\ UNCHANGED <<env, storage, task, sem, chan, optSem, resizeSem>> /\ Works
  BY DEF QueueTimeout, Works
<1>2. PICK no \in BOOLEAN : no = FALSE
  OBVIOUS
<1>3. Answer(r, [status |-> "ok", size |-> File(r, 1).size, cacheable |-> no, decoded |-> "none"])
  BY <1>2 DEF QueueTimeout, Serve
<1>4. QED
  BY <1>1, <1>2, <1>3, ServeStep

\* A slot of resizeSem is taken: one more decodes.
LEMMA AcquireResizeSlotStep ==
  ASSUME HandlersInv, NEW r \in Requests, AcquireResizeSlot(r)
  PROVE  HandlersInv'
<1>1. LocalOK(r, req[r], task[r], sem[r], chan[r]) /\ Locals /\ Slots /\ ReqOK(req[r])
  BY RequestHere
<1>2. /\ req[r].pc \in {"slot", "queued"} /\ resizeSem < ResizeSlots /\ resizeSem' = resizeSem + 1 /\ Go(r, "decode")
      /\ UNCHANGED <<env, storage, task, sem, chan, optSem, faults>>
  BY DEF AcquireResizeSlot
<1>3. PICK q : q = [pc |-> "decode", shape |-> req[r].shape, started |-> req[r].started, answer |-> req[r].answer]
  OBVIOUS
<1>4. Becomes(r, q)
  BY <1>1, <1>2, <1>3, ReqUpdates
<1>5. req[r].shape.op = "read" /\ IsImageFile(req[r].shape.files[1]) /\ Resizes(req[r].shape.want)
  BY <1>1, <1>2 DEF ReqOK, Reading
<1>6. LocalOK(r, q, task[r], sem[r], chan[r])
  BY <1>1, <1>2, <1>3, <1>5, RequestGoes DEF Pcs
<1>7. q.shape = req[r].shape /\ q.pc = "decode" /\ req[r].pc # "decode"
  BY <1>2, <1>3
<1>8. UNCHANGED <<env, minio, s3, task, sem, chan>> /\ \A b \in buckets' : BucketName(b)
  BY <1>2 DEF storage, HandlersInv, Stores
<1>9. env' \in Environments /\ Locals' /\ Stores' /\ Encoding' = Encoding
  BY <1>2, <1>4, <1>6, <1>7, <1>8, RequestKeeps
<1>10. r \notin Decoding /\ Decoding' = Decoding \union {r}
  BY <1>1, <1>4, <1>7, DecodingMoved
<1>11. Cardinality(Decoding') = Cardinality(Decoding) + 1
  BY <1>10, SlotsFinite, FS_AddElement
<1>12. Slots'
  BY <1>1, <1>2, <1>9, <1>11, HandlersAssumption DEF Slots
<1>13. QED
  BY <1>9, <1>12 DEF HandlersInv

\* A read is resized, or its original served: its slot is free again.
LEMMA DecodeStep ==
  ASSUME HandlersInv, NEW r \in Requests, Decode(r)
  PROVE  HandlersInv'
<1>1. LocalOK(r, req[r], task[r], sem[r], chan[r]) /\ Locals /\ Slots /\ ReqOK(req[r]) /\ ShapeOK(r, req[r].shape)
  BY RequestHere
<1>2. /\ req[r].pc = "decode" /\ resizeSem' = resizeSem - 1
      /\ UNCHANGED <<env, storage, task, sem, chan, optSem, faults>>
  BY DEF Decode
<1>3. PICK f, want : f = req[r].shape.files[1] /\ want = req[r].shape.want
  OBVIOUS
<1>4. PICK yes \in BOOLEAN : yes = TRUE
  OBVIOUS
<1>5. PICK out \in ImagickResize(f, want) :
        Answer(r, [status |-> "ok", size |-> out.size, cacheable |-> yes, decoded |-> out.decoded])
  BY <1>3, <1>4 DEF Decode, Serve, File, Shape
<1>6. req[r].shape.op = "read" /\ IsImageFile(f) /\ Resizes(want)
  BY <1>1, <1>2, <1>3 DEF ReqOK, Reading
<1>7. f.size \in (Nat \ {0}) \X (Nat \ {0}) /\ want \in Int \X Int
  <2>1. req[r].shape.files \in Seq(Files) /\ want \in Int \X Int
    BY <1>1, <1>3 DEF ShapeOK, Shapes
  <2>2. Len(req[r].shape.files) = 1
    BY <1>1, <1>6 DEF ShapeOK, Batches
  <2>3. f \in Files
    BY <1>3, <2>1, <2>2
  <2>4. QED
    BY <2>1, <2>3 DEF Files
<1>8. out.decoded = "failed" \/ (out.decoded = "ok" /\ Fits(out.size, f.size, want))
  BY <1>5, <1>6, <1>7, ResizeFits
<1>9. PICK q : q = [pc |-> "done", shape |-> req[r].shape, started |-> req[r].started,
                    answer |-> [status |-> "ok", size |-> out.size, cacheable |-> yes, decoded |-> out.decoded]]
  OBVIOUS
<1>10. Becomes(r, q)
  BY <1>1, <1>5, <1>9, ReqUpdates
<1>11. LocalOK(r, q, task[r], sem[r], chan[r])
  BY <1>1, <1>2, <1>3, <1>4, <1>8, <1>9, RequestServed DEF Reading
<1>12. q.shape = req[r].shape /\ q.pc = "done"
  BY <1>9
<1>13. UNCHANGED <<env, minio, s3, task, sem, chan>> /\ \A b \in buckets' : BucketName(b)
  BY <1>2 DEF storage, HandlersInv, Stores
<1>14. env' \in Environments /\ Locals' /\ Stores' /\ Encoding' = Encoding
  BY <1>2, <1>10, <1>11, <1>12, <1>13, RequestKeeps
<1>15. r \in Decoding /\ Decoding' = Decoding \ {r}
  BY <1>1, <1>2, <1>10, <1>12, DecodingMoved
<1>16. Cardinality(Decoding') = Cardinality(Decoding) - 1 /\ Cardinality(Decoding') \in Nat
  BY <1>15, SlotsFinite, FS_RemoveElement, FS_CardinalityType
<1>17. Slots'
  BY <1>1, <1>2, <1>14, <1>16, HandlersAssumption DEF Slots
<1>18. QED
  BY <1>14, <1>17 DEF HandlersInv

-----------------------------------------------------------------------------
(* The theorems.                                                           *)

\* A request that has not arrived.
LEMMA IdleOK ==
  ASSUME NEW r, NEW s, ShapeOK(r, s),
         NEW q, q = [pc |-> "idle", shape |-> s, started |-> 0, answer |-> [status |-> "none"]]
  PROVE  LocalOK(r, q, <<>>, 0, <<>>)
<1>1. PICK e : e = <<>>
  OBVIOUS
<1>2. /\ DOMAIN e = {} /\ e = [i \in DOMAIN e |-> e[i]] /\ Len(e) = 0
      /\ e \in Seq([file : 1 .. MaxBatch, ok : BOOLEAN, archive : {"none", "stored", "failed", "removed"}])
  BY <1>1
<1>3. q.pc = "idle" /\ q.shape = s /\ q.started = 0 /\ q.answer.status = "none"
  OBVIOUS
<1>4. Len(s.files) \in Nat
  BY DEF ShapeOK, Shapes
<1>5. ReqOK(q)
  BY <1>3, <1>4 DEF ReqOK, Pcs, Reading
<1>6. CacheOK(q)
  BY <1>3 DEF CacheOK
<1>7. TasksOK(q, e)
  BY <1>2, <1>3 DEF TasksOK
<1>8. Active(e) = {} /\ Reported(e) = {} /\ Cardinality({}) = 0
  BY <1>2, FS_EmptySet DEF Active, Reported
<1>9. SemOK(q, e, 0)
  BY <1>8, HandlersAssumption DEF SemOK
<1>10. ChanOK(e, e)
  BY <1>2, <1>8 DEF ChanOK
<1>11. AnswerOK(q, e, e)
  BY <1>3 DEF AnswerOK
<1>12. QED
  BY <1>1, <1>3, <1>5, <1>6, <1>7, <1>9, <1>10, <1>11 DEF LocalOK

\* The invariant holds when the server has started.
LEMMA InitInv ==
  ASSUME HandlersInit
  PROVE  HandlersInv
<1>1. PICK asks \in Scenarios :
        req = [r \in Requests |-> [pc |-> "idle", shape |-> asks[r], started |-> 0, answer |-> [status |-> "none"]]]
  BY DEF HandlersInit
<1>2. /\ env \in Environments /\ task = [r \in Requests |-> <<>>] /\ sem = [r \in Requests |-> 0]
      /\ chan = [r \in Requests |-> <<>>] /\ optSem = 0 /\ resizeSem = 0 /\ faults = 0
      /\ buckets = {l[1] : l \in Local} /\ minio = {<<l[1], l[2], "raw">> : l \in Local}
      /\ s3 = {ObjectAt(env.dest, c[1], c[2], "raw") : c \in Cold}
  BY DEF HandlersInit
<1>3. \A r \in Requests : task[r] = <<>> /\ DOMAIN task[r] = {} /\ req[r].pc = "idle"
  BY <1>1, <1>2
<1>4. Locals
  <2>1. Form
    BY <1>1, <1>2 DEF Form
  <2>2. ASSUME NEW r \in Requests
        PROVE  LocalOK(r, req[r], task[r], sem[r], chan[r])
    <3>1. asks[r] \in Shapes /\ (asks[r].op \notin Batches => Len(asks[r].files) = 1)
      BY HandlersAssumption
    <3>2. BucketName(asks[r].bucket)
      BY BucketsAssumption
    <3>3. asks[r].op \in Uploads => Len(asks[r].files) <= Len(Uuid[r])
      BY UuidAssumption
    <3>4. ShapeOK(r, asks[r])
      BY <3>1, <3>2, <3>3 DEF ShapeOK
    <3>5. /\ req[r] = [pc |-> "idle", shape |-> asks[r], started |-> 0, answer |-> [status |-> "none"]]
          /\ task[r] = <<>> /\ sem[r] = 0 /\ chan[r] = <<>>
      BY <1>1, <1>2
    <3>6. QED
      BY <3>4, <3>5, IdleOK
  <2>3. QED
    BY <2>1, <2>2 DEF Locals
<1>5. Stores
  <2>1. \A b \in buckets : BucketName(b)
    BY <1>2, BucketsAssumption
  <2>2. MinioForm
    <3>1. \A o \in minio : Known(o[2])
      BY <1>2, UuidAssumption
    <3>2. QED
      BY <3>1 DEF MinioForm
  <2>3. S3Form
    BY <1>2 DEF S3Form
  <2>4. Truths /\ Tolds
    BY <1>3 DEF Truths, Tolds
  <2>5. QED
    BY <2>1, <2>2, <2>3, <2>4 DEF Stores
<1>6. Slots
  <2>1. Encoding = {}
    <3>1. \A p \in Requests \X (1 .. MaxBatch) : p[1] \in Requests
      OBVIOUS
    <3>2. QED
      BY <1>3, <3>1 DEF Encoding, Tasks
  <2>2. Decoding = {}
    BY <1>3 DEF Decoding
  <2>3. QED
    BY <1>2, <2>1, <2>2, FS_EmptySet, HandlersAssumption DEF Slots
<1>7. QED
  BY <1>2, <1>4, <1>5, <1>6 DEF HandlersInv

\* Every step keeps the invariant.
LEMMA NextInv ==
  ASSUME HandlersInv, [Next]_vars
  PROVE  HandlersInv'
<1>1. CASE UNCHANGED vars
  <2>1. UNCHANGED <<env, buckets, minio, s3, req, task, sem, chan, optSem, resizeSem, faults>>
    BY <1>1 DEF vars, storage
  <2>2. Locals'
    BY <2>1 DEF HandlersInv, Locals, Form
  <2>3. Stores'
    <3>1. Condemned' = Condemned /\ AwsCondemned' = AwsCondemned
      BY <2>1, CondemnedSame
    <3>2. Tolds'
      BY <2>1 DEF HandlersInv, Stores, Tolds, Told, Shape, File
    <3>3. QED
      BY <2>1, <3>1, <3>2 DEF HandlersInv, Stores, MinioForm, S3Form, Truths
  <2>4. Encoding' = Encoding /\ Decoding' = Decoding
    BY <2>1 DEF Encoding, Decoding, Tasks
  <2>5. Slots'
    BY <2>1, <2>4 DEF HandlersInv, Slots
  <2>6. QED
    BY <2>1, <2>2, <2>3, <2>5 DEF HandlersInv
<1>2. ASSUME NEW r \in Requests, RequestStep(r)
      PROVE  HandlersInv'
  BY <1>2, CheckBucketStep, MakeBucketStep, StartFileStep, CollectStep, OpenStep, QueueStep, AcquireResizeSlotStep,
     QueueTimeoutStep, DecodeStep DEF RequestStep
<1>3. ASSUME NEW r \in Requests, NEW i, TaskStep(r, i)
      PROVE  HandlersInv'
  BY <1>3, BeginUploadStep, BeginFetchStep, CheckTypeStep, AcquireOptimizeSlotStep, OptimizedStep, PutObjectStep,
     MirrorStep, RemoveObjectStep, RemoveArchivedStep, ReportStep, ReleaseStep DEF TaskStep
<1>4. QED
  BY <1>1, <1>2, <1>3, ArriveStep DEF Next

\* The inductive invariant holds of every behaviour of the handlers.
THEOREM HandlersInvTheorem == Spec => []HandlersInv
<1>1. HandlersInit => HandlersInv
  BY InitInv
<1>2. HandlersInv /\ [Next]_vars => HandlersInv'
  BY NextInv
<1>3. QED
  BY <1>1, <1>2, PTL DEF Spec

\* optimizeSem, resizeSem and a batch's semaphore (image.go): at every moment the
\* slots taken are exactly the goroutines between their acquire and their release,
\* within the capacity, for any number of requests and of files.
THEOREM HandlersTypeTheorem == Spec => []TypeOK
<1>1. HandlersInv => TypeOK
  <2> SUFFICES ASSUME HandlersInv
               PROVE  TypeOK
    OBVIOUS
  <2>1. ASSUME NEW r \in Requests
        PROVE  /\ req[r].pc \in Pcs /\ req[r].started \in 0 .. Len(Shape(r).files)
               /\ Len(chan[r]) <= Len(Shape(r).files) /\ sem[r] \in 0 .. BatchSlots
               /\ sem[r] = IF Shape(r).op \in Batches THEN Cardinality(Holding(r)) ELSE 0
    <3>1. /\ ShapeOK(r, req[r].shape) /\ ReqOK(req[r]) /\ TasksOK(req[r], task[r])
          /\ SemOK(req[r], task[r], sem[r]) /\ ChanOK(task[r], chan[r])
      BY RequestHere DEF LocalOK
    <3>2. Holding(r) = Active(task[r])
      BY DEF Holding, Active
    <3>3. Len(chan[r]) <= Len(req[r].shape.files)
      <4>1. Reported(task[r]) \subseteq 1 .. Len(req[r].shape.files)
        BY <3>1 DEF TasksOK, Reported
      <4>2. Len(req[r].shape.files) \in Nat
        BY <3>1 DEF ShapeOK, Shapes
      <4>3. /\ IsFiniteSet(1 .. Len(req[r].shape.files))
            /\ Cardinality(1 .. Len(req[r].shape.files)) = Len(req[r].shape.files)
        BY <4>2, FS_Interval
      <4>4. Cardinality(Reported(task[r])) <= Len(req[r].shape.files)
        BY <4>1, <4>3, FS_Subset
      <4>5. QED
        BY <3>1, <4>4 DEF ChanOK
    <3>4. QED
      BY <3>1, <3>2, <3>3 DEF ReqOK, SemOK, Shape
  <2>2. QED
    BY <2>1 DEF TypeOK, HandlersInv, Slots, Encoding, Decoding, Pcs
<1>2. QED
  BY <1>1, HandlersInvTheorem, PTL

\* GetImage: a body a cache may keep under a URL with dimensions, unless it is the
\* original after a decode that failed, was resized and has those dimensions, within
\* MAX_RESIZE_DIMENSION, unless the side not asked for is longer than that.
THEOREM CachedTheorem == Spec => []CachedFits
<1>1. HandlersInv => CachedFits
  BY DEF HandlersInv, Locals, LocalOK, CacheOK, CachedFits, Shape, File
<1>2. QED
  BY <1>1, HandlersInvTheorem, PTL

\* Archive.Walk: a walk of a bucket lists what was archived for it before, or what an
\* upload to that bucket mirrored, and nothing of another bucket, in both layouts.
THEOREM ArchiveExactTheorem == Spec => []ArchiveExact
<1>1. HandlersInv => ArchiveExact
  <2> SUFFICES ASSUME HandlersInv, NEW b \in buckets, NEW w \in Walk(s3, env.dest, b)
               PROVE  \/ <<b, w[1]>> \in Cold
                      \/ \E t \in Tasks : Shape(t[1]).op \in Uploads /\ Shape(t[1]).bucket = b /\ Key(t[1], t[2]) = w[1]
    BY DEF ArchiveExact
  <2>1. BucketName(b) /\ Locals /\ S3Form
    BY DEF HandlersInv, Stores
  <2>2. PICK o \in s3 : \A c, body : \A k \in Seq(Symbols) :
          BucketName(c) /\ o = ObjectAt(env.dest, c, k, body) => c = b /\ w = <<k, body>>
    BY <2>1, WalkOnly
  <2>3. CASE \E l \in Cold : o = ObjectAt(env.dest, l[1], l[2], "raw")
    <3>1. PICK l \in Cold : o = ObjectAt(env.dest, l[1], l[2], "raw")
      BY <2>3
    <3>2. l \in Seq(Symbols) \X Seq(Symbols) /\ BucketName(l[1])
      BY BucketsAssumption
    <3>3. l[1] = b /\ w = <<l[2], "raw">>
      BY <2>2, <3>1, <3>2
    <3>4. <<b, w[1]>> = l
      BY <3>2, <3>3
    <3>5. QED
      BY <3>4
  <2>4. CASE \E r \in Requests : \E i \in 1 .. MaxBatch :
               Uploaded(req[r].shape, task[r], i) /\ o = OwnCopy(env.dest, r, req[r].shape, i, task[r][i])
    <3>1. PICK r \in Requests, i \in 1 .. MaxBatch :
            Uploaded(req[r].shape, task[r], i) /\ o = OwnCopy(env.dest, r, req[r].shape, i, task[r][i])
      BY <2>4
    <3>2. i \in DOMAIN task[r] /\ req[r].shape.op \in Uploads
      BY <3>1 DEF Uploaded
    <3>3. ShapeOK(r, req[r].shape) /\ i \in 1 .. Len(req[r].shape.files)
      BY <2>1, <3>2, TaskHere
    <3>4. KeyOf(r, req[r].shape, i) \in Seq(Symbols) /\ BucketName(req[r].shape.bucket)
      BY <3>3, RandomKeys DEF ShapeOK
    <3>5. req[r].shape.bucket = b /\ w = <<KeyOf(r, req[r].shape, i), task[r][i].body>>
      BY <2>2, <3>1, <3>4 DEF OwnCopy
    <3>6. PICK t : t = <<r, i>>
      OBVIOUS
    <3>7. t \in Tasks /\ t[1] = r /\ t[2] = i
      BY <3>2, <3>6 DEF Tasks
    <3>8. Key(r, i) = w[1] /\ Shape(r).bucket = b /\ Shape(r).op \in Uploads
      BY <3>2, <3>5 DEF Key, KeyOf, Shape, File
    <3>9. QED
      BY <3>7, <3>8
  <2>5. QED
    BY <2>1, <2>3, <2>4 DEF S3Form
<1>2. QED
  BY <1>1, HandlersInvTheorem, PTL

\* An upload's object is the only one under its key.
LEMMA OnlyOwn ==
  ASSUME HandlersInv, NEW r \in Requests, NEW i \in DOMAIN task[r], req[r].shape.op \in Uploads,
         OwnObject(r, req[r].shape, i, task[r][i]) \in minio
  PROVE  Stored(r, i) = {<<Shape(r).bucket, Key(r, i), task[r][i].body>>}
<1>1. PICK own : own = OwnObject(r, req[r].shape, i, task[r][i])
  OBVIOUS
<1>2. Locals /\ MinioForm
  BY DEF HandlersInv, Stores
<1>3. ShapeOK(r, req[r].shape) /\ i \in 1 .. Len(req[r].shape.files)
  BY <1>2, TaskHere
<1>4. KeyOf(r, req[r].shape, i) = Key(r, i) /\ own = <<Shape(r).bucket, Key(r, i), task[r][i].body>>
  BY <1>1 DEF Key, KeyOf, Shape, File, OwnObject
<1>5. ASSUME NEW o \in minio, o[1] = Shape(r).bucket, o[2] = KeyOf(r, req[r].shape, i)
      PROVE  o = own
  <2>1. ~Known(o[2])
    BY <1>3, <1>5, RandomKeys
  <2>2. PICK x \in Requests, j \in 1 .. MaxBatch :
          Uploaded(req[x].shape, task[x], j) /\ o = OwnObject(x, req[x].shape, j, task[x][j])
    BY <1>2, <2>1 DEF MinioForm
  <2>3. j \in DOMAIN task[x] /\ req[x].shape.op \in Uploads
    BY <2>2 DEF Uploaded
  <2>4. ShapeOK(x, req[x].shape) /\ j \in 1 .. Len(req[x].shape.files)
    BY <1>2, <2>3, TaskHere
  <2>5. KeyOf(r, req[r].shape, i) = KeyOf(x, req[x].shape, j)
    BY <1>5, <2>2 DEF OwnObject
  <2>6. r = x /\ i = j
    BY <1>3, <2>3, <2>4, <2>5, OneOwner
  <2>7. QED
    BY <1>1, <2>2, <2>6
<1>6. own \in minio /\ own[1] = Shape(r).bucket /\ own[2] = Key(r, i)
  BY <1>1, <1>4
<1>7. Stored(r, i) = {own}
  BY <1>4, <1>5, <1>6 DEF Stored
<1>8. QED
  BY <1>4, <1>7

\* BatchUpload, BatchDelete and the single routes: what an answer says of MinIO is true
\* when it is given and until a delete of the file comes in, and what it says of the
\* archived copy until a delete with aws_delete does, of the file or of the place the
\* copy lies at, whatever the other requests do and whichever storage calls fail.
THEOREM AnswersTheorem == Spec => []AnswersTruthful
<1>1. HandlersInv => AnswersTruthful
  <2> SUFFICES ASSUME HandlersInv, NEW r \in Requests,
                      req[r].pc = "done" /\ req[r].answer.status = "ok" /\ Shape(r).op # "read"
               PROVE  LET results == req[r].answer.results IN
                      /\ Len(results) = Len(Shape(r).files)
                      /\ {results[n].file : n \in DOMAIN results} = DOMAIN Shape(r).files
                      /\ \A n \in DOMAIN results :
                           LET i == results[n].file IN
                           results[n].ok =>
                             IF Shape(r).op \in Uploads
                             THEN \E body \in Bodies(r, i) :
                                    /\ \/ Stored(r, i) = {<<Shape(r).bucket, Key(r, i), body>>}
                                       \/ <<Shape(r).bucket, Key(r, i)>> \in Condemned
                                    /\ results[n].archive = "stored" =>
                                         \/ <<Key(r, i), body>> \in Walk(s3, env.dest, Shape(r).bucket)
                                         \/ <<Shape(r).bucket, Key(r, i)>> \in AwsCondemned
                                         \/ resolve(env.dest, Shape(r).bucket, Key(r, i)) \in AwsCondemned
                             ELSE Stored(r, i) = {}
    BY DEF AnswersTruthful
  <2>1. /\ ShapeOK(r, req[r].shape) /\ TasksOK(req[r], task[r]) /\ ChanOK(task[r], chan[r])
        /\ AnswerOK(req[r], task[r], chan[r]) /\ Locals /\ Stores
    BY RequestHere DEF LocalOK
  <2>2. PICK c, len : c = req[r].answer.results /\ len = Len(req[r].shape.files)
    OBVIOUS
  <2>3. /\ c = chan[r] /\ DOMAIN task[r] = 1 .. len /\ \A i \in 1 .. len : task[r][i].pc = "gone"
    BY <2>1, <2>2 DEF AnswerOK, TasksOK, Shape
  <2>4. Reported(task[r]) = 1 .. len /\ len \in Nat /\ DOMAIN req[r].shape.files = 1 .. len
    BY <2>1, <2>2, <2>3 DEF Reported, ShapeOK, Shapes
  <2>5. /\ Len(c) = len /\ DOMAIN c = 1 .. Len(c)
        /\ \A n \in 1 .. Len(c) : c[n].file \in 1 .. len /\ c[n].ok = task[r][c[n].file].ok
                                  /\ c[n].archive = task[r][c[n].file].archive
        /\ \A i \in 1 .. len : \E n \in 1 .. Len(c) : c[n].file = i
    <3>1. Cardinality(1 .. len) = len
      BY <2>4, FS_Interval
    <3>2. DOMAIN c = 1 .. Len(c)
      BY <2>1, <2>3 DEF ChanOK
    <3>3. QED
      BY <2>1, <2>3, <2>4, <3>1, <3>2 DEF ChanOK
  <2>6. {c[n].file : n \in DOMAIN c} = 1 .. len
    BY <2>5
  <2>7. ASSUME NEW n \in DOMAIN c, NEW i, i = c[n].file, c[n].ok
        PROVE  IF Shape(r).op \in Uploads
               THEN \E body \in Bodies(r, i) :
                      /\ \/ Stored(r, i) = {<<Shape(r).bucket, Key(r, i), body>>}
                         \/ <<Shape(r).bucket, Key(r, i)>> \in Condemned
                      /\ c[n].archive = "stored" =>
                           \/ <<Key(r, i), body>> \in Walk(s3, env.dest, Shape(r).bucket)
                           \/ <<Shape(r).bucket, Key(r, i)>> \in AwsCondemned
                           \/ resolve(env.dest, Shape(r).bucket, Key(r, i)) \in AwsCondemned
               ELSE Stored(r, i) = {}
    <3>1. i \in DOMAIN task[r] /\ i \in 1 .. len /\ task[r][i].ok /\ task[r][i].archive = c[n].archive
      BY <2>3, <2>5, <2>7
    <3>2. Truth(minio, s3, Condemned, AwsCondemned, env.dest, r, req[r].shape, i, task[r][i]) /\ task[r][i].pc \in Ended
      BY <2>1, <2>3, <3>1 DEF Stores, Truths, Ended
    <3>3. KeyOf(r, req[r].shape, i) = Key(r, i) /\ req[r].shape = Shape(r)
      BY DEF Key, KeyOf, Shape, File
    <3>4. CASE Shape(r).op \in Uploads
      <4>1. /\ \/ OwnObject(r, req[r].shape, i, task[r][i]) \in minio
               \/ <<Shape(r).bucket, Key(r, i)>> \in Condemned
            /\ c[n].archive = "stored" =>
                 \/ OwnCopy(env.dest, r, req[r].shape, i, task[r][i]) \in s3
                 \/ <<Shape(r).bucket, Key(r, i)>> \in AwsCondemned
                 \/ resolve(env.dest, Shape(r).bucket, Key(r, i)) \in AwsCondemned
        BY <3>1, <3>2, <3>3, <3>4 DEF Truth
      <4>2. \/ Stored(r, i) = {<<Shape(r).bucket, Key(r, i), task[r][i].body>>}
            \/ <<Shape(r).bucket, Key(r, i)>> \in Condemned
        BY <3>1, <3>3, <3>4, <4>1, OnlyOwn
      <4>3. task[r][i].body \in Bodies(r, i)
        <5>1. task[r][i].body \in BodiesOf(req[r].shape, i)
          BY <2>1, <3>1, <3>3, <3>4, TaskHere DEF TaskOK
        <5>2. QED
          BY <5>1 DEF Bodies, BodiesOf, Shape, File
      <4>4. c[n].archive = "stored" =>
              \/ <<Key(r, i), task[r][i].body>> \in Walk(s3, env.dest, Shape(r).bucket)
              \/ <<Shape(r).bucket, Key(r, i)>> \in AwsCondemned
              \/ resolve(env.dest, Shape(r).bucket, Key(r, i)) \in AwsCondemned
        <5>1. Key(r, i) \in Seq(Symbols) /\ Shape(r).bucket \in Seq(Symbols) /\ Key(r, i) # <<>>
          BY <2>1, <2>2, <3>1, <3>3, <3>4, RandomKeys
        <5>2. QED
          BY <3>3, <4>1, <5>1, WalkFinds DEF OwnCopy
      <4>5. QED
        BY <3>4, <4>2, <4>3, <4>4
    <3>5. CASE Shape(r).op \notin Uploads
      <4>1. \A o \in minio : ~(o[1] = Shape(r).bucket /\ o[2] = Key(r, i))
        BY <3>1, <3>2, <3>3, <3>5 DEF Truth
      <4>2. QED
        BY <3>5, <4>1 DEF Stored
    <3>6. QED
      BY <3>4, <3>5
  <2>8. Len(c) = Len(Shape(r).files) /\ {c[n].file : n \in DOMAIN c} = DOMAIN Shape(r).files
    BY <2>2, <2>4, <2>5, <2>6 DEF Shape
  <2>9. QED
    BY <2>2, <2>7, <2>8, Zenon
<1>2. QED
  BY <1>1, HandlersInvTheorem, PTL
=============================================================================
