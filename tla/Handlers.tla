------------------------------- MODULE Handlers -------------------------------
(***************************************************************************)
(* The image handlers at work side by side (handler/image.go): UploadImage,*)
(* UploadWithUrl, BatchUpload, DeleteImage, BatchDelete and GetImage, over *)
(* the two storage tiers and the semaphores they share.                    *)
(*                                                                         *)
(* A batch starts one goroutine per file.  It takes a slot of the batch's  *)
(* own semaphore before each start and reads no result before the last     *)
(* start; a goroutine that optimizes waits for a slot of the process while *)
(* it holds the one of its batch, and hands its result over before it      *)
(* gives the batch slot back.  A single upload or delete is one such task  *)
(* without a batch slot.  Reads that resize queue for the decode slots.    *)
(*                                                                         *)
(* Bodies are told apart by what was done to them: "raw" is what the       *)
(* client sent, "small" optimized, "resized", "cut" at MAX_FILE_SIZE.      *)
(* The moments inside openObject are module Tiering's; here it is a step.  *)
(***************************************************************************)
EXTENDS ArchiveLayout, Integers, FiniteSets

CONSTANTS
  Symbols,        \* what names and keys are made of
  Requests,       \* the requests that may arrive
  Scenarios,      \* the ways to say what each request asks for
  Uuid,           \* Uuid[r][i]: the random name r's i-th file is given
  Environments,   \* the environments the process may have been started in
  ValidNames,     \* the names bucketname.Validate lets a new bucket have
  Local, Cold,    \* the <<bucket, key>> in MinIO and in the archive at first
  BatchSlots,     \* capacity of a batch's semaphore, 10 in the code
  OptimizeSlots,  \* OPTIMIZE_MAX_CONCURRENT
  ResizeSlots,    \* RESIZE_MAX_CONCURRENT
  MaxBatch,       \* MAX_BATCH_FILES
  MaxDim,         \* MAX_RESIZE_DIMENSION
  MaxFaults       \* bound on the storage calls that fail

Batches == {"batch_upload", "batch_delete"}
Uploads == {"batch_upload", "upload", "url"}
Deletes == {"delete", "batch_delete"}

\* A file: the key a request names, what its content is, whether it is longer
\* than MAX_FILE_SIZE, and its sides in pixels where it is an image.
Files == [key : Seq(Symbols), kind : {"image", "broken", "other", "unknown"}, long : BOOLEAN,
          size : (Nat \ {0}) \X (Nat \ {0})]
Shapes == [op : Uploads \union Deletes \union {"read"}, bucket : Seq(Symbols), files : Seq(Files),
           optimize : BOOLEAN, want : Int \X Int, aws : BOOLEAN]

ASSUME HandlersAssumption ==
  /\ BatchSlots \in Nat \ {0} /\ OptimizeSlots \in Nat \ {0} /\ ResizeSlots \in Nat \ {0}
  /\ MaxBatch \in Nat \ {0} /\ MaxDim \in Nat \ {0} /\ MaxFaults \in Nat
  /\ "/" \in Symbols /\ IsFiniteSet(Requests)
  /\ Scenarios \subseteq [Requests -> Shapes]
  /\ \A asks \in Scenarios : \A r \in Requests :
       /\ asks[r].op \notin Batches => Len(asks[r].files) = 1
       /\ asks[r].aws => asks[r].op = "batch_delete"

\* No bucket name holds a '/'.
BucketName(b) == b \in Seq(Symbols) /\ \A n \in DOMAIN b : b[n] # "/"

ASSUME BucketsAssumption ==
  /\ \A asks \in Scenarios : \A r \in Requests : BucketName(asks[r].bucket)
  /\ \A l \in Local \union Cold : l \in Seq(Symbols) \X Seq(Symbols) /\ BucketName(l[1])

\* A key without a random name in it.
Known(key) == \A n \in DOMAIN key : \A r \in Requests : \A i \in DOMAIN Uuid[r] : key[n] # Uuid[r][i]

\* A random name is given once, and is in no key that was there before.
ASSUME UuidAssumption ==
  /\ Uuid \in [Requests -> Seq(Symbols)]
  /\ \A r, q \in Requests : \A i \in DOMAIN Uuid[r], j \in DOMAIN Uuid[q] :
       Uuid[r][i] = Uuid[q][j] => r = q /\ i = j
  /\ \A l \in Local : Known(l[2])
  /\ \A asks \in Scenarios : \A r \in Requests :
       asks[r].op \in Uploads => Len(asks[r].files) <= Len(Uuid[r])

VARIABLES
  env,        \* the environment: archive switch, credentials, scope and layout
  buckets,    \* the buckets MinIO has
  minio, s3,  \* the objects of the two tiers, <<bucket, key, body>>
  req,        \* req[r]: where the request's own goroutine is
  task,       \* task[r][i]: where the goroutine of its i-th file is
  sem,        \* sem[r]: slots taken of the batch's semaphore
  chan,       \* chan[r]: resultChan
  optSem,     \* slots taken of optimizeSem
  resizeSem,  \* slots taken of resizeSem
  faults      \* how many storage calls failed

storage == <<buckets, minio, s3>>
vars == <<env, storage, req, task, sem, chan, optSem, resizeSem, faults>>

Shape(r) == req[r].shape
File(r, i) == Shape(r).files[i]
Key(r, i) == IF Shape(r).op \in Uploads THEN <<Uuid[r][i]>> ELSE File(r, i).key
IsImageFile(f) == f.kind \in {"image", "broken"}
HasUnsafeObjectKey(key) == key = <<>> \/ \E n \in DOMAIN key : key[n] = ".."

\* A storage call that fails, within the bound.
Fail == faults < MaxFaults /\ faults' = faults + 1
Works == UNCHANGED faults

-----------------------------------------------------------------------------
(* The size of a resized image, in whole pixels.                           *)

Least(a, b) == IF a < b THEN a ELSE b
Clamp(n) == IF n < 0 THEN 0 ELSE Least(n, MaxDim)
GetWidthAndHeight(want) == <<Clamp(want[1]), Clamp(want[2])>>
Resizes(want) == GetWidthAndHeight(want) # <<0, 0>>

\* uint(float64(n) * (float64(a) / float64(b))): the product of a rounded
\* quotient may fall just short of a whole number.
Scaled(n, a, b) ==
  LET whole == (n * a) \div b
  IN  {whole} \union (IF a % b # 0 /\ n > 0 /\ whole * b = n * a THEN {whole - 1} ELSE {})

RatioWidthHeight(size, to) ==
  IF to[1] = 0 THEN {<<w, to[2]>> : w \in Scaled(to[2], size[1], size[2])}
  ELSE IF to[2] = 0 THEN {<<to[1], h>> : h \in Scaled(to[1], size[2], size[1])}
  ELSE {to}

\* What ImagickResize may answer with: the original where ImageMagick fails,
\* as it does for a side of 0 pixels.
ImagickResize(f, want) ==
  LET sizes == {to \in RatioWidthHeight(f.size, GetWidthAndHeight(want)) : to[1] > 0 /\ to[2] > 0}
  IN  {[size |-> f.size, decoded |-> "failed"]} \union
      {[size |-> to, decoded |-> "ok"] : to \in IF f.kind = "broken" THEN {} ELSE sizes}

-----------------------------------------------------------------------------
(* The request's own goroutine.                                            *)

NewTask(body) == [pc |-> "begin", body |-> body, ok |-> FALSE, archive |-> "none"]
NoTask == [pc |-> "none", body |-> "raw", ok |-> FALSE, archive |-> "none"]

HandlersInit ==
  /\ env \in Environments
  /\ buckets = {l[1] : l \in Local}
  /\ minio = {<<l[1], l[2], "raw">> : l \in Local}
  /\ s3 = {ObjectAt(env.dest, c[1], c[2], "raw") : c \in Cold}
  /\ \E asks \in Scenarios :
       req = [r \in Requests |-> [pc |-> "idle", shape |-> asks[r], started |-> 0, answer |-> [status |-> "none"]]]
  /\ task = [r \in Requests |-> <<>>]
  /\ sem = [r \in Requests |-> 0]
  /\ chan = [r \in Requests |-> <<>>]
  /\ optSem = 0 /\ resizeSem = 0 /\ faults = 0

\* The request's goroutine goes on, or answers.
Go(r, pc) == req' = [req EXCEPT ![r].pc = pc]
Answer(r, answer) == req' = [req EXCEPT ![r].pc = "done", ![r].answer = answer]
Refuse(r) == Answer(r, [status |-> "refused"])

\* Whoever asks for a key with a random name in it has it from the answer to
\* the upload that was given the name.
Told(r) ==
  Shape(r).op \notin Uploads =>
    \A i \in DOMAIN Shape(r).files : \A q \in Requests : \A j \in DOMAIN Uuid[q] :
      (\E n \in DOMAIN File(r, i).key : File(r, i).key[n] = Uuid[q][j]) => req[q].pc = "done"

\* A request arrives, and its parameters are looked at before any storage.
Arrive(r) ==
  /\ req[r].pc = "idle" /\ Told(r)
  /\ LET s == Shape(r)
         unsafe == s.op \in {"read", "delete"} /\ HasUnsafeObjectKey(s.files[1].key)
         count == s.op = "batch_delete" /\ Len(s.files) \notin 1 .. MaxBatch
     IN  IF unsafe \/ count THEN Refuse(r) ELSE Go(r, "check")
  /\ UNCHANGED <<env, storage, task, sem, chan, optSem, resizeSem, faults>>

\* What follows on a bucket that is there: a read opens, a batch starts its
\* goroutines, a single upload or delete is its own one task.
Proceed(r) ==
  LET s == Shape(r)
      op == s.op
      refused == \/ op = "batch_upload" /\ (s.files = <<>> \/ Len(s.files) > MaxBatch)
                 \/ op = "batch_delete" /\ s.aws /\ s.bucket \notin env.s3buckets
  IN  IF refused THEN Refuse(r) /\ UNCHANGED task
      ELSE /\ Go(r, IF op = "read" THEN "open" ELSE IF op \in Batches THEN "start" ELSE "collect")
           /\ task' = [task EXCEPT ![r] =
                IF op = "read" THEN <<>>
                ELSE [i \in DOMAIN s.files |-> IF op \in Batches THEN NoTask ELSE NewTask("raw")]]

\* BucketExists.  Only the single uploads create a bucket that is missing, and
\* only under a valid name.
CheckBucket(r) ==
  /\ req[r].pc = "check"
  /\ \/ Fail /\ Refuse(r) /\ UNCHANGED task
     \/ Works /\ Shape(r).bucket \in buckets /\ Proceed(r)
     \/ /\ Works /\ Shape(r).bucket \notin buckets
        /\ IF Shape(r).op \in {"upload", "url"} /\ Shape(r).bucket \in ValidNames
           THEN Go(r, "make") ELSE Refuse(r)
        /\ UNCHANGED task
  /\ UNCHANGED <<env, storage, sem, chan, optSem, resizeSem>>

\* MakeBucket fails on a bucket another upload has made since the check; the
\* bucket may be there although the call failed.
MakeBucket(r) ==
  LET made == buckets \union {Shape(r).bucket} IN
  /\ req[r].pc = "make"
  /\ \/ Fail /\ Refuse(r) /\ buckets' \in {buckets, made} /\ UNCHANGED task
     \/ Works /\ Shape(r).bucket \in buckets /\ Refuse(r) /\ UNCHANGED <<buckets, task>>
     \/ Works /\ Shape(r).bucket \notin buckets /\ buckets' = made /\ Proceed(r)
  /\ UNCHANGED <<env, minio, s3, sem, chan, optSem, resizeSem>>

\* The loop over the files: a slot, then the goroutine.  The results are
\* read after the last one.
StartFile(r) ==
  LET i == req[r].started + 1 IN
  /\ req[r].pc = "start"
  /\ sem[r] < BatchSlots
  /\ sem' = [sem EXCEPT ![r] = @ + 1]
  /\ task' = [task EXCEPT ![r][i] = NewTask("raw")]
  /\ req' = [req EXCEPT ![r].started = i, ![r].pc = IF i = Len(Shape(r).files) THEN "collect" ELSE "start"]
  /\ UNCHANGED <<env, storage, chan, optSem, resizeSem, faults>>

Gone(r) == \A i \in DOMAIN task[r] : task[r][i].pc = "gone"

\* The channel is closed when every goroutine is done; then the answer goes
\* out with the results in the order they came.
Collect(r) ==
  /\ req[r].pc = "collect"
  /\ Gone(r)
  /\ Answer(r, [status |-> IF Shape(r).op \in Batches \/ chan[r][1].ok THEN "ok" ELSE "refused",
                results |-> chan[r]])
  /\ UNCHANGED <<env, storage, task, sem, chan, optSem, resizeSem, faults>>

-----------------------------------------------------------------------------
(* GetImage.                                                               *)

Served(r) == {o \in minio : o[1] = Shape(r).bucket /\ o[2] = Key(r, 1)}
Archived(r) ==
  IF ~archiveConfigured(env) THEN {}
  ELSE LET at == resolve(env.dest, Shape(r).bucket, Key(r, 1)) IN {o \in s3 : <<o[1], o[2]>> = at}

\* A body goes out: its size, whether a cache may keep it, and what became of
\* the decode ("none" was tried, or it "failed" or went "ok").
Serve(r, size, cacheable, decoded) ==
  Answer(r, [status |-> "ok", size |-> size, cacheable |-> cacheable, decoded |-> decoded])

\* An object is open.  Its size came with it.
Opened(r) ==
  IF IsImageFile(File(r, 1)) /\ Resizes(Shape(r).want) THEN Go(r, "slot")
  ELSE Serve(r, File(r, 1).size, TRUE, "none")

\* openObject: MinIO, then the archive, also where MinIO's call fails.
Open(r) ==
  /\ req[r].pc = "open"
  /\ \/ Works /\ Served(r) \union Archived(r) # {} /\ Opened(r)
     \/ Works /\ Served(r) \union Archived(r) = {} /\ Refuse(r)
     \/ Fail /\ Archived(r) # {} /\ Opened(r)
     \/ Fail /\ Refuse(r)
  /\ UNCHANGED <<env, storage, task, sem, chan, optSem, resizeSem>>

\* Every decode slot is taken: the request waits with a timer.
Queue(r) ==
  /\ req[r].pc = "slot" /\ resizeSem = ResizeSlots
  /\ Go(r, "queued")
  /\ UNCHANGED <<env, storage, task, sem, chan, optSem, resizeSem, faults>>

AcquireResizeSlot(r) ==
  /\ req[r].pc \in {"slot", "queued"}
  /\ resizeSem < ResizeSlots
  /\ resizeSem' = resizeSem + 1
  /\ Go(r, "decode")
  /\ UNCHANGED <<env, storage, task, sem, chan, optSem, faults>>

\* Mutation: the original goes out as if it were what was asked for.
QueueTimeout_cached(r) ==
  /\ req[r].pc = "queued"
  /\ Serve(r, File(r, 1).size, TRUE, "none")
  /\ UNCHANGED <<env, storage, task, sem, chan, optSem, resizeSem, faults>>

\* The timer wins, perhaps over a slot just freed: the original, no-store.
QueueTimeout(r) ==
  /\ req[r].pc = "queued"
  /\ Serve(r, File(r, 1).size, FALSE, "none")
  /\ UNCHANGED <<env, storage, task, sem, chan, optSem, resizeSem, faults>>

\* ImagickGetWidthHeight and ImagickResize under the slot, then its release.
Decode(r) ==
  /\ req[r].pc = "decode"
  /\ \E out \in ImagickResize(File(r, 1), Shape(r).want) : Serve(r, out.size, TRUE, out.decoded)
  /\ resizeSem' = resizeSem - 1
  /\ UNCHANGED <<env, storage, task, sem, chan, optSem, faults>>

-----------------------------------------------------------------------------
(* The goroutine of one file.                                              *)

At(r, i, pc) == i \in DOMAIN task[r] /\ task[r][i].pc = pc
GoTask(r, i, pc) == task' = [task EXCEPT ![r][i].pc = pc]
Done(r, i, ok, archive) ==
  task' = [task EXCEPT ![r][i].pc = "report", ![r][i].ok = ok, ![r][i].archive = archive]
Failed(r, i) == Done(r, i, FALSE, "none")

\* validateImageContent with VALIDATE_FILE on; a decode that the batch's own
\* semaphore bounds, and nothing else.
ValidImage(f) == f.kind # "broken"
ValidateFile(f) == f.kind # "unknown" /\ ~f.long

\* A file of a form: checked, read, decoded; UploadImage may resize it too.
BeginUpload(r, i) ==
  LET f == File(r, i) IN
  /\ At(r, i, "begin") /\ Shape(r).op \in {"batch_upload", "upload"}
  /\ IF ~ValidateFile(f) \/ ~ValidImage(f) THEN Failed(r, i)
     ELSE IF Shape(r).optimize /\ IsImageFile(f) THEN GoTask(r, i, "optimize")
     ELSE \E body \in IF Shape(r).op = "upload" /\ IsImageFile(f) /\ Resizes(Shape(r).want)
                      THEN {"resized", "raw"} ELSE {"raw"} :
            task' = [task EXCEPT ![r][i].pc = "put", ![r][i].body = body]
  /\ UNCHANGED <<env, storage, req, sem, chan, optSem, resizeSem, faults>>

\* A file fetched from a URL: what is longer than MAX_FILE_SIZE is cut, and
\* the optimizer sees it before its type is looked at.
BeginFetch(r, i) ==
  /\ At(r, i, "begin") /\ Shape(r).op = "url"
  /\ \/ Fail /\ Failed(r, i)
     \/ /\ Works
        /\ task' = [task EXCEPT ![r][i].pc = IF Shape(r).optimize THEN "optimize" ELSE "typed",
                                ![r][i].body = IF File(r, i).long THEN "cut" ELSE "raw"]
  /\ UNCHANGED <<env, storage, req, sem, chan, optSem, resizeSem>>

\* The type of what was fetched: a cut image may decode or not.
CheckType(r, i) ==
  LET f == File(r, i) IN
  /\ At(r, i, "typed")
  /\ \/ /\ f.kind = "unknown" \/ ~ValidImage(f) \/ (f.long /\ IsImageFile(f))
        /\ Failed(r, i)
     \/ f.kind # "unknown" /\ ValidImage(f) /\ GoTask(r, i, "put")
  /\ UNCHANGED <<env, storage, req, sem, chan, optSem, resizeSem, faults>>

AcquireOptimizeSlot(r, i) ==
  /\ At(r, i, "optimize")
  /\ optSem < OptimizeSlots
  /\ optSem' = optSem + 1
  /\ GoTask(r, i, "encode")
  /\ UNCHANGED <<env, storage, req, sem, chan, resizeSem, faults>>

\* Mutation: a failed optimization keeps its slot.
Optimized_leaking(r, i) ==
  /\ At(r, i, "encode")
  /\ \/ File(r, i).kind = "image" /\ optSem' = optSem - 1
        /\ task' = [task EXCEPT ![r][i].pc = IF Shape(r).op = "url" THEN "typed" ELSE "put", ![r][i].body = "small"]
     \/ UNCHANGED optSem /\ GoTask(r, i, IF Shape(r).op = "url" THEN "typed" ELSE "put")
  /\ UNCHANGED <<env, storage, req, sem, chan, resizeSem, faults>>

\* The bodies it may answer with: an image re-encoded, or as it was where that
\* failed; anything it cannot resize passes through.
OptimizeImage(f, body) == IF f.kind = "image" THEN {"small", body} ELSE {body}

\* maybeOptimize returns, and its slot is free again whichever way it went.
Optimized(r, i) ==
  /\ At(r, i, "encode")
  /\ optSem' = optSem - 1
  /\ \E body \in OptimizeImage(File(r, i), task[r][i].body) :
       task' = [task EXCEPT ![r][i].pc = IF Shape(r).op = "url" THEN "typed" ELSE "put", ![r][i].body = body]
  /\ UNCHANGED <<env, storage, req, sem, chan, resizeSem, faults>>

\* PutObject; the object may be there although the call failed.
PutObject(r, i) ==
  LET stored == minio \union {<<Shape(r).bucket, Key(r, i), task[r][i].body>>} IN
  /\ At(r, i, "put")
  /\ \/ Works /\ minio' = stored /\ GoTask(r, i, "mirror")
     \/ Fail /\ minio' \in {minio, stored} /\ Failed(r, i)
  /\ UNCHANGED <<env, buckets, s3, req, sem, chan, optSem, resizeSem>>

\* Mutation: the reader MinIO has drained goes to the archive as it is.
Mirror_drained(r, i) ==
  /\ At(r, i, "mirror")
  /\ \/ Works /\ InScope(env, Shape(r).bucket) /\ Done(r, i, TRUE, "stored")
        /\ s3' = s3 \union {ObjectAt(env.dest, Shape(r).bucket, Key(r, i), "empty")}
     \/ Works /\ ~InScope(env, Shape(r).bucket) /\ Done(r, i, TRUE, "none") /\ UNCHANGED s3
  /\ UNCHANGED <<env, buckets, minio, req, sem, chan, optSem, resizeSem>>

\* archiveObject, from the start of the body again.  A failure is a message
\* in the answer and no failure of the upload.
Mirror(r, i) ==
  LET b == Shape(r).bucket
      stored == s3 \union {ObjectAt(env.dest, b, Key(r, i), task[r][i].body)}
  IN
  /\ At(r, i, "mirror")
  /\ \/ Works /\ ~InScope(env, b) /\ Done(r, i, TRUE, "none") /\ UNCHANGED s3
     \/ Works /\ InScope(env, b) /\ Done(r, i, TRUE, "stored") /\ s3' = stored
     \/ Fail /\ InScope(env, b) /\ Done(r, i, TRUE, "failed") /\ s3' \in {s3, stored}
  /\ UNCHANGED <<env, buckets, minio, req, sem, chan, optSem, resizeSem>>

\* RemoveObject, which has nothing against a key that is not there.
RemoveObject(r, i) ==
  LET gone == {o \in minio : o[1] = Shape(r).bucket /\ o[2] = Key(r, i)} IN
  /\ At(r, i, "begin") /\ Shape(r).op \in Deletes
  /\ \/ /\ Works /\ minio' = minio \ gone
        /\ IF Shape(r).aws THEN GoTask(r, i, "aws") ELSE Done(r, i, TRUE, "none")
     \/ Fail /\ minio' \in {minio, minio \ gone} /\ Failed(r, i)
  /\ UNCHANGED <<env, buckets, s3, req, sem, chan, optSem, resizeSem>>

\* DeleteObjects on the S3 bucket of the same name, whatever the layout is.
\* Only a batch asks for it: no route gives DeleteImage an aws_delete.  The
\* errors of single keys in S3's answer are looked at by nobody.
RemoveArchived(r, i) ==
  LET gone == {o \in s3 : o[1] = Shape(r).bucket /\ o[2] = Key(r, i)} IN
  /\ At(r, i, "aws")
  /\ \/ Works /\ s3' = s3 \ gone /\ Done(r, i, TRUE, "removed")
     \/ Fail /\ s3' \in {s3, s3 \ gone} /\ Done(r, i, TRUE, "failed")
     \/ Fail /\ s3' = s3 /\ Done(r, i, TRUE, "removed")
  /\ UNCHANGED <<env, buckets, minio, req, sem, chan, optSem, resizeSem>>

\* Mutation: resultChan without a buffer, so that a send waits for a reader.
Report_unbuffered(r, i) ==
  /\ At(r, i, "report")
  /\ req[r].pc = "collect"
  /\ chan' = [chan EXCEPT ![r] = Append(@, [file |-> i, ok |-> task[r][i].ok, archive |-> task[r][i].archive])]
  /\ GoTask(r, i, "release")
  /\ UNCHANGED <<env, storage, req, sem, optSem, resizeSem, faults>>

\* The result goes into a channel with room for every file's.
Report(r, i) ==
  /\ At(r, i, "report")
  /\ req[r].pc = "collect" \/ Len(chan[r]) < Len(Shape(r).files)
  /\ chan' = [chan EXCEPT ![r] = Append(@, [file |-> i, ok |-> task[r][i].ok, archive |-> task[r][i].archive])]
  /\ GoTask(r, i, "release")
  /\ UNCHANGED <<env, storage, req, sem, optSem, resizeSem, faults>>

\* The deferred release of the batch's slot, and wg.Done.
Release(r, i) ==
  /\ At(r, i, "release")
  /\ GoTask(r, i, "gone")
  /\ sem' = IF Shape(r).op \in Batches THEN [sem EXCEPT ![r] = @ - 1] ELSE sem
  /\ UNCHANGED <<env, storage, req, chan, optSem, resizeSem, faults>>

-----------------------------------------------------------------------------
RequestStep(r) ==
  \/ CheckBucket(r) \/ MakeBucket(r) \/ StartFile(r) \/ Collect(r)
  \/ Open(r) \/ Queue(r) \/ AcquireResizeSlot(r) \/ QueueTimeout(r) \/ Decode(r)

TaskStep(r, i) ==
  \/ BeginUpload(r, i) \/ BeginFetch(r, i) \/ CheckType(r, i)
  \/ AcquireOptimizeSlot(r, i) \/ Optimized(r, i)
  \/ PutObject(r, i) \/ Mirror(r, i) \/ RemoveObject(r, i) \/ RemoveArchived(r, i)
  \/ Report(r, i) \/ Release(r, i)

Next == \E r \in Requests : Arrive(r) \/ RequestStep(r) \/ \E i \in 1 .. MaxBatch : TaskStep(r, i)

Spec == HandlersInit /\ [][Next]_vars

\* Every goroutine runs, and the calls it makes return.
FairHandlersSpec ==
  /\ Spec
  /\ \A r \in Requests : WF_vars(RequestStep(r))
  /\ \A r \in Requests : \A i \in 1 .. MaxBatch : WF_vars(TaskStep(r, i))

-----------------------------------------------------------------------------
(* Properties.                                                             *)

Holding(r) == {i \in DOMAIN task[r] : task[r][i].pc \notin {"none", "gone"}}
Tasks == {t \in Requests \X (1 .. MaxBatch) : t[2] \in DOMAIN task[t[1]]}

(* Types, and the three semaphores of image.go against who holds them: the *)
(* slots taken are the goroutines between their acquire and their release, *)
(* never more than the capacity, after every error path too.               *)
TypeOK ==
  /\ env \in Environments /\ faults \in 0 .. MaxFaults
  /\ \A r \in Requests :
       /\ req[r].pc \in {"idle", "check", "make", "start", "collect", "open", "slot", "queued", "decode", "done"}
       /\ req[r].started \in 0 .. Len(Shape(r).files)
       /\ Len(chan[r]) <= Len(Shape(r).files)
       /\ sem[r] \in 0 .. BatchSlots
       /\ sem[r] = IF Shape(r).op \in Batches THEN Cardinality(Holding(r)) ELSE 0
  /\ optSem \in 0 .. OptimizeSlots
  /\ optSem = Cardinality({t \in Tasks : task[t[1]][t[2]].pc = "encode"})
  /\ resizeSem \in 0 .. ResizeSlots
  /\ resizeSem = Cardinality({r \in Requests : req[r].pc = "decode"})

\* What an upload of r leaves under its key, and the bodies it may have.
Stored(r, i) == {o \in minio : o[1] = Shape(r).bucket /\ o[2] = Key(r, i)}
Bodies(r, i) ==
  {"raw"} \union (IF Shape(r).optimize THEN {"small"} ELSE {})
          \union (IF Resizes(Shape(r).want) THEN {"resized"} ELSE {})
          \union (IF Shape(r).op = "url" /\ File(r, i).long THEN {"cut"} ELSE {})

\* The delete requests that have come in, and the places they are for, as
\* bucket and key; AwsCondemned, where the archived copy is to go too.
Deleting == {q \in Requests : Shape(q).op \in Deletes /\ req[q].pc # "idle"}
Places(r) == {<<Shape(r).bucket, File(r, i).key>> : i \in DOMAIN Shape(r).files}
Condemned == UNION {Places(r) : r \in Deleting}
AwsCondemned == UNION {Places(r) : r \in {q \in Deleting : Shape(q).aws}}

(* BatchUpload, BatchDelete and the single routes: an answer has one       *)
(* result per file, a file reported stored is in MinIO with the body that  *)
(* was asked for until a delete of it comes in, one reported deleted is in *)
(* MinIO no more, and one reported archived is found by a walk of its      *)
(* bucket with that same body, whatever the other requests do.  A delete   *)
(* without aws_delete leaves the archived copy; where one with aws_delete  *)
(* names the file, or the place its copy lies at, nothing is said of the   *)
(* copy, which stays or goes with the layout.                              *)
AnswersTruthful ==
  \A r \in Requests :
    (req[r].pc = "done" /\ req[r].answer.status = "ok" /\ Shape(r).op # "read") =>
      LET results == req[r].answer.results IN
      /\ Len(results) = Len(Shape(r).files)
      /\ {results[n].file : n \in DOMAIN results} = DOMAIN Shape(r).files
      /\ \A n \in DOMAIN results :
           LET i == results[n].file IN
           results[n].ok =>
             IF Shape(r).op \in Uploads
             THEN \E body \in Bodies(r, i) :
                    /\ \/ Stored(r, i) = {<<Shape(r).bucket, Key(r, i), body>>}
                       \/ <<Shape(r).bucket, Key(r, i)>> \in Condemned
                    /\ results[n].archive = "stored" =>
                         \/ <<Key(r, i), body>> \in Walk(s3, env.dest, Shape(r).bucket)
                         \/ <<Shape(r).bucket, Key(r, i)>> \in AwsCondemned
                         \/ resolve(env.dest, Shape(r).bucket, Key(r, i)) \in AwsCondemned
             ELSE Stored(r, i) = {}

(* Archive.Walk is the inverse of resolve: a walk of one bucket lists what *)
(* was archived for that bucket and nothing of another, in both layouts.   *)
ArchiveExact ==
  \A b \in buckets : \A w \in Walk(s3, env.dest, b) :
    \/ <<b, w[1]>> \in Cold
    \/ \E t \in Tasks : Shape(t[1]).op \in Uploads /\ Shape(t[1]).bucket = b /\ Key(t[1], t[2]) = w[1]

\* A size that fits a request: the sides asked for, within the cap, and the
\* other one in proportion to within a pixel.
Fits(size, of, want) ==
  LET to == GetWidthAndHeight(want) IN
  /\ to[1] > 0 => size[1] = to[1]
  /\ to[2] > 0 => size[2] = to[2]
  /\ to[1] = 0 => size[1] * of[2] \in to[2] * of[1] - of[2] .. to[2] * of[1]
  /\ to[2] = 0 => size[2] * of[1] \in to[1] * of[2] - of[1] .. to[1] * of[2]

\* The side that is not asked for comes out longer than MAX_RESIZE_DIMENSION,
\* for GetWidthAndHeight caps only the sides that are.
Overlong(of, want) ==
  LET to == GetWidthAndHeight(want) IN
  \/ to[1] = 0 /\ to[2] * of[1] > MaxDim * of[2]
  \/ to[2] = 0 /\ to[1] * of[2] > MaxDim * of[1]

(* GetImage: what a cache may keep under a URL with dimensions has been    *)
(* through ImageMagick and has those dimensions, both within the cap.  An  *)
(* original sent because every decode slot was busy is never kept.         *)
(* Nothing is said of the original after a decode that failed, nor of the  *)
(* size of a resize with an overlong side.                                 *)
CachedFits ==
  \A r \in Requests :
    LET a == req[r].answer
        size == File(r, 1).size
    IN  /\ Shape(r).op = "read" /\ a.status = "ok" /\ a.cacheable /\ a.decoded # "failed"
        /\ IsImageFile(File(r, 1)) /\ Resizes(Shape(r).want)
        => /\ a.decoded = "ok"
           /\ Overlong(size, Shape(r).want) \/ Fits(a.size, size, Shape(r).want)

(* Every request is answered: no batch waits for a slot that its own       *)
(* goroutines keep, for a result or for the optimizer, for ever.           *)
RequestsAnswered == \A r \in Requests : (req[r].pc # "idle") ~> (req[r].pc = "done")
=============================================================================
