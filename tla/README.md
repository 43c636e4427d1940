# A verification of the CDN

This directory specifies, in TLA+, how the CDN admits requests, handles them,
moves objects between its two storage tiers, runs work in the background, boots
and shuts down. It checks the specifications with TLC on small instances, and
proves the most important results for every instance with TLAPS.

All paths below are relative to the repository's root.

## 1. The system

The service stores images in MinIO ("local") and can copy them to an S3 bucket
("the archive"). One Go process (`cmd/main.go`) serves HTTP, sweeps old objects
and runs asynchronous downloads; two commands (`cmd/backfill`, `cmd/restore`)
run beside it against the same stores. There is no database and no lock between
the processes: the only shared state is what the two stores hold.

| Component | State it keeps | Operations | Modelled in |
|---|---|---|---|
| Two-tier storage (`service/tiering.go`, `service/archive.go`) | none of its own: MinIO's and S3's objects | VerifyArchived, ArchiveObject, ArchiveKnownObject, RestoreObject | `Tiering` |
| Upload, read, delete handlers (`handler/image.go`) | two semaphores of the process, one semaphore and one channel per batch | UploadImage, UploadWithUrl, BatchUpload, GetImage, DeleteImage, BatchDelete | `Tiering` (the moments of the storage calls), `Handlers` (everything around them) |
| Archive endpoint (`handler/archive.go`) | none | ArchiveObjects | `Tiering` (per file) |
| Retention sweep (`service/retention.go`) | counters of a run | process, RunOnce | `Tiering` (process), `Transfer` (RunOnce) |
| Backfill and restore commands | counters of a run | handle, run | `Tiering` (handle), `Transfer` (run) |
| Archive layout (`service/archive.go`) | the environment at boot | archiveConfigured, InScope, resolve, Walk | `ArchiveLayout`, used by `Handlers` |
| Glacier downloads (`handler/aws.go`) | `downloadJobs`, the records a status request reads | GlacierInitiateAsyncDownload, GlacierCheckDownloadStatus | `Downloads` |
| Worker pool (`pkg/worker`) | job queue, context, workers | Submit, Start, Stop | `WorkerPool` |
| Batch processor (`pkg/batch`) | queue, the batch at hand, timer | Add, Stop, processBatches, processBatchWithRetry | `BatchProcessor` |
| Redis cache (`service/cache.go`) | Redis | Get, Set | `Admission` (as the limiters and the health check use it) |
| Rate limiting (`pkg/middleware`) | Redis counters, a mutex per limiter | the global and the upload limiter, RateLimitKey | `Admission` |
| Authentication (`service/principal.go`, `pkg/config/tokens.go`) | TOKEN in the environment, the scoped tokens loaded at boot | ResolvePrincipal, the two auth middlewares, resolveBucket | `Admission`, `Server` |
| Start-up and shutdown (`cmd/main.go`) | the context, the channel to the watcher, the listener | main, watchEnvChanges | `Server` |
| Image processing, validation | none | the size of a resize, what is refused | `Handlers` (their outcomes) |
| Circuit breaker, observability, statistics, bucket administration | none that matters to the others | | not modelled (section 8) |

### What is hard, and what makes each part correct

* **Two tiers without a transaction.** Every move is a chain of calls (HEAD, GET,
  PUT, HEAD, DELETE), each of which can fail, go unanswered, or take effect and
  be reported as failed; another request, the sweep or a command can run between
  any two of them; the process can die at any point and remembers nothing.
  Correct means that an object whose upload was confirmed is whole in some tier
  until somebody asks to delete it, that what a caller is told stays true, that a
  read which missed locally finds the archived copy, and that dry runs write
  nothing.
* **An archive that lies.** A PUT of the archive has stored zero bytes and
  answered success (the bug of versions before 1.10.0). The second verification
  exists for this.
* **Space.** An object whose mirror failed must leave local disk some day.
* **The pool.** A bounded queue with three exits for a submitter, retries that
  outlive the caller, an answer that may be dropped, a stop with a timeout.
  Correct means that an accepted job is in exactly one place and is answered,
  truthfully; that a graceful stop left nothing running; that Stop returns.
* **The download records** are written by the pool's goroutines attempt by
  attempt, read by status requests and pruned by later downloads. Correct means
  that what a client reads agrees with what happens to the download.

* **Batches over shared slots.** A batch takes slots of its own semaphore and, inside
  them, slots of the process's optimizer, and reads no result before it has started
  its last file. Correct means that every request is answered whatever the others
  hold, that no slot is lost on an error path, and that each result in the answer is
  what the two stores hold.
* **Overloaded reads.** A read that gets no decode slot in time sends the original.
  Correct means that no cache in front keeps it under the URL of the resized one.
* **The batch processor.** A timer, a full batch, a cancelled context and a closed
  channel race in one select. Correct means that what was gathered is processed,
  that only failed items are tried again, and that Add and Stop return.
* **Counters in Redis.** Read and written in two calls, by two limiters under one key.
  Correct means that nobody is turned away who was not counted that often, and that a
  failing Redis keeps no request.
* **Credentials that change.** TOKEN is reloaded and scoped tokens expire while
  requests are between the limiter and the handler. Correct means that what was done
  was allowed to the credential when it was checked.
* **Shutdown** is a chain of hand-overs between main, the watcher of `.env` and the
  listener. Correct means that it ends.

`PROJECT.json` lists every such hazard at its line, with the properties that
would catch it, and those no property covers yet.

## 2. The modules

| Module | What it is |
|---|---|
| `ObjectLifecycle` | what the tiers promise about one object, without any calls: which tiers hold it, and the doors by which it leaves one |
| `Tiering` | the two stores and every operation that touches them, one step per store call; implements `ObjectLifecycle` |
| `TieringProofs` | theorems about `Tiering` |
| `TieringRefinement` | the proof that `Tiering` implements `ObjectLifecycle` |
| `MCTiering` | instances for TLC |
| `WorkerPool` | `pkg/worker`, one step per channel operation |
| `Downloads` | `WorkerPool` composed with the records of `handler/aws.go` |
| `Transfer` | the fan-out of the sweep, the backfill and the restore: a listing, a bounded queue, workers, counters |
| `DownloadsProofs` | theorems about `WorkerPool` and `Downloads` |
| `TransferProofs` | theorems about `Transfer` |
| `QueueLemmas` | what sends and receives do to a channel's sequence, for the proofs |
| `BatchProcessor`, `BatchProofs` | `pkg/batch`, one step per channel operation, and theorems about it |
| `Admission` | a request from its arrival to its handler: limiters, credential, bucket |
| `Server` | `Admission` composed with main: boot, the reload of `.env`, shutdown |
| `ServerProofs` | theorems about `Server` and `Admission` |
| `ArchiveLayout` | names in the archive: scope, resolve, Walk |
| `Handlers` | the image handlers side by side, over `ArchiveLayout` |
| `HandlersProofs` | theorems about `Handlers` and `ArchiveLayout` |
| `MCDownloads`, `MCTransfer`, `MCBatchProcessor`, `MCServer`, `MCHandlers` | instances for TLC |

### Tiering

An object key stands for bucket and key together. Its contents never change
after the upload (the name is a fresh uuid: `issued` never hands one out twice),
so two copies of it differ only in how much of them is there: a copy *is* its
length, `FullSize` is the whole object, `Absent` no object. `local` and
`archived` are the two stores; `job[p]` is the call process `p` is executing:
its program counter, the length it compares against (`size`), the length of the
stream it holds (`body`), whether it evicts, whether it applies, and the outcome
it reported. `stored` and `condemned` are history: uploads MinIO confirmed and
objects whose deletion was requested.

| Code | Actions |
|---|---|
| UploadImage, UploadWithUrl, BatchUpload | `StartUpload`, `UploadPut`, `UploadMirror` |
| ArchiveObject | `StartArchive`, `StatLocal`, `StatArchive`, then as the next row |
| ArchiveKnownObject, copyToArchive | `Verify`, `CopyOpen`, `CopyPut`, `Reverify`, `RemoveLocal` |
| backfill's handle | `StartBackfill`, `DryVerify`, or ArchiveKnownObject without eviction |
| retention's process | `StartSweep`, `SweepVerify`, `RemoveLocal` |
| RestoreObject, restore's handle | `StartRestore`, `RestoreStat`, `RestoreOpen`, `RestorePut` |
| GetImage, openObject | `StartRead`, `ReadStat`, `ReadGet`, `ReadArchive` |
| DeleteImage, BatchDelete | `StartDelete`, `DeleteLocal`, `DeleteArchived` |
| kill -9, Ctrl-C, a deploy | `Crash` |

Any call may fail cleanly in every run. `Faults` adds two more faults: a write
that takes effect although its caller is told it failed (`lost_reply`), and an
archive PUT that stores a prefix and answers success (`short_put`). `Legacy`
objects exist before the start, in any shape an earlier run leaves; `Drained`
ones have the zero-byte archived copy of the old bug.

The age of an object is not modelled: the sweep may take any object, which is
more than the code does. A condemned object is promised nothing: a delete that
runs while a copy of the same object is in flight may leave either copy behind,
and the code does not claim otherwise.

### WorkerPool and Downloads

A job of the pool is one `Submit`. `caller[d]` is where the submitter is and what
it was told; `queue` is `jobQueue`; `worker[w]` is a goroutine's place in its
loop, its job and its failed attempts; `response[d]` is the response channel,
which both callers make with room for the one answer; `ctxDone` and `stopper`
are the context and Stop. Go's `select` picks any ready case: `SubmitSend` may
enqueue after the cancellation, an idle worker may take a job or leave, and
`Respond` may drop the answer.

`Downloads` adds `record[d]`, the struct the Task closure writes under `jobsMu`,
and `tracked`, the keys of the map. The Task is the pool's `BeginTask` and
`EndTask`, each with the write to the record that goes with it. Time is one bit
per record: `Age` says that an hour has passed since its EndTime. Production
never stops the pool of the downloads; `Stop` is an action all the same, as the
pool offers it, so that this instance checks the pool's own properties too.

`MaxRetries` is a natural number. The code reads it from the environment, and a
negative WORKER_MAX_RETRIES makes runJob answer success without an attempt
(`pkg/worker/pool.go:149`).

### Transfer

`Tiering` says what happens to one object; `Transfer` says how the three bulk jobs
get through all of them. `opts` is the command, whether it applies, and its
limit; `pc`, `bucket`, `listed` and `held` are the listing goroutine, `held`
being the object it is blocked on while the queue is full; `count` are the
counters of the report. The listing delivers the objects of a bucket in any
order, and breaks off with an error at any point. The commands differ where the
code differs: only the commands look at the context and the limit before each
object (`Enough`), only the sweep and the backfill count a listing that broke off
(`ListError`), only the restore prepares its buckets (`Prepare`), and `Counted` is
the switch at the end of each `handle`. A worker leaves when the closed queue is
empty and `wg.Wait` waits for all of them; that is one step, `EndBucket`.

For the backfill, `Contents` are the buckets checkDestinations found reachable: the
others are named at the start of the run and are not part of it.

### BatchProcessor

`adder[d]` is the Add of one item, `items` the channel, `batch` what the loop has
gathered or is retrying, `leaving` that the loop returns after this batch. A select
takes any ready case: a parked Add gets the room a receive makes (`Receive`) or is
released by the cancellation (`Cancel`), and one that meets the closed channel may
panic (`AddPanic`) although the context is done as well. `Process(failed)` is a call
of the processor in which exactly the items `failed` fail. The service constructs a
batch processor and calls neither Add nor Stop outside the package's tests: the
properties are those of the package.

### Admission and Server

A credential, a client address and a bucket name are sequences of symbols, because
what the code does to them matters: `ResolvePrincipal` compares the whole credential
with TOKEN before it cuts it at the first ':', and `sanitizeKey` drops characters from
the limiter's key, so that two addresses may share a counter. Each limiter is fiber's
fixed window: lock, read the item, count, write it back, unlock, with the clock read
in between; a failed read counts as an empty item and a failed write is ignored. Both
limiters use `RateLimitKey` and the same Redis keys, so an upload is counted twice
under one key. The check of the credential, the bucket and the answer is one step:
nothing it reads is shared except TOKEN, whose value it records. `/resize` is served to
any credential and names no bucket (`ResizeImage`); `/ws` takes its token from the query,
so the credential of a shape is the header's or, there, the query's. `Server` adds main,
with every way a boot can end, the watcher that reloads TOKEN unchecked, and the
shutdown. `Drain` may end before the requests do: that is the ten-second timeout.

### ArchiveLayout and Handlers

Bucket names and keys are sequences of symbols here as well; a prefix is a prefix.
`req[r]` is the goroutine of request r, `task[r][i]` the goroutine of its i-th file; a
single upload or delete is a request with one task and no batch slot. `sem[r]`,
`optSem` and `resizeSem` are the three semaphores and `chan[r]` the result channel.
A body is told apart by what was done to it (raw, small, resized, cut), an object's
image by its two sides, and an answer says whether ImageMagick decoded it, failed at it or
was not asked (`decoded`). Any storage call may fail, and a write that failed may have
taken effect; a read whose MinIO call failed goes on to the archive, as openObject does.
A bucket that is missing is made only under a valid name (`ValidNames`).
The arithmetic of a resize keeps what the code's floating point does:
`Scaled` gives the truncated product, and one less where the product of a rounded
quotient can fall short of a whole number. An upload's key is a random name; a request
may ask for it, to read or to delete, once the upload has been answered (`Told`), as
nobody knows it before. The places deletes have come in for are `Condemned`; those of
deletes with `aws_delete`, which ask for the archived copy too, `AwsCondemned`.

## 3. The runs

| Run | Instance | What it shows |
|---|---|---|
| `tiering` | two processes, a fresh object in scope and an old one whose bucket has left the scope, every operation, lost replies, crashes | `TypeOK`, `Durable`, `ReportedArchived`, `FallThroughFinds`, `DryRunsWriteNothing`, and that `Tiering` implements `ObjectLifecycle` |
| `tiering_short_put` | one process, uploads, backfill, archive requests and sweeps, short PUTs and lost replies | `Durable`, `EvictionVerified`, and under fairness `EventuallyFreed` |
| `downloads` | three downloads, two workers, a queue of one, one retry, with records, pruning and the passing of an hour | `TypeOK`, of the pool `OnePlace`, `AnswerTruthful`, and under fairness `AcceptedAnswered`, `StopReturns`; of the records `StatusTruthful`, `EndRecorded`, `CompletedFinal` |
| `batch` | four calls of Add, batches of two, a channel of one, one retry, a Stop at any time | `TypeOK`, `NothingDropped`, `GivenUpAfterRetries`, `SucceededNotRetried`, and under fairness `AddedProcessed`, `AddReturns`, `StopReturns` |
| `server` | an upload or a read and one of seven other requests, limits of one, a window of one tick, a TOKEN reload, an expiring scoped token, one failing Redis call, a signal | `TypeOK`, `EffectsAuthorised`, `RefusedOnlyOverLimit`, and under fairness `RequestsEnd`, `ShutdownEnds` |
| `handlers` | three requests in eight mixes, in two of them an upload that is then read or deleted, three environments, one slot in every semaphore, batches of two, one failing storage call | `TypeOK` (with the accounting of the slots), `AnswersTruthful`, `ArchiveExact`, `CachedFits`, and under fairness `RequestsAnswered` |
| `shutdown_hang` | as `server`, without faults, edits and the clock | **violated**: after a signal main may wait for ever for the watcher |
| `transfer` | the three commands, dry and real, with no limit or two; two buckets of three and one objects, two workers, a queue of one | `TypeOK`, `OneBucketAtATime`, `Accounting`, `LimitKept`, `ReportsFailures`, and under fairness `Ends` |
| `restore_incomplete` | one worker | **violated**: a restore whose walk broke off reports no failure |
| `restore_dry_run` | one process | **violated**: restore without `-apply` writes |
| `restore_drained` | one process, one object with a zero-byte archived copy | **violated**: restore overwrites the last whole copy |
| `read_eviction` | a reader and an archive request | **violated**: a read answers `notfound.png` for an object that was just evicted |

Bounds. Objects do not interact in `Tiering` (every action touches one key), so
one or two objects show every behaviour of one; what matters is how many callers
meet on an object, and two callers reach every pairwise race. The proofs remove
both bounds. `FullSize` is 2 where a PUT may be cut short, so that an archived
copy can be empty, partial or whole. The pool's instance fills its queue with
both workers busy or idle, and lets a stop come between any two steps.
`Transfer`'s first bucket has more objects than the queue holds beside a worker,
so the listing blocks, and the limit of two falls inside it. The batch processor's
channel is smaller than a batch and than its adders, so Adds wait behind a retry.
`server`'s clock has one tick, which ends a window and a token's life; its limits of one
are passed by the second of two requests from one address, so a counter too high by one
shows, and by one upload, which is counted twice. In `handlers` every semaphore
has one slot and a batch two files, so that each of the three is waited for while the
waiting goroutine holds another. `MaxTime`, `MaxFaults` and `MaxEdits` bound what the
environment does; no run needs a state constraint. Jobs, requests and items come once
each and the programs may stop there, and a `Transfer` and a server end, hence
`CHECK_DEADLOCK FALSE` in their runs.

## 4. Fairness

`Tiering!Fairness` is used by `EventuallyFreed` alone. The sweep is run every
RETENTION_INTERVAL_HOURS and the backfill is meant to be rerun after a failure,
so both are started again and again (strong fairness of `StartBackfill` and
`StartSweep`). A call that is tried again and again succeeds at some time (strong
fairness of each call ending well); failures, crashes and short PUTs may recur
for ever in between. Nothing is assumed of uploads, reads and deletes.

`Downloads!FairSpec` says that goroutines are scheduled and that Stop's
select fires. It does not say that a task ever returns, as a download can hang:
`AcceptedAnswered` has that as its hypothesis (`TasksReturn`), `StopReturns`
holds without it. Nothing is assumed of clients.

`Transfer!Fairness` says that the listing goroutine and the workers go on and that
a call to a store returns, well or not.

`BatchProcessor!FairBatchSpec` says that the loop's goroutine runs, its timer fires, the
processor returns, and a Stop that began goes on. Each case of the select is fair by
itself: a case that stays ready is taken some time, as Go picks among the ready ones at
random. `Server!FairSpec` and `Handlers!FairHandlersSpec` say that goroutines are
scheduled and that the calls they make to Redis, to the stores and to ImageMagick
return; all of them have timeouts or limits. Nothing is assumed of clients, of the
operator, of signals or of the clock.

## 5. What is proved

`TieringProofs` proves, for every set of objects, every number of concurrent
callers and every size:

* `TypeInvariant` and `DryRunTheorem`, under every fault.
* `DurableTheorem`, `ReportedArchivedTheorem`, `FallThroughTheorem` and
  `EvictionTheorem` under `SoundStores`: no archive PUT is cut short and no
  drained legacy copy exists. Calls may still fail, go unanswered or lose their
  replies, and processes may crash, anywhere.

These properties are not inductive by themselves: whether a removal is safe
depends on what the job verified some steps earlier, and on no other job having
undone it since. `IInv` is `TypeOK`, `Durable` and, besides them,

* `WholeCopies`: every copy in either tier is whole,
* `WholeJob`: the sizes and streams a job carries into a comparison or a write
  are those of whole objects,
* `JobFacts`: a job about to remove the local copy of an object nobody asked to
  delete has a whole archived copy behind it; an upload's name was issued; a read
  is of a confirmed object; a delete's object is condemned,
* `ReportedBy`, `FallThroughBy`: the bodies of the two properties, job by job.

No step may take away a whole archived copy of an object nobody asked to delete;
that is part of `Frame`, the lemma that carries every other job across a step.

`TInv`, for the theorems that hold under every fault, is `TypeOK` with what a dry
run's program counter can be (`DryJob`) and that an upload's name was issued
(`UploadIssued`), without which `stored \subseteq issued` is not inductive. Each
proof has one step per action; what a write does to a tier is stated once
(`WrittenEffect`, `LocalWriteEffect` and the `...Keeps` lemmas) and cited by name.

`TieringRefinement` proves `LifecycleTheorem`, that `Tiering` implements
`ObjectLifecycle`, under every fault: how long a copy is does not matter there,
only whether there is one. The mapping forgets the lengths (`tiersOf`) and of the
jobs keeps the uploads that have not written yet (`uploadsOf`). The inductive
invariant `RInv` has two parts beside the types. `FreshNames`: until its upload
writes, nothing is stored under an object's name and no job works on it, although
an archive request may already ask about it. `Entitled`: a job about to write
has seen the copy that entitles it to (one somewhere before it makes another, the
archived one before it removes or restores the local one), and only a delete
request can have taken it away since. A step is then sorted by kind: the beginning
or loss of a job, a question, which does not show, or a write, whose effect
`WriteEffect` states once for all seven of them.

With short PUTs `Durable` is checked only: the proof would need the invariant
that a caller's size is the local copy's length, which two callers racing with
two short PUTs falsify (see hazards, `tiering.go:213`).

The first half of `DownloadsProofs` is about the pool alone. It proves `OnePlace`,
`AnswerTruthful` and `StopWaits` for every set of jobs and workers, every queue size and
number of retries. `OnePlace` is almost inductive; it needs `WorkerShape` (a worker holds a job exactly while it is
at one, before an attempt it has retries left, with an answer due it has an
outcome), and both are in `PoolInv`. What the queue does is in the lemmas
`Appended` and `Tailed` of `QueueLemmas`: a sequence without duplicates gains or
loses one place.

The second half proves `ImplementsPool` first: a step of `Downloads` is a step of
the pool or leaves it alone, so `PoolInv` comes with it. `DInv` adds to it what the
records say: `RecordsAgree`, the inductive form of `StatusTruthful` (of every download,
accepted or not), `EndRecorded`, and `RecordShape`, which ties a
record to the place its job is in (not over, not yet tried: pending; about to be
tried again: failed; tried and about to be answered: as the attempt ended). Most
steps write no record; for these one lemma (`QuietKeeps`) says how they may move
jobs and workers without a record becoming wrong. `CompletedFinal` follows: the
two steps that write a status belong to a worker whose job is, by `DInv`, pending,
failed or processing.

`TransferProofs` proves `TypeOK`, `OneBucketAtATime`, `Accounting`, `LimitKept` and
`ReportsFailures` for all three commands, any buckets without a common object, any
number of workers and any queue size, limit and moment of interruption. The
inductive invariant `TransferInv` is `TypeOK` and six parts:

* `Phases`: the lister holds an object exactly while it sends it, and between two
  buckets no object is pending (in the queue, with a worker, or held),
* `Places`: a pending object is in one place only, of the bucket at hand, listed and
  not finished,
* `Counts`: each counter is the number of the objects it stands for at every moment,
  not only in the report; the failures exceed theirs by the listings cut short, at
  most,
* `Cuts`: a bucket is cut short once,
* `Limited`: `scanned` stays within the limit,
* `Covered`: as long as a run could still end clean, the buckets behind it have been
  listed to their ends.

The steps that concern no object (`Control`) are treated together, by what they may
do to the phase, the bucket and the counters (`ControlEffect`); the other four
each have a lemma. `RestoreReportsFailures` is violated, hence no theorem.

`BatchProofs` proves `TypeOK`, `NothingDropped`, `GivenUpAfterRetries` and
`SucceededNotRetried` for any finite set of items, any batch size, channel size and
number of retries, and a Stop at any time. The inductive invariant `BatchInv` adds
`BatchShape` to the first three: what the loop holds at each of its points, how often
the items in hand have been tried (once per attempt on this batch), and that an item
nobody tried has no result. Without it a step of the loop could meet a batch whose
items were tried a different number of times, and giving up would not mean that every
retry had failed.

`ServerProofs` proves `TypeOK`, `EffectsAuthorised` and `RefusedOnlyOverLimit` for any
requests, credentials, token files, limits, window and numbers of faults, edits and
ticks. The inductive invariant `ServerInv` holds, beside the first two,

* `RefusedOverCount`: a refusal comes only where a counter passed its limit in counts,

* `ReqForm`: what the record of a request carries at each of its places,
* `BootQuiet`: nobody has been served while the scoped tokens can still change,
* `PassesForm`, `StoreBacked`, `ItemsBacked`: a counter, in Redis or read by a limiter
  that has not yet written it back, is never ahead of the counts its window has seen,
* `CountedOnce`: a limiter counts a request once, so that a count is a new member of
  the set whose size bounds the counter.

Lost updates and failed calls only make a counter smaller, which the invariant allows;
a window that has ended starts at one, which the count being made backs by itself
(`CountBacked`). `RefusedOnlyOverLimit` speaks of requests and not of counts: where no
request of a counter passes two limiters, `CountedApart` says that each of its counts is
another request's (`OneCountEach`). `EffectsAuthorised` rests on `CutJoins`: the parts before and after the
first ':' make up the credential. What `sanitizeKey` returns does not matter to these
proofs: they hold whichever requests share a key. The only assumptions are
`AdmissionAssumption` and `ServerAssumption`, the types of the constants.

`HandlersProofs` proves `TypeOK`, `AnswersTruthful`, `ArchiveExact` and `CachedFits` for
any finite set of requests with any files, any names, environments, semaphores, batch
limit and number of failing storage calls. None of the four is inductive: an answer is
made of what goroutines left in a channel, which is true of stores that other requests
go on changing. The inductive invariant `HandlersInv` has three parts.

* `Locals` speaks of each request alone, so that a step of one leaves it true of the
  others (`LocalsKept`). `ReqOK` and `TasksOK` say what a request asks for and which
  tasks it has at each of its places; `SemOK`, that its semaphore counts its tasks
  between acquire and release; `ChanOK`, that its channel has one result of each task
  that has reported, and the right one; `AnswerOK`, that a good answer is the whole
  channel, with every task in it; `CacheOK` is `CachedFits`.
* `Stores` relates tasks to the two stores. `Truths`: what a task that went well has
  put or removed is still so, up to `Condemned` in MinIO and up to `AwsCondemned` in the
  archive, from which only a delete with `aws_delete` takes anything. `MinioForm` and `S3Form`:
  whatever lies under a random name was put there by the upload that was given it, and
  whatever is in the archive lies where `resolve` puts an object of its bucket.
  `Tolds`: the keys asked for hold no name whose upload still runs, hence no upload
  brings back what a delete has removed.
* `Slots`: the two semaphores of the process count who encodes and who decodes.

A step of a task is sorted by what it may do: go on, end with a result (`TaskKeeps`,
`TaskQuiet`), report, or release; the request's own steps by whether they touch the
tasks (`TasksAppear`, `StartFileStep`) or not (`RequestKeeps`). Below them are lemmas
about the operators: a key is under the prefix of one bucket only (`OnePrefix`), Walk
and `resolve` are inverse (`WalkFinds`, `WalkOnly`), a resized side is within a pixel of
the proportion (`ScaledSide`, `RatioFits`; `ResizeFits` for what ImageMagick made of it).
The assumptions are the types of the
constants, that bucket names hold no '/' (MinIO and S3 allow none), and that a random
name is given once and is in no key that was there before.

With that every invariant and every action property of a passing run is a theorem;
`Durable` and the others of `Tiering` named above under `SoundStores`. Liveness
(`EventuallyFreed`, `AcceptedAnswered`, `StopReturns`, `Ends`, `AddedProcessed`,
`AddReturns`, `RequestsEnd`, `ShutdownEnds`, `RequestsAnswered`) is checked by TLC only.

## 6. Where the code and its words disagree

Each of the first five is a run that TLC must find violated, see `findings`.

* **restore without -apply writes.** `cmd/restore/main.go:94` prints that nothing
  will be written; `handle` calls `RestoreObject` in both modes.
* **restore overwrites a whole local copy by a zero-byte one.** RestoreObject
  compares lengths and takes the archive's side whatever its length.
* **a read races an eviction.** The HEAD found the local copy, the body is fetched
  later, and the miss then does not fall through to the archive.
* **a restore can miss objects and report success.** The error of a walk that broke
  off, or of a bucket that could not be prepared, is printed and not counted.
* **a shutdown can hang.** main cancels the context and then sends on an unbuffered
  channel whose one reader leaves on that context.

The others have no run. Where a property comes near one of them it leaves the case out,
in its premise or as an alternative: it neither catches the behaviour nor asks for it, and
a repair of the code would not violate it. They are:

* **not_found after an outage.** ArchiveObject takes any error for an absence
  (`service/tiering.go:65`: "neither tier has it"). No property is about `not_found`.
* **failed after a removal.** A removal whose reply was lost is reported `failed`, where
  `docs/api.md:432` says "The local copy was not touched". No property is about `failed`.
* **a refused download stays pending for ever.** Its record is stored before Submit and
  not removed when Submit refuses, so it is never pruned: `handler/aws.go:332` prunes so
  that the map "cannot grow unbounded", and `docs/glacier-usage.md:176` reads pending as
  "Job is queued". `StatusTruthful` is about accepted downloads.
* **a running download can be pruned.** EndTime is set after each attempt and not
  cleared when the next one begins. `StatusTruthful` asks for the record only until an
  attempt has ended.
* **an upload is counted twice.** `docs/api.md:22` promises 50 uploads per minute and IP;
  both limiters count under one key, other requests of the address count there too, and
  about the 26th upload is refused. `sanitizeKey` may also merge two addresses.
  `RefusedOnlyOverLimit` is about requests of `docs/api.md:21` whose counter has neither.
* **aws_delete and the archive.** `docs/api.md:289` names `/batch/delete` for S3 removal.
  BatchDelete removes under the MinIO bucket's name also in the single-bucket layout, where
  the archived copy has another place and stays; in either layout `DeleteObjects`
  (`service/aws.go:188`) returns success whatever error S3 reports for a key.
  `AnswersTruthful` releases the archived copy (`AwsCondemned`) once an aws_delete names the
  file or the place of its copy, and asks nothing of the archive result `removed`.
* **a computed side is not capped.** `service/util.go:215` says both axes are capped so
  that a GET cannot exhaust memory; GetWidthAndHeight caps the sides asked for, and
  RatioWidthHeight multiplies the other one out. `CachedFits` leaves the size of such a
  resize (`Overlong`) open.
* **a cacheable original.** `.env.example:63` says only a wait that ran out serves the
  original. One that ImageMagick failed at goes out too, without `no-store`.
  `CachedFits` is about reads that did not fail so.
* **a batch processor's leftovers.** An Add that races Stop may panic, and what is queued
  when the loop returns is never processed. `AddReturns` and `NothingDropped` are about an
  Add that waits and about items the loop has taken.

Also met: `already_archived` does not compare lengths
(there is no local copy to compare with); DeleteImage leaves the archived copy, as
`docs/api.md:289` says;
in a rerun of the backfill, objects already archived are counted as uploaded and
`skipped` stays 0 (`ArchiveKnownObject` answers `archived_kept` for both); a
completed download keeps the Error of an earlier attempt; a limiter that finds no
Redis at boot stays off for the life of the process; a TOKEN reloaded from `.env`
is not validated as the one at boot is; a body fetched from a URL is cut at
MAX_FILE_SIZE and stored as a success; of
two first uploads to a new bucket the slower is refused; an upload whose body cannot be
read (`handler/image.go:629`) skips every check and is put all the same.

## 7. Plan

1. Done: `Tiering`, `WorkerPool`, `Downloads`, `Transfer`, `BatchProcessor`, `Admission`,
   `Server`, `ArchiveLayout` and `Handlers`.
2. `ArchiveBatch`: archiveAll's goroutine per file behind a semaphore of ten, and
   the summary that must add up when one file is named twice.
3. /resize through the worker pool; checkDestinations of the backfill.

## 8. What is not modelled

The switches `DISABLE_UPLOAD`, `DISABLE_GET` and `DISABLE_DELETE`, which mount fewer
routes and change none; the failed `io.ReadAll` of UploadImage (`handler/image.go:629`), a
fault of the server's own memory or disk, after which `BeginUpload` would have to say what
of the body is left. Contents of objects and HTTP details (no property depends on them); what ImageMagick
does to pixels (no state across calls); file types, URLs and bucket names (predicates
over one request, table-driven tests cover them); the circuit breaker (nothing outside
its tests calls Execute) and the limiters that are mounted nowhere; the summary of the
archive endpoint; statistics, metrics, logging and audit (nothing reads them back);
administration endpoints of MinIO, S3 and Glacier that forward one call.
Liveness under fairness is out of TLAPS's reach and stays with TLC.

## 9. Running

    tlc -config tiering.cfg MCTiering.tla       # and so on for each run
    tlapm TieringProofs.tla                     # and so on for each module of proofs
