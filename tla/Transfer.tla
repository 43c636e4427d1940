------------------------------ MODULE Transfer ------------------------------
(***************************************************************************)
(* The fan-out that the retention sweep (service/retention.go), the        *)
(* backfill and the restore command share: one goroutine lists a bucket    *)
(* into a bounded queue, a fixed set of workers empties it, and the next   *)
(* bucket waits for both.  What happens to one object is module Tiering's; *)
(* here handling it takes a while and ends in one of three ways.           *)
(***************************************************************************)
EXTENDS Naturals, Sequences, FiniteSets

CONSTANTS
  Contents,   \* Contents[b]: the objects a listing of the b-th bucket delivers;
              \* for backfill, of the buckets whose destination is reachable
  Workers,    \* -workers, RETENTION_MAX_CONCURRENT
  QueueSize,  \* four times as many
  Limits,     \* the values of -limit in use; 0 is none
  None        \* no object

Buckets == 1..Len(Contents)
Objects == UNION {Contents[b] : b \in Buckets}

ASSUME TransferAssumption ==
  /\ Contents \in Seq(SUBSET Objects)
  /\ IsFiniteSet(Objects)
  /\ \A b, c \in Buckets : b # c => Contents[b] \cap Contents[c] = {}
  /\ Workers # {}
  /\ QueueSize \in Nat \ {0}
  /\ Limits \subseteq Nat
  /\ None \notin Objects

Commands == {"sweep", "backfill", "restore"}

VARIABLES
  opts,         \* which command runs, with -apply or not, and its -limit
  pc,           \* the listing goroutine
  bucket,       \* the bucket it is at
  listed,       \* the objects the listing has delivered and the command counted
  held,         \* the object it is sending to the queue
  queue,
  worker,       \* worker[w]: the object w handles
  count,        \* the counters of the run
  interrupted,  \* the context is cancelled
  result,       \* history: how handling o really ended
  cut           \* history: the buckets not listed to their end for an error

vars == <<opts, pc, bucket, listed, held, queue, worker, count, interrupted,
          result, cut>>

Pcs == {"next", "prepare", "listing", "send", "drain", "done"}

\* moved: deleted, uploaded, restored.  skipped: not_archived and size_mismatch
\* for the sweep, already there for the commands.  Only the sweep counts eligible
\* objects; for the commands every object is.
Results == {"moved", "skipped", "failed"}
Counters == Results \cup {"scanned", "eligible"}

Init ==
  /\ opts \in [cmd : Commands, apply : BOOLEAN, limit : Limits]
  /\ opts.cmd = "sweep" => opts.limit = 0
  /\ pc = "next" /\ bucket = 1
  /\ listed = {} /\ held = None /\ queue = <<>>
  /\ worker = [w \in Workers |-> None]
  /\ count = [c \in Counters |-> 0]
  /\ interrupted = FALSE
  /\ result = [o \in Objects |-> "none"]
  /\ cut = {}

Count(c) == count' = [count EXCEPT ![c] = @ + 1]

-----------------------------------------------------------------------------
(* The loop over the buckets.                                              *)

NextBucket ==
  /\ pc = "next"
  /\ pc' = IF bucket \notin Buckets \/ interrupted THEN "done"
            ELSE IF opts.cmd = "restore" /\ opts.apply THEN "prepare"
            ELSE "listing"
  /\ UNCHANGED <<opts, bucket, listed, held, queue, worker, count, interrupted,
                 result, cut>>

\* EnsureBucket.  When it fails the bucket is left out, with a line on stderr.
Prepare ==
  /\ pc = "prepare"
  /\ \/ pc' = "listing" /\ UNCHANGED <<bucket, cut>>
     \/ pc' = "next" /\ bucket' = bucket + 1 /\ cut' = cut \cup {bucket}
  /\ UNCHANGED <<opts, listed, held, queue, worker, count, interrupted, result>>

\* Mutation: the queue is closed and the workers are not waited for.
EndBucket_early ==
  /\ pc = "drain"
  /\ pc' = "next" /\ bucket' = bucket + 1
  /\ UNCHANGED <<opts, listed, held, queue, worker, count, interrupted, result,
                 cut>>

\* close(queue), wg.Wait(): the workers leave when the queue is empty.
EndBucket ==
  /\ pc = "drain"
  /\ queue = <<>> /\ \A w \in Workers : worker[w] = None
  /\ pc' = "next" /\ bucket' = bucket + 1
  /\ UNCHANGED <<opts, listed, held, queue, worker, count, interrupted, result,
                 cut>>

-----------------------------------------------------------------------------
(* The listing.                                                            *)

ToList == Contents[bucket] \ listed

\* Mutation: the limit is compared before the object it lets through.
Enough_late ==
  /\ opts.cmd # "sweep"
  /\ interrupted \/ (opts.limit > 0 /\ count["scanned"] > opts.limit)

\* The commands look at the context and the limit before each object, the sweep
\* looks at neither.
Enough ==
  /\ opts.cmd # "sweep"
  /\ interrupted \/ (opts.limit > 0 /\ count["scanned"] >= opts.limit)

ListObject(o) ==
  /\ pc = "listing" /\ o \in ToList /\ ~Enough
  /\ listed' = listed \cup {o}
  /\ \/ /\ pc' = "send" /\ held' = o
        /\ count' = [count EXCEPT !["scanned"] = @ + 1, !["eligible"] = @ + 1]
     \/ /\ opts.cmd = "sweep"      \* inside the retention window
        /\ Count("scanned")
        /\ UNCHANGED <<pc, held>>
  /\ UNCHANGED <<opts, bucket, queue, worker, interrupted, result, cut>>

ListStop ==
  /\ pc = "listing" /\ ToList # {} /\ Enough
  /\ pc' = "drain"
  /\ UNCHANGED <<opts, bucket, listed, held, queue, worker, count, interrupted,
                 result, cut>>

ListEnd ==
  /\ pc = "listing" /\ ToList = {}
  /\ pc' = "drain"
  /\ UNCHANGED <<opts, bucket, listed, held, queue, worker, count, interrupted,
                 result, cut>>

\* Mutation: a listing that breaks off is taken for one that ended.
ListError_silent ==
  /\ pc = "listing"
  /\ pc' = "drain" /\ cut' = cut \cup {bucket}
  /\ UNCHANGED <<opts, bucket, listed, held, queue, worker, count, interrupted,
                 result>>

\* A page cannot be read, and the client ends the listing.  The sweep and the
\* backfill count it, the backfill unless it was interrupted; Walk's error is
\* only printed.
ListError ==
  /\ pc = "listing"
  /\ pc' = "drain" /\ cut' = cut \cup {bucket}
  /\ IF opts.cmd = "sweep" \/ (opts.cmd = "backfill" /\ ~interrupted)
     THEN Count("failed") ELSE UNCHANGED count
  /\ UNCHANGED <<opts, bucket, listed, held, queue, worker, interrupted, result>>

\* Mutation: the queue takes whatever it is given.
Send_unbounded ==
  /\ pc = "send"
  /\ queue' = Append(queue, held)
  /\ held' = None /\ pc' = "listing"
  /\ UNCHANGED <<opts, bucket, listed, worker, count, interrupted, result, cut>>

Send ==
  /\ pc = "send" /\ Len(queue) < QueueSize
  /\ queue' = Append(queue, held)
  /\ held' = None /\ pc' = "listing"
  /\ UNCHANGED <<opts, bucket, listed, worker, count, interrupted, result, cut>>

-----------------------------------------------------------------------------
(* The workers.                                                            *)

Take(w) ==
  /\ worker[w] = None /\ queue # <<>>
  /\ worker' = [worker EXCEPT ![w] = Head(queue)]
  /\ queue' = Tail(queue)
  /\ UNCHANGED <<opts, pc, bucket, listed, held, count, interrupted, result, cut>>

\* The counter handle adds to.  ArchiveKnownObject says archived_kept whether it
\* copied or found the object already archived; the restore's dry run counts
\* whatever is not already local.
Counted(r) ==
  CASE opts.cmd = "backfill" /\ opts.apply /\ r = "skipped" -> "moved"
    [] opts.cmd = "restore" /\ ~opts.apply /\ r = "failed"  -> "moved"
    [] OTHER                                                -> r

\* Mutation: a worker that failed returns without its wg.Done.
Handled_stuck(w, r) ==
  /\ worker[w] # None
  /\ result' = [result EXCEPT ![worker[w]] = r]
  /\ Count(Counted(r))
  /\ worker' = IF r = "failed" THEN worker ELSE [worker EXCEPT ![w] = None]
  /\ result[worker[w]] # "failed"
  /\ UNCHANGED <<opts, pc, bucket, listed, held, queue, interrupted, cut>>

\* Mutation: a failure is counted where it happens and once more by the caller.
Handled_twice(w, r) ==
  /\ worker[w] # None
  /\ result' = [result EXCEPT ![worker[w]] = r]
  /\ count' = [count EXCEPT ![Counted(r)] = @ + IF r = "failed" THEN 2 ELSE 1]
  /\ worker' = [worker EXCEPT ![w] = None]
  /\ UNCHANGED <<opts, pc, bucket, listed, held, queue, interrupted, cut>>

\* process, handle: the object has been dealt with.
Handled(w, r) ==
  /\ worker[w] # None
  /\ result' = [result EXCEPT ![worker[w]] = r]
  /\ Count(Counted(r))
  /\ worker' = [worker EXCEPT ![w] = None]
  /\ UNCHANGED <<opts, pc, bucket, listed, held, queue, interrupted, cut>>

-----------------------------------------------------------------------------
\* SIGINT or SIGTERM for a command, the shutdown of the server for the sweep.
Interrupt ==
  /\ ~interrupted /\ pc # "done"
  /\ interrupted' = TRUE
  /\ UNCHANGED <<opts, pc, bucket, listed, held, queue, worker, count, result,
                 cut>>

Lister == \/ NextBucket \/ Prepare \/ EndBucket
          \/ \E o \in Objects : ListObject(o)
          \/ ListStop \/ ListEnd \/ ListError \/ Send

Worker(w) == Take(w) \/ \E r \in Results : Handled(w, r)

Next == Lister \/ Interrupt \/ \E w \in Workers : Worker(w)

Spec == Init /\ [][Next]_vars

\* The goroutines are scheduled and no call to a store hangs: each has a
\* timeout or fails with the connection.
Fairness == WF_vars(Lister) /\ \A w \in Workers : WF_vars(Worker(w))

FairSpec == Spec /\ Fairness

-----------------------------------------------------------------------------
(* Properties                                                              *)

TypeOK ==
  /\ opts \in [cmd : Commands, apply : BOOLEAN, limit : Limits]
  /\ pc \in Pcs /\ bucket \in 1..Len(Contents) + 1
  /\ listed \subseteq Objects /\ held \in Objects \cup {None}
  /\ queue \in Seq(Objects) /\ Len(queue) <= QueueSize
  /\ worker \in [Workers -> Objects \cup {None}]
  /\ count \in [Counters -> Nat]
  /\ interrupted \in BOOLEAN
  /\ result \in [Objects -> Results \cup {"none"}]
  /\ cut \subseteq Buckets

Finished == {o \in Objects : result[o] # "none"}

InFlight == ({queue[i] : i \in 1..Len(queue)}
               \cup {worker[w] : w \in Workers} \cup {held}) \ {None}

\* Buckets do not overlap: while the workers have an object, it is of the bucket
\* being listed, and nobody has finished it before.
OneBucketAtATime ==
  /\ InFlight # {} => bucket \in Buckets /\ InFlight \subseteq Contents[bucket]
  /\ InFlight \cap Finished = {}

\* The report adds up: every object that was counted in was handled, once, and
\* every object handled is in one of the counters, with one failure more for
\* each listing that broke off and was counted.
Accounting ==
  pc = "done" =>
    /\ count["eligible"] = Cardinality(Finished)
    /\ count["scanned"] = Cardinality(listed)
    /\ \A c \in {"moved", "skipped"} :
         count[c] = Cardinality({o \in Finished : Counted(result[o]) = c})
    /\ LET n == Cardinality({o \in Finished : Counted(result[o]) = "failed"}) IN
       n <= count["failed"] /\ count["failed"] <= n + Cardinality(cut)

\* "Stop after this many objects" (-limit), over all buckets.
LimitKept ==
  opts.limit > 0 =>
    count["scanned"] <= opts.limit /\ Cardinality(Finished) <= opts.limit

\* A run that was not cut short and reports no failure has seen every object of
\* every bucket, and none failed.
CleanRunIsComplete ==
  /\ pc = "done" /\ ~interrupted /\ count["failed"] = 0
  /\ opts.limit = 0 \/ count["scanned"] < opts.limit
  => listed = Objects /\ \A o \in Objects : result[o] # "failed"

\* ... of the sweep and the backfill, which exits with status 1 for any failure.
ReportsFailures == opts.cmd # "restore" => CleanRunIsComplete

\* ... of the restore, which says after such a run that the archive may be
\* emptied once local storage is seen to hold everything (cmd/restore/
\* main.go:258-262).
RestoreReportsFailures ==
  opts.cmd = "restore" /\ opts.apply /\ count["moved"] > 0 => CleanRunIsComplete

\* Every run ends, interrupted or not: the listing never waits for a queue that
\* nobody empties, nor the end of a bucket for a worker that has nothing to do.
Ends == <>(pc = "done")
=============================================================================
