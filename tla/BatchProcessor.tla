--------------------------- MODULE BatchProcessor ---------------------------
(***************************************************************************)
(* pkg/batch: items sent to a bounded channel, gathered into batches by    *)
(* one goroutine, processed with retries, and a Stop that cancels, closes  *)
(* the channel and waits.  The processor function is processBatch of       *)
(* handler/image.go: it tries every item of its batch, each on its own     *)
(* goroutine, and returns when all of them have ended.  So the order in a  *)
(* batch does not matter, and a batch is a set.                            *)
(*                                                                         *)
(* The semaphore processBatchWithRetry takes has one user, the loop, so it *)
(* never blocks and is left out.                                           *)
(***************************************************************************)
EXTENDS Naturals, Sequences, FiniteSets

CONSTANTS
  Items,       \* one per call of Add
  BatchSize,   \* config.BatchSize
  QueueSize,   \* the capacity of items: 2 * BatchSize in the code
  MaxRetries   \* config.MaxRetries

ASSUME BatchAssumption ==
  /\ IsFiniteSet(Items)
  /\ BatchSize \in Nat \ {0}
  /\ QueueSize \in Nat \ {0}
  /\ MaxRetries \in Nat

VARIABLES
  adder,    \* adder[d]: where the Add of d is, or how it ended
  items,    \* the channel
  batch,    \* the batch the loop gathers, then hands to processBatchWithRetry
  loop,     \* where processBatches is
  leaving,  \* processBatches returns when the batch is done
  retries,  \* the retries counter of processBatchWithRetry
  tries,    \* history: tries[d], how often d was processed
  result,   \* result[d]: the Success flag the last attempt left, if any
  ctxDone,  \* the context is cancelled
  closed,   \* the channel is closed
  stopper   \* where Stop is

batchVars == <<adder, items, batch, loop, leaving, retries, tries, result,
               ctxDone, closed, stopper>>

AdderStates == {"new", "waiting", "added", "rejected", "panicked"}

BatchInit ==
  /\ adder = [d \in Items |-> "new"]
  /\ items = <<>>
  /\ batch = {}
  /\ loop = "select"
  /\ leaving = FALSE
  /\ retries = 0
  /\ tries = [d \in Items |-> 0]
  /\ result = [d \in Items |-> "none"]
  /\ ctxDone = FALSE
  /\ closed = FALSE
  /\ stopper = "running"

Waiting == {d \in Items : adder[d] = "waiting"}

-----------------------------------------------------------------------------
(* Add: one select between the channel and the context.                    *)

AddSend(d) ==
  /\ adder[d] = "new"
  /\ ~closed /\ Len(items) < QueueSize
  /\ adder' = [adder EXCEPT ![d] = "added"]
  /\ items' = Append(items, d)
  /\ UNCHANGED <<batch, loop, leaving, retries, tries, result, ctxDone, closed, stopper>>

\* No case is ready: the select parks until the loop makes room or Stop cancels.
AddWait(d) ==
  /\ adder[d] = "new"
  /\ Len(items) >= QueueSize /\ ~ctxDone
  /\ adder' = [adder EXCEPT ![d] = "waiting"]
  /\ UNCHANGED <<items, batch, loop, leaving, retries, tries, result, ctxDone, closed, stopper>>

AddReject(d) ==
  /\ adder[d] = "new" /\ ctxDone
  /\ adder' = [adder EXCEPT ![d] = "rejected"]
  /\ UNCHANGED <<items, batch, loop, leaving, retries, tries, result, ctxDone, closed, stopper>>

\* A send on a closed channel is a ready case too, and it panics.
AddPanic(d) ==
  /\ adder[d] = "new" /\ closed
  /\ adder' = [adder EXCEPT ![d] = "panicked"]
  /\ UNCHANGED <<items, batch, loop, leaving, retries, tries, result, ctxDone, closed, stopper>>

-----------------------------------------------------------------------------
(* processBatches: the loop's select.                                      *)

\* A receive from a full channel takes a parked sender's item in with it.
Receive ==
  \/ /\ Waiting = {}
     /\ items' = Tail(items)
     /\ UNCHANGED adder
  \/ \E d \in Waiting :
       /\ items' = Append(Tail(items), d)
       /\ adder' = [adder EXCEPT ![d] = "added"]

\* Mutation: a full batch is not handed over until the timer fires.
Gather_overfull ==
  /\ loop = "select" /\ items # <<>>
  /\ Receive
  /\ batch' = batch \cup {Head(items)}
  /\ UNCHANGED <<loop, retries, leaving, tries, result, ctxDone, closed, stopper>>

Gather ==
  /\ loop = "select" /\ items # <<>>
  /\ Receive
  /\ batch' = batch \cup {Head(items)}
  /\ loop' = IF Cardinality(batch') >= BatchSize THEN "process" ELSE "select"
  /\ retries' = 0
  /\ UNCHANGED <<leaving, tries, result, ctxDone, closed, stopper>>

\* Mutation: the timer only starts when a batch is flushed.
Timer_idle ==
  /\ loop = "select" /\ batch # {} /\ Cardinality(batch) >= BatchSize
  /\ loop' = "process"
  /\ retries' = 0
  /\ UNCHANGED <<adder, items, batch, leaving, tries, result, ctxDone, closed, stopper>>

\* The flush timer; with nothing gathered it is only reset.
Timer ==
  /\ loop = "select" /\ batch # {}
  /\ loop' = "process"
  /\ retries' = 0
  /\ UNCHANGED <<adder, items, batch, leaving, tries, result, ctxDone, closed, stopper>>

\* Mutation: the loop returns on the cancelled context with its batch in hand.
LastFlush_dropping ==
  /\ loop = "select"
  /\ ctxDone \/ (closed /\ items = <<>>)
  /\ loop' = "exited"
  /\ batch' = {}
  /\ retries' = 0
  /\ UNCHANGED <<leaving, adder, items, tries, result, ctxDone, closed, stopper>>

\* The context is cancelled, or the channel is closed and drained: what is
\* gathered is processed and the loop returns.
LastFlush ==
  /\ loop = "select"
  /\ ctxDone \/ (closed /\ items = <<>>)
  /\ loop' = IF batch = {} THEN "exited" ELSE "process"
  /\ leaving' = TRUE
  /\ retries' = 0
  /\ UNCHANGED <<adder, items, batch, tries, result, ctxDone, closed, stopper>>

-----------------------------------------------------------------------------
(* processBatchWithRetry and the processor it calls.                       *)

\* One call of the processor: the items of the batch that fail are \E.
Attempted(failed) ==
  /\ tries' = [d \in Items |-> IF d \in batch THEN tries[d] + 1 ELSE tries[d]]
  /\ result' = [d \in Items |->
                  IF d \notin batch THEN result[d]
                  ELSE IF d \in failed THEN "failed" ELSE "ok"]

\* Mutation: the last retry is not made.
Retry_last(failed, again) ==
  IF failed = {} \/ retries + 1 >= MaxRetries
  THEN /\ batch' = {}
       /\ loop' = IF leaving THEN "exited" ELSE "select"
       /\ retries' = 0
  ELSE /\ batch' = again
       /\ loop' = "sleep"
       /\ retries' = retries + 1

\* The batch is done, or the failed items of it are slept on and tried again.
Retry(failed, again) ==
  IF failed = {} \/ retries + 1 > MaxRetries
  THEN /\ batch' = {}
       /\ loop' = IF leaving THEN "exited" ELSE "select"
       /\ retries' = 0
  ELSE /\ batch' = again
       /\ loop' = "sleep"
       /\ retries' = retries + 1

\* Mutation: the whole batch is tried again.
Process_all(failed) ==
  /\ loop = "process" /\ failed \subseteq batch
  /\ Attempted(failed)
  /\ Retry(failed, batch)
  /\ UNCHANGED <<adder, items, leaving, ctxDone, closed, stopper>>

Process(failed) ==
  /\ loop = "process" /\ failed \subseteq batch
  /\ Attempted(failed)
  /\ Retry(failed, failed)
  /\ UNCHANGED <<adder, items, leaving, ctxDone, closed, stopper>>

\* RetryDelay.
Wake ==
  /\ loop = "sleep"
  /\ loop' = "process"
  /\ UNCHANGED <<adder, items, batch, leaving, retries, tries, result, ctxDone, closed, stopper>>

-----------------------------------------------------------------------------
(* Stop.                                                                   *)

\* Mutation: parked callers of Add are left to the channel alone.
Cancel_silent ==
  /\ stopper = "running"
  /\ ctxDone' = TRUE
  /\ stopper' = "cancelled"
  /\ UNCHANGED <<adder, items, batch, loop, leaving, retries, tries, result, closed>>

\* cancelFunc: every Add parked in its select is rejected.
Cancel ==
  /\ stopper = "running"
  /\ ctxDone' = TRUE
  /\ adder' = [d \in Items |-> IF d \in Waiting THEN "rejected" ELSE adder[d]]
  /\ stopper' = "cancelled"
  /\ UNCHANGED <<items, batch, loop, leaving, retries, tries, result, closed>>

Close ==
  /\ stopper = "cancelled"
  /\ closed' = TRUE
  /\ stopper' = "waiting"
  /\ UNCHANGED <<adder, items, batch, loop, leaving, retries, tries, result, ctxDone>>

\* Mutation: Stop also waits for the channel to be drained.
Stopped_drained ==
  /\ stopper = "waiting" /\ loop = "exited" /\ items = <<>>
  /\ stopper' = "stopped"
  /\ UNCHANGED <<adder, items, batch, loop, leaving, retries, tries, result, ctxDone, closed>>

\* wg.Wait returns once processBatches has.
Stopped ==
  /\ stopper = "waiting" /\ loop = "exited"
  /\ stopper' = "stopped"
  /\ UNCHANGED <<adder, items, batch, loop, leaving, retries, tries, result, ctxDone, closed>>

Stop == Cancel \/ Close \/ Stopped

-----------------------------------------------------------------------------
Add(d) == AddSend(d) \/ AddWait(d) \/ AddReject(d) \/ AddPanic(d)

ProcessBatches ==
  \/ Gather
  \/ Timer
  \/ LastFlush
  \/ Wake
  \/ \E failed \in SUBSET batch : Process(failed)

BatchNext == (\E d \in Items : Add(d)) \/ ProcessBatches \/ Stop

BatchSpec == BatchInit /\ [][BatchNext]_batchVars

\* The loop's goroutine runs and its timer fires; a Stop that began goes on.
\* Nobody has to call Add or Stop.
FairBatchSpec ==
  /\ BatchSpec
  /\ WF_batchVars(Gather)
  /\ WF_batchVars(Timer)
  /\ WF_batchVars(LastFlush)
  /\ WF_batchVars(Wake)
  /\ WF_batchVars(\E failed \in SUBSET batch : Process(failed))
  /\ WF_batchVars(Close)
  /\ WF_batchVars(Stopped)

-----------------------------------------------------------------------------
(* What the batch processor promises.                                      *)

TypeOK ==
  /\ adder \in [Items -> AdderStates]
  /\ items \in Seq(Items) /\ Len(items) <= QueueSize
  /\ batch \subseteq Items /\ Cardinality(batch) <= BatchSize
  /\ loop \in {"select", "process", "sleep", "exited"}
  /\ leaving \in BOOLEAN
  /\ retries \in 0 .. MaxRetries
  /\ tries \in [Items -> Nat]
  /\ result \in [Items -> {"none", "ok", "failed"}]
  /\ ctxDone \in BOOLEAN
  /\ closed \in BOOLEAN
  /\ stopper \in {"running", "cancelled", "waiting", "stopped"}

\* Where an item is: in the channel, in the loop's hands, or done with.
Queued(d) == \E i \in 1 .. Len(items) : items[i] = d
Held(d) == d \in batch

\* An item Add took is in the channel and untried, in the loop's batch, or has
\* been processed, one of the three and in the channel once; what Add refused is
\* in neither.  Whatever Stop interrupts, processBatches never returns with a
\* batch it gathered (processor.go, the cancelled context, the closed channel).
NothingDropped ==
  /\ \A d \in Items :
        IF adder[d] = "added"
        THEN \/ Queued(d) /\ ~Held(d) /\ tries[d] = 0
             \/ Held(d) /\ ~Queued(d)
             \/ ~Held(d) /\ ~Queued(d) /\ tries[d] > 0
        ELSE ~Held(d) /\ ~Queued(d) /\ tries[d] = 0
  /\ \A i, j \in 1 .. Len(items) : items[i] = items[j] => i = j
  /\ loop = "exited" => batch = {}

\* An item the processor is done with succeeded, or was tried MaxRetries
\* times after its first failure, also when Stop was called in between: the
\* retries of processBatchWithRetry are neither cut short nor exceeded.
GivenUpAfterRetries ==
  \A d \in Items :
    /\ tries[d] <= MaxRetries + 1
    /\ (tries[d] > 0 /\ ~Held(d)) => (result[d] = "ok" \/ tries[d] = MaxRetries + 1)

\* What succeeded is not processed again: a batch that failed in part is
\* retried with its failed items only (processor.go "Filter failed items for
\* retry"), so an image is not resized twice for a neighbour's failure.
SucceededNotRetried ==
  [][\A d \in Items : result[d] = "ok" => tries'[d] = tries[d]]_batchVars

\* While nobody stops the processor, an item Add took is processed in the
\* end, in a full batch or when the flush timer fires.
AddedProcessed ==
  \A d \in Items : (adder[d] = "added") ~> (tries[d] > 0 \/ ctxDone)

\* Add returns: it waits for room only as long as a batch in front of it is
\* retried, and a Stop releases it.
AddReturns == \A d \in Items : (adder[d] = "waiting") ~> (adder[d] # "waiting")

\* Stop returns: the loop's last batch and its retries end, whichever of the
\* closed channel and the cancelled context the loop sees first.
StopReturns == (stopper = "cancelled") ~> (stopper = "stopped")

=============================================================================
