----------------------------- MODULE WorkerPool -----------------------------
(***************************************************************************)
(* pkg/worker: a fixed set of goroutines taking jobs from a bounded        *)
(* channel, with retries and a graceful stop.  One pool serves /resize,    *)
(* whose caller waits on the job's response channel, another the Glacier   *)
(* downloads (module Downloads), whose caller does not.                    *)
(*                                                                         *)
(* A job's response channel has room for its one answer, as both callers   *)
(* make it.                                                                *)
(***************************************************************************)
EXTENDS Naturals, Sequences

CONSTANTS
  Jobs,        \* one per Submit
  Workers,     \* the goroutines Start launches
  QueueSize,   \* WORKER_QUEUE_SIZE
  MaxRetries,  \* WORKER_MAX_RETRIES
  NoJob        \* what an idle worker holds

ASSUME PoolAssumption ==
  /\ Workers # {}
  /\ QueueSize \in Nat \ {0}
  /\ MaxRetries \in Nat
  /\ NoJob \notin Jobs

VARIABLES
  caller,    \* caller[d]: where the Submit of d is, or how it ended
  queue,     \* jobQueue
  worker,    \* worker[w]: where w's loop is, its job and its failed attempts
  response,  \* response[d]: what d's response channel was sent
  outcome,   \* history: how the last attempt at d went
  ctxDone,   \* the pool's context is cancelled
  stopper    \* where Stop is

poolVars == <<caller, queue, worker, response, outcome, ctxDone, stopper>>

CallerStates == {"new", "checked", "accepted", "full", "refused"}
WorkerPcs == {"idle", "run", "busy", "respond", "exited"}
Verdicts == {"none", "ok", "error"}
StopStates == {"running", "waiting", "stopped", "timed_out"}

Idle == [pc |-> "idle", job |-> NoJob, retries |-> 0]

PoolInit ==
  /\ caller = [d \in Jobs |-> "new"]
  /\ queue = <<>>
  /\ worker = [w \in Workers |-> Idle]
  /\ response = [d \in Jobs |-> "none"]
  /\ outcome = [d \in Jobs |-> "none"]
  /\ ctxDone = FALSE
  /\ stopper = "running"

-----------------------------------------------------------------------------
(* Submit: an early look at the context, then one select.                  *)

SubmitCheck(d) ==
  /\ caller[d] = "new"
  /\ caller' = [caller EXCEPT ![d] = IF ctxDone THEN "refused" ELSE "checked"]
  /\ UNCHANGED <<queue, worker, response, outcome, ctxDone, stopper>>

\* Mutation: the queue has no limit.
SubmitSend_unbounded(d) ==
  /\ caller[d] = "checked"
  /\ queue' = Append(queue, d)
  /\ caller' = [caller EXCEPT ![d] = "accepted"]
  /\ UNCHANGED <<worker, response, outcome, ctxDone, stopper>>

\* A select picks any ready case, and the default only when none is ready.
SubmitSend(d) ==
  /\ caller[d] = "checked"
  /\ \/ /\ Len(queue) < QueueSize
        /\ queue' = Append(queue, d)
        /\ caller' = [caller EXCEPT ![d] = "accepted"]
     \/ /\ ctxDone
        /\ caller' = [caller EXCEPT ![d] = "refused"]
        /\ UNCHANGED queue
     \/ /\ Len(queue) >= QueueSize /\ ~ctxDone
        /\ caller' = [caller EXCEPT ![d] = "full"]
        /\ UNCHANGED queue
  /\ UNCHANGED <<worker, response, outcome, ctxDone, stopper>>

-----------------------------------------------------------------------------
(* The worker's loop and runJob.                                           *)

\* Mutation: the job stays in the queue for the next worker too.
Take_peeking(w) ==
  /\ worker[w].pc = "idle" /\ queue # <<>>
  /\ worker' = [worker EXCEPT ![w] = [pc |-> "run", job |-> Head(queue), retries |-> 0]]
  /\ UNCHANGED <<queue, caller, response, outcome, ctxDone, stopper>>

\* Mutation: a worker that took a job looks at the context before it runs it.
Take_dropping(w) ==
  /\ worker[w].pc = "idle" /\ queue # <<>>
  /\ worker' = [worker EXCEPT ![w] =
                  IF ctxDone THEN [Idle EXCEPT !.pc = "exited"]
                  ELSE [pc |-> "run", job |-> Head(queue), retries |-> 0]]
  /\ queue' = Tail(queue)
  /\ UNCHANGED <<caller, response, outcome, ctxDone, stopper>>

Take(w) ==
  /\ worker[w].pc = "idle" /\ queue # <<>>
  /\ worker' = [worker EXCEPT ![w] = [pc |-> "run", job |-> Head(queue), retries |-> 0]]
  /\ queue' = Tail(queue)
  /\ UNCHANGED <<caller, response, outcome, ctxDone, stopper>>

\* Cancelled context beside a queue that still holds jobs: either may win.
Exit(w) ==
  /\ worker[w].pc = "idle" /\ ctxDone
  /\ worker' = [worker EXCEPT ![w].pc = "exited"]
  /\ UNCHANGED <<caller, queue, response, outcome, ctxDone, stopper>>

BeginTask(w) ==
  /\ worker[w].pc = "run"
  /\ worker' = [worker EXCEPT ![w].pc = "busy"]
  /\ UNCHANGED <<caller, queue, response, outcome, ctxDone, stopper>>

\* Mutation: the last retry is not made.
EndTask_fewerTries(w, ok) ==
  /\ worker[w].pc = "busy"
  /\ outcome' = [outcome EXCEPT ![worker[w].job] = IF ok THEN "ok" ELSE "error"]
  /\ worker' = [worker EXCEPT ![w].pc = IF ~ok /\ worker[w].retries + 1 < MaxRetries
                                        THEN "run" ELSE "respond",
                              ![w].retries = IF ok THEN @ ELSE @ + 1]
  /\ UNCHANGED <<caller, queue, response, ctxDone, stopper>>

\* Mutation: success does not leave the loop.
EndTask_again(w, ok) ==
  /\ worker[w].pc = "busy"
  /\ outcome' = [outcome EXCEPT ![worker[w].job] = IF ok THEN "ok" ELSE "error"]
  /\ worker' = [worker EXCEPT ![w].pc = IF worker[w].retries < MaxRetries
                                        THEN "run" ELSE "respond",
                              ![w].retries = @ + 1]
  /\ UNCHANGED <<caller, queue, response, ctxDone, stopper>>

\* Task returns; a failed one is tried again after retryDelay, whatever the
\* context says, until MaxRetries is used up.
EndTask(w, ok) ==
  /\ worker[w].pc = "busy"
  /\ outcome' = [outcome EXCEPT ![worker[w].job] = IF ok THEN "ok" ELSE "error"]
  /\ worker' = [worker EXCEPT ![w].pc = IF ~ok /\ worker[w].retries < MaxRetries
                                        THEN "run" ELSE "respond",
                              ![w].retries = IF ok THEN @ ELSE @ + 1]
  /\ UNCHANGED <<caller, queue, response, ctxDone, stopper>>

\* Mutation: the worker's loop ends with its first failed job.
Respond_returning(w) ==
  /\ worker[w].pc = "respond"
  /\ LET d == worker[w].job IN
     /\ response' = [response EXCEPT ![d] = outcome[d]]
     /\ worker' = [worker EXCEPT ![w] =
                     IF outcome[d] = "ok" THEN Idle ELSE [Idle EXCEPT !.pc = "exited"]]
  /\ UNCHANGED <<caller, queue, outcome, ctxDone, stopper>>

\* The answer is sent, or dropped because the pool is stopping: with room in
\* the channel and a cancelled context, either may win.
Respond(w) ==
  /\ worker[w].pc = "respond"
  /\ \/ LET d == worker[w].job IN
        /\ response[d] = "none"
        /\ response' = [response EXCEPT ![d] = outcome[d]]
     \/ ctxDone /\ UNCHANGED response
  /\ worker' = [worker EXCEPT ![w] = Idle]
  /\ UNCHANGED <<caller, queue, outcome, ctxDone, stopper>>

-----------------------------------------------------------------------------
(* Stop.                                                                   *)

Stop ==
  /\ stopper = "running"
  /\ ctxDone' = TRUE
  /\ stopper' = "waiting"
  /\ UNCHANGED <<caller, queue, worker, response, outcome>>

StopDone ==
  /\ stopper = "waiting"
  /\ \A w \in Workers : worker[w].pc = "exited"
  /\ stopper' = "stopped"
  /\ UNCHANGED <<caller, queue, worker, response, outcome, ctxDone>>

\* Mutation: Stop waits for the workers however long it takes.
StopTimeout_never ==
  /\ stopper = "waiting"
  /\ \A w \in Workers : worker[w].pc = "exited"
  /\ stopper' = "timed_out"
  /\ UNCHANGED <<caller, queue, worker, response, outcome, ctxDone>>

\* Thirty seconds passed, however long the tasks take.
StopTimeout ==
  /\ stopper = "waiting"
  /\ stopper' = "timed_out"
  /\ UNCHANGED <<caller, queue, worker, response, outcome, ctxDone>>

-----------------------------------------------------------------------------
(* The specification of the pool by itself.                                *)

Loop(w) == Take(w) \/ Exit(w) \/ BeginTask(w) \/ Respond(w)

PoolNext ==
  \/ \E d \in Jobs : SubmitCheck(d) \/ SubmitSend(d)
  \/ \E w \in Workers : Loop(w) \/ \E ok \in BOOLEAN : EndTask(w, ok)
  \/ Stop \/ StopDone \/ StopTimeout

PoolSpec == PoolInit /\ [][PoolNext]_poolVars

-----------------------------------------------------------------------------
(* Properties                                                              *)

PoolTypeOK ==
  /\ caller \in [Jobs -> CallerStates]
  /\ queue \in Seq(Jobs) /\ Len(queue) <= QueueSize
  /\ worker \in [Workers -> [pc : WorkerPcs, job : Jobs \cup {NoJob},
                             retries : 0..MaxRetries + 1]]
  /\ response \in [Jobs -> Verdicts]
  /\ outcome \in [Jobs -> Verdicts]
  /\ ctxDone \in BOOLEAN
  /\ stopper \in StopStates

Queued(d) == \E i \in 1..Len(queue) : queue[i] = d
Held(d) == \E w \in Workers : worker[w].job = d
Answered(d) == response[d] # "none"

\* An accepted job is in one place: once in the queue, or with one worker, or
\* answered.  Only a stop may lose it (jobs left in the queue stay there, and an
\* answer may be dropped), and a job that was not accepted is nowhere.
OnePlace ==
  /\ \A d \in Jobs :
       IF caller[d] = "accepted"
       THEN Queued(d) \/ Held(d) \/ Answered(d) \/ ctxDone
       ELSE ~Queued(d) /\ ~Held(d) /\ ~Answered(d)
  /\ \A d \in Jobs : ~(Queued(d) /\ (Held(d) \/ Answered(d))) /\ ~(Held(d) /\ Answered(d))
  /\ \A i, j \in 1..Len(queue) : queue[i] = queue[j] => i = j
  /\ \A v, w \in Workers : worker[v].job = worker[w].job /\ worker[v].job # NoJob => v = w

\* A caller is told how the job ended: success only after an attempt that
\* succeeded, failure only after every retry has failed.
AnswerTruthful ==
  /\ \A d \in Jobs : Answered(d) => response[d] = outcome[d]
  /\ \A w \in Workers :
       worker[w].pc = "respond" =>
         outcome[worker[w].job] = "ok" \/ worker[w].retries = MaxRetries + 1

\* A Stop that reports a graceful stop has left no task running.
StopWaits == stopper = "stopped" => \A w \in Workers : worker[w].pc = "exited"

-----------------------------------------------------------------------------
(* Liveness                                                                *)

TasksReturn == \A w \in Workers : []<>(worker[w].pc # "busy")

\* Where tasks return, an accepted job is answered (the caller of /resize waits
\* for it without a timeout), unless the pool is stopped: no worker is lost to
\* failing jobs, and none keeps retrying.
AcceptedAnswered ==
  TasksReturn => \A d \in Jobs : caller[d] = "accepted" ~> Answered(d) \/ ctxDone

\* Stop returns, also when a task never does.
StopReturns == stopper = "waiting" ~> stopper \in {"stopped", "timed_out"}
=============================================================================
