-------------------------- MODULE DownloadsProofs ---------------------------
(***************************************************************************)
(* Proofs about WorkerPool and Downloads, for any requests, workers, queue *)
(* size and retries.  What holds of the pool by itself comes first, and    *)
(* holds of the pool here; the rest is about the records.                  *)
(***************************************************************************)
EXTENDS Downloads, QueueLemmas, TLAPS

\* A worker holds a job exactly while it runs one, with retries left before each
\* attempt, and has an outcome to answer with.
WorkerShape ==
  \A w \in Workers :
    /\ worker[w].job = NoJob <=> worker[w].pc \in {"idle", "exited"}
    /\ worker[w].pc \in {"run", "busy"} => worker[w].retries <= MaxRetries
    /\ worker[w].pc = "respond" =>
         \/ outcome[worker[w].job] = "ok"
         \/ outcome[worker[w].job] = "error" /\ worker[w].retries = MaxRetries + 1

PoolInv == PoolTypeOK /\ WorkerShape /\ OnePlace /\ AnswerTruthful /\ StopWaits

-----------------------------------------------------------------------------
(* The inductive invariant.                                                *)

\* The pool starts in order (NewPool, Start).
LEMMA PoolInitInv == PoolInit => PoolInv
<1> SUFFICES ASSUME PoolInit
             PROVE  PoolInv
  OBVIOUS
<1>1. queue \in Seq(Jobs) /\ Len(queue) = 0 /\ Len(queue) <= QueueSize
  BY PoolAssumption DEF PoolInit
<1>2. PoolTypeOK
  <2>1. Idle \in [pc : WorkerPcs, job : Jobs \cup {NoJob}, retries : 0..MaxRetries + 1]
    BY PoolAssumption DEF Idle, WorkerPcs
  <2>2. QED
    BY <1>1, <2>1 DEF PoolInit, PoolTypeOK, CallerStates, Verdicts, StopStates
<1>3. WorkerShape
  BY DEF PoolInit, WorkerShape, Idle
<1>4. OnePlace
  BY <1>1, PoolAssumption DEF PoolInit, OnePlace, Idle, Queued, Held, Answered
<1>5. AnswerTruthful /\ StopWaits
  BY DEF PoolInit, AnswerTruthful, StopWaits, Answered, Idle
<1>6. QED
  BY <1>2, <1>3, <1>4, <1>5 DEF PoolInv

\* A caller on its way moves no job but its own.
LEMMA SubmitKeeps ==
  ASSUME PoolInv, NEW d \in Jobs, SubmitCheck(d) \/ SubmitSend(d)
  PROVE  PoolInv'
<1>1. UNCHANGED <<worker, response, outcome, ctxDone, stopper>>
  BY DEF SubmitCheck, SubmitSend
<1>2. WorkerShape' /\ AnswerTruthful' /\ StopWaits'
  BY <1>1 DEF PoolInv, WorkerShape, AnswerTruthful, StopWaits, Answered
<1>3. CASE SubmitSend(d) /\ queue' = Append(queue, d)
  <2>1. /\ caller[d] = "checked" /\ Len(queue) < QueueSize
        /\ caller' = [caller EXCEPT ![d] = "accepted"]
    <3>1. Append(queue, d) # queue
      BY DEF PoolInv, PoolTypeOK
    <3>2. QED
      BY <1>3, <3>1 DEF SubmitSend
  <2>2. ~Queued(d) /\ ~Held(d) /\ ~Answered(d)
    BY <2>1 DEF PoolInv, OnePlace
  <2>3. /\ queue' \in Seq(Jobs) /\ Len(queue') = Len(queue) + 1
        /\ \A i, j \in 1..Len(queue') : queue'[i] = queue'[j] => i = j
        /\ \A e \in Jobs : Queued(e)' <=> e = d \/ Queued(e)
    BY <1>3, <2>2, Appended DEF PoolInv, PoolTypeOK, OnePlace, Queued
  <2>4. PoolTypeOK'
    BY <1>1, <2>1, <2>3, PoolAssumption DEF PoolInv, PoolTypeOK, CallerStates
  <2>5. \A e \in Jobs : (Held(e)' <=> Held(e)) /\ (Answered(e)' <=> Answered(e))
    BY <1>1 DEF Held, Answered
  <2>6. OnePlace'
    BY <1>1, <2>1, <2>2, <2>3, <2>5 DEF PoolInv, PoolTypeOK, OnePlace
  <2>7. QED
    BY <1>2, <2>4, <2>6 DEF PoolInv
<1>4. CASE UNCHANGED queue
  <2>1. \E c \in CallerStates \ {"accepted"} :
          caller[d] # "accepted" /\ caller' = [caller EXCEPT ![d] = c]
    <3>1. CASE SubmitCheck(d)
      BY <3>1 DEF SubmitCheck, CallerStates
    <3>2. CASE SubmitSend(d)
      <4>1. Append(queue, d) # queue
        BY DEF PoolInv, PoolTypeOK
      <4>2. QED
        BY <1>4, <3>2, <4>1 DEF SubmitSend, CallerStates
    <3>3. QED
      BY <3>1, <3>2
  <2>2. \A e \in Jobs : /\ Held(e)' <=> Held(e)
                        /\ Answered(e)' <=> Answered(e)
                        /\ Queued(e)' <=> Queued(e)
                        /\ caller'[e] = "accepted" <=> caller[e] = "accepted"
    BY <1>1, <1>4, <2>1 DEF Held, Answered, Queued, PoolInv, PoolTypeOK
  <2>3. PoolTypeOK'
    BY <1>1, <1>4, <2>1 DEF PoolInv, PoolTypeOK
  <2>4. OnePlace'
    BY <1>1, <1>4, <2>2 DEF PoolInv, OnePlace
  <2>5. QED
    BY <1>2, <2>3, <2>4 DEF PoolInv
<1>5. QED
  BY <1>3, <1>4 DEF SubmitCheck, SubmitSend

\* A worker that takes a job takes it out of the queue (worker).
LEMMA TakeKeeps ==
  ASSUME PoolInv, NEW w \in Workers, Take(w)
  PROVE  PoolInv'
<1> DEFINE d == Head(queue)
<1>1. /\ d \in Jobs /\ queue' \in Seq(Jobs) /\ Len(queue') = Len(queue) - 1
      /\ \A i, j \in 1..Len(queue') : queue'[i] = queue'[j] => i = j
      /\ Queued(d)
      /\ \A e \in Jobs : Queued(e)' <=> e # d /\ Queued(e)
  <2>1. /\ queue \in Seq(Jobs) /\ queue # <<>> /\ queue' = Tail(queue)
        /\ \A i, j \in 1..Len(queue) : queue[i] = queue[j] => i = j
    BY DEF Take, PoolInv, PoolTypeOK, OnePlace
  <2>2. QED
    BY <2>1, Tailed DEF Queued
<1>2. /\ worker[w].pc = "idle" /\ worker[w].job = NoJob
      /\ worker' = [worker EXCEPT ![w] = [pc |-> "run", job |-> d, retries |-> 0]]
      /\ UNCHANGED <<caller, response, outcome, ctxDone, stopper>>
  BY DEF Take, PoolInv, WorkerShape
<1>3. worker \in [Workers -> [pc : WorkerPcs, job : Jobs \cup {NoJob},
                             retries : 0..MaxRetries + 1]]
  BY DEF PoolInv, PoolTypeOK
<1>4. ~Held(d) /\ ~Answered(d) /\ caller[d] = "accepted"
  BY <1>1 DEF PoolInv, OnePlace
<1>5. d # NoJob
  BY <1>1, PoolAssumption
<1>6. PoolTypeOK'
  <2>1. [pc |-> "run", job |-> d, retries |-> 0]
          \in [pc : WorkerPcs, job : Jobs \cup {NoJob}, retries : 0..MaxRetries + 1]
    BY <1>1, PoolAssumption DEF WorkerPcs
  <2>2. Len(queue') <= QueueSize
    BY <1>1, PoolAssumption DEF PoolInv, PoolTypeOK
  <2>3. QED
    BY <1>1, <1>2, <2>1, <2>2 DEF PoolInv, PoolTypeOK
<1>7. WorkerShape'
  BY <1>2, <1>3, <1>5, PoolAssumption DEF PoolInv, WorkerShape
<1>8. \A e \in Jobs : /\ Held(e)' <=> e = d \/ Held(e)
                      /\ Answered(e)' <=> Answered(e)
  BY <1>2, <1>3, PoolAssumption DEF Held, Answered
<1>9. OnePlace'
  <2>1. \A v \in Workers : worker[v].job # d
    BY <1>4 DEF Held
  <2>2. \A u, v \in Workers :
          worker'[u].job = worker'[v].job /\ worker'[u].job # NoJob => u = v
    BY <1>2, <1>3, <2>1 DEF PoolInv, OnePlace
  <2>3. QED
    BY <1>1, <1>2, <1>4, <1>8, <2>2 DEF PoolInv, OnePlace
<1>10. AnswerTruthful' /\ StopWaits'
  BY <1>2, <1>3 DEF PoolInv, AnswerTruthful, StopWaits, Answered
<1>11. QED
  BY <1>6, <1>7, <1>9, <1>10 DEF PoolInv

\* A worker that keeps the job it has, or its lack of one, moves no job.
LEMMA SameJobsKeep ==
  ASSUME PoolInv, PoolTypeOK', UNCHANGED <<caller, queue, response>>,
         ctxDone => ctxDone',
         \A w \in Workers : worker'[w].job = worker[w].job
  PROVE  OnePlace'
<1>1. \A e \in Jobs : /\ Held(e)' <=> Held(e)
                      /\ Answered(e)' <=> Answered(e)
                      /\ Queued(e)' <=> Queued(e)
  BY DEF Held, Answered, Queued
<1>2. QED
  BY <1>1 DEF PoolInv, PoolTypeOK, OnePlace

\* A worker that leaves has no job, one that begins an attempt keeps it.
LEMMA ExitBeginKeeps ==
  ASSUME PoolInv, NEW w \in Workers, Exit(w) \/ BeginTask(w)
  PROVE  PoolInv'
<1>1. PICK pc \in WorkerPcs :
        /\ worker' = [worker EXCEPT ![w].pc = pc]
        /\ \/ worker[w].pc = "idle" /\ pc = "exited"
           \/ worker[w].pc = "run" /\ pc = "busy"
        /\ UNCHANGED <<caller, queue, response, outcome, ctxDone, stopper>>
  BY DEF Exit, BeginTask, WorkerPcs
<1>2. worker \in [Workers -> [pc : WorkerPcs, job : Jobs \cup {NoJob},
                             retries : 0..MaxRetries + 1]]
  BY DEF PoolInv, PoolTypeOK
<1>3. PoolTypeOK'
  BY <1>1, <1>2 DEF PoolInv, PoolTypeOK
<1>4. WorkerShape'
  BY <1>1, <1>2 DEF PoolInv, WorkerShape
<1>5. OnePlace'
  <2>1. \A v \in Workers : worker'[v].job = worker[v].job
    BY <1>1, <1>2
  <2>2. QED
    BY <1>1, <1>3, <2>1, SameJobsKeep
<1>6. AnswerTruthful' /\ StopWaits'
  BY <1>1, <1>2 DEF PoolInv, AnswerTruthful, StopWaits, Answered
<1>7. QED
  BY <1>3, <1>4, <1>5, <1>6 DEF PoolInv

\* An attempt that ends is followed by an answer or by a retry that is left
\* (runJob).
LEMMA EndTaskKeeps ==
  ASSUME PoolInv, NEW w \in Workers, NEW ok \in BOOLEAN, EndTask(w, ok)
  PROVE  PoolInv'
<1> DEFINE d == worker[w].job
<1>1. worker \in [Workers -> [pc : WorkerPcs, job : Jobs \cup {NoJob},
                             retries : 0..MaxRetries + 1]]
  BY DEF PoolInv, PoolTypeOK
<1>2. worker[w].pc = "busy" /\ d \in Jobs /\ worker[w].retries <= MaxRetries
      /\ worker[w].retries \in Nat
  BY <1>1, PoolAssumption DEF EndTask, PoolInv, WorkerShape
<1>3. ~Answered(d)
  BY <1>2 DEF PoolInv, OnePlace, Held
<1>4. PICK pc \in WorkerPcs, n \in 0..MaxRetries + 1 :
        /\ worker' = [worker EXCEPT ![w].pc = pc, ![w].retries = n]
        /\ \/ pc = "run" /\ ~ok /\ n <= MaxRetries
           \/ pc = "respond" /\ ok
           \/ pc = "respond" /\ ~ok /\ n = MaxRetries + 1
  <2>1. CASE ok
    BY <1>1, <1>2, <2>1 DEF EndTask, WorkerPcs
  <2>2. CASE ~ok /\ worker[w].retries < MaxRetries
    <3>1. worker[w].retries + 1 \in 0..MaxRetries + 1 /\ worker[w].retries + 1 <= MaxRetries
      BY <1>2, <2>2, PoolAssumption
    <3>2. worker' = [worker EXCEPT ![w].pc = "run", ![w].retries = worker[w].retries + 1]
      BY <1>1, <2>2 DEF EndTask
    <3>3. QED
      BY <2>2, <3>1, <3>2 DEF WorkerPcs
  <2>3. CASE ~ok /\ ~(worker[w].retries < MaxRetries)
    <3>1. worker[w].retries + 1 = MaxRetries + 1 /\ MaxRetries + 1 \in 0..MaxRetries + 1
      BY <1>2, <2>3, PoolAssumption
    <3>2. worker' = [worker EXCEPT ![w].pc = "respond", ![w].retries = worker[w].retries + 1]
      BY <1>1, <2>3 DEF EndTask
    <3>3. QED
      BY <2>3, <3>1, <3>2 DEF WorkerPcs
  <2>4. QED
    BY <2>1, <2>2, <2>3
<1>5. /\ outcome' = [outcome EXCEPT ![d] = IF ok THEN "ok" ELSE "error"]
      /\ UNCHANGED <<caller, queue, response, ctxDone, stopper>>
  BY DEF EndTask
<1>6. PoolTypeOK'
  BY <1>1, <1>4, <1>5 DEF PoolInv, PoolTypeOK, Verdicts
<1>7. \A v \in Workers \ {w} : worker'[v] = worker[v] /\ worker[v].job # d
  BY <1>1, <1>2, <1>4, PoolAssumption DEF PoolInv, OnePlace
<1>8. /\ worker'[w].job = d /\ worker'[w].pc \in {"run", "respond"}
      /\ worker'[w].pc = "run" => worker'[w].retries <= MaxRetries
      /\ outcome'[d] = IF ok THEN "ok" ELSE "error"
      /\ worker'[w].pc = "respond" => ok \/ worker'[w].retries = MaxRetries + 1
  BY <1>1, <1>2, <1>4, <1>5 DEF PoolInv, PoolTypeOK
<1>9. WorkerShape'
  <2>1. \A v \in Workers \ {w} : outcome'[worker[v].job] = outcome[worker[v].job]
    BY <1>5, <1>7 DEF PoolInv, PoolTypeOK
  <2>2. QED
    BY <1>2, <1>7, <1>8, <2>1, PoolAssumption DEF PoolInv, WorkerShape
<1>10. OnePlace'
  BY <1>5, <1>6, <1>7, <1>8, SameJobsKeep
<1>11. AnswerTruthful'
  <2>1. \A e \in Jobs : Answered(e)' => response'[e] = outcome'[e]
    BY <1>3, <1>5 DEF PoolInv, PoolTypeOK, AnswerTruthful, Answered
  <2>2. \A v \in Workers : worker'[v].pc = "respond" =>
          outcome'[worker'[v].job] = "ok" \/ worker'[v].retries = MaxRetries + 1
    BY <1>9 DEF WorkerShape
  <2>3. QED
    BY <2>1, <2>2 DEF AnswerTruthful
<1>12. StopWaits'
  BY <1>2, <1>5 DEF PoolInv, StopWaits
<1>13. QED
  BY <1>6, <1>9, <1>10, <1>11, <1>12 DEF PoolInv

\* A worker that answers, or drops the answer for the stop, lets go of the job.
LEMMA RespondKeeps ==
  ASSUME PoolInv, NEW w \in Workers, Respond(w)
  PROVE  PoolInv'
<1>1. PICK d \in Jobs : worker[w].job = d /\ worker[w].pc = "respond"
  BY DEF Respond, PoolInv, PoolTypeOK, WorkerShape
<1>2. worker \in [Workers -> [pc : WorkerPcs, job : Jobs \cup {NoJob},
                             retries : 0..MaxRetries + 1]]
      /\ response \in [Jobs -> Verdicts] /\ outcome \in [Jobs -> Verdicts]
  BY DEF PoolInv, PoolTypeOK
<1>3. /\ worker' = [worker EXCEPT ![w] = Idle]
      /\ UNCHANGED <<caller, queue, outcome, ctxDone, stopper>>
      /\ \/ response' = [response EXCEPT ![d] = outcome[d]]
         \/ ctxDone /\ UNCHANGED response
  BY <1>1 DEF Respond
<1>4. outcome[d] # "none"
  BY <1>1 DEF PoolInv, WorkerShape
<1>5. caller[d] = "accepted" /\ ~Queued(d)
  BY <1>1 DEF PoolInv, OnePlace, Held
<1>6. PoolTypeOK'
  <2>1. Idle \in [pc : WorkerPcs, job : Jobs \cup {NoJob}, retries : 0..MaxRetries + 1]
    BY PoolAssumption DEF Idle, WorkerPcs
  <2>2. response' \in [Jobs -> Verdicts]
    BY <1>2, <1>1, <1>3
  <2>3. QED
    BY <1>3, <2>1, <2>2 DEF PoolInv, PoolTypeOK
<1>7. WorkerShape'
  BY <1>2, <1>3 DEF PoolInv, WorkerShape, Idle
<1>8. \A e \in Jobs : /\ Held(e)' <=> e # d /\ Held(e)
                      /\ Queued(e)' <=> Queued(e)
                      /\ e # d => (Answered(e)' <=> Answered(e))
  <2>1. \A v \in Workers : worker'[v].job = IF v = w THEN NoJob ELSE worker[v].job
    BY <1>2, <1>3 DEF Idle
  <2>2. \A v \in Workers \ {w} : worker[v].job # d
    BY <1>1, PoolAssumption DEF PoolInv, OnePlace
  <2>3. \A e \in Jobs : Held(e)' <=> e # d /\ Held(e)
    BY <2>1, <2>2, <1>1, PoolAssumption DEF Held
  <2>4. \A e \in Jobs : e # d => (Answered(e)' <=> Answered(e))
    BY <1>2, <1>3 DEF Answered
  <2>5. QED
    BY <1>3, <2>3, <2>4 DEF Queued
<1>9. Answered(d)' \/ ctxDone'
  BY <1>2, <1>1, <1>3, <1>4 DEF Answered
<1>10. OnePlace'
  <2>1. \A u, v \in Workers :
          worker'[u].job = worker'[v].job /\ worker'[u].job # NoJob => u = v
    BY <1>2, <1>3 DEF PoolInv, OnePlace, Idle
  <2>2. QED
    BY <1>1, <1>3, <1>5, <1>8, <1>9, <2>1 DEF PoolInv, OnePlace
<1>11. AnswerTruthful' /\ StopWaits'
  <2>1. \A e \in Jobs : Answered(e)' => response'[e] = outcome'[e]
    BY <1>2, <1>1, <1>3 DEF PoolInv, AnswerTruthful, Answered
  <2>2. QED
    BY <1>2, <1>1, <1>3, <2>1 DEF PoolInv, AnswerTruthful, StopWaits, Idle
<1>12. QED
  BY <1>6, <1>7, <1>10, <1>11 DEF PoolInv

\* Stop moves no job and reports a graceful stop only when every worker has left.
LEMMA StopKeeps ==
  ASSUME PoolInv, Stop \/ StopDone \/ StopTimeout
  PROVE  PoolInv'
<1>1. /\ UNCHANGED <<caller, queue, worker, response, outcome>>
      /\ ctxDone' \in BOOLEAN /\ (ctxDone => ctxDone')
      /\ stopper' \in StopStates
      /\ stopper' = "stopped" => \A w \in Workers : worker[w].pc = "exited"
  BY DEF Stop, StopDone, StopTimeout, PoolInv, PoolTypeOK, StopStates
<1>2. PoolTypeOK' /\ WorkerShape' /\ AnswerTruthful' /\ StopWaits'
  BY <1>1 DEF PoolInv, PoolTypeOK, WorkerShape, AnswerTruthful, StopWaits, Answered
<1>3. OnePlace'
  BY <1>1, <1>2, SameJobsKeep
<1>4. QED
  BY <1>2, <1>3 DEF PoolInv

\* Every step keeps the invariant.
LEMMA PoolNextInv == PoolInv /\ [PoolNext]_poolVars => PoolInv'
<1> SUFFICES ASSUME PoolInv, [PoolNext]_poolVars
             PROVE  PoolInv'
  OBVIOUS
<1>1. CASE \E d \in Jobs : SubmitCheck(d) \/ SubmitSend(d)
  BY <1>1, SubmitKeeps
<1>2. CASE \E w \in Workers : Loop(w) \/ \E ok \in BOOLEAN : EndTask(w, ok)
  BY <1>2, TakeKeeps, ExitBeginKeeps, EndTaskKeeps, RespondKeeps DEF Loop
<1>3. CASE Stop \/ StopDone \/ StopTimeout
  BY <1>3, StopKeeps
<1>4. CASE UNCHANGED poolVars
  BY <1>4 DEF poolVars, PoolInv, PoolTypeOK, WorkerShape, OnePlace, AnswerTruthful,
     StopWaits, Queued, Held, Answered
<1>5. QED
  BY <1>1, <1>2, <1>3, <1>4 DEF PoolNext

\* The invariant holds of the pool by itself.
THEOREM PoolInvariant == PoolSpec => []PoolInv
BY PoolInitInv, PoolNextInv, PTL DEF PoolSpec

-----------------------------------------------------------------------------
(* What follows.                                                           *)

\* A job that Submit accepted is in one place: once in the queue, with one
\* worker, or answered (pkg/worker Submit, worker, runJob).
THEOREM OnePlaceTheorem == PoolSpec => []OnePlace
BY PoolInvariant, PTL DEF PoolInv

\* Success is answered only after an attempt that succeeded, failure only after
\* MaxRetries retries have failed (runJob).
THEOREM AnswerTheorem == PoolSpec => []AnswerTruthful
BY PoolInvariant, PTL DEF PoolInv

\* A Stop that reports a graceful stop has left no worker running (Stop).
THEOREM StopTheorem == PoolSpec => []StopWaits
BY PoolInvariant, PTL DEF PoolInv

-----------------------------------------------------------------------------
(* The records of the downloads.                                           *)

\* The record of a request that is not over: pending until the first attempt,
\* then as the attempt before left it.
RecordShape ==
  /\ \A d \in Jobs :
       /\ record[d].status = "none" => caller[d] = "new"
       /\ caller[d] \in {"new", "checked"} => record[d].status \in {"none", "pending"}
       /\ Queued(d) => record[d].status = "pending"
       /\ outcome[d] # "none" => caller[d] = "accepted"
  /\ \A w \in Workers :
       /\ worker[w].pc = "run" => record[worker[w].job].status \in {"pending", "failed"}
       /\ worker[w].pc = "respond" =>
            record[worker[w].job].status =
              IF outcome[worker[w].job] = "ok" THEN "completed" ELSE "failed"

\* What the record says of one request, whether the pool accepted it or not: the
\* inductive form of StatusTruthful.
RecordOf(d) ==
  /\ record[d].status = "processing"
       <=> \E w \in Workers : worker[w].job = d /\ worker[w].pc = "busy"
  /\ record[d].status = "pending" => outcome[d] = "none"
  /\ record[d].status = "completed" => outcome[d] = "ok"
  /\ record[d].status = "failed" => outcome[d] = "error"
  /\ record[d].status # "none" /\ record[d].end = "unset" => d \in tracked

RecordsAgree == \A d \in Jobs : RecordOf(d)

DInv == PoolInv /\ TypeOK /\ RecordShape /\ RecordsAgree /\ EndRecorded

-----------------------------------------------------------------------------
(* The pool inside.                                                        *)

\* A step of Downloads is a step of its pool, or leaves it alone.
LEMMA PoolStep == [Next]_vars => [PoolNext]_poolVars
BY DEF Next, vars, PoolNext, poolVars, Register, Submit, Age, Worker, DownloadLoop, Stopping, StopReturn,
   BeginDownload, EndDownload, Loop

\* The pool of the downloads is a worker pool: handler/aws.go uses it through
\* Submit alone.
THEOREM ImplementsPool == Spec => PoolSpec
<1>1. Init => PoolInit
  BY DEF Init
<1>2. QED
  BY <1>1, PoolStep, PTL DEF Spec, PoolSpec

-----------------------------------------------------------------------------
(* The inductive invariant.                                                *)

\* No request has been made (the empty downloadJobs).
LEMMA InitDInv == Init => DInv
<1> SUFFICES ASSUME Init
             PROVE  DInv
  OBVIOUS
<1>1. PoolInv
  BY PoolInitInv DEF Init
<1>2. TypeOK
  BY <1>1 DEF Init, TypeOK, PoolInv, Statuses, EndTimes
<1>3. RecordShape
  BY PoolAssumption DEF Init, PoolInit, RecordShape, Queued, Idle
<1>4. RecordsAgree
  BY PoolAssumption DEF Init, PoolInit, RecordsAgree, RecordOf, Idle
<1>5. EndRecorded
  BY DEF Init, PoolInit, EndRecorded
<1>6. QED
  BY <1>1, <1>2, <1>3, <1>4, <1>5 DEF DInv

\* Registering and ageing change no status but the new request's, and a request
\* is forgotten only when its EndTime is set.
LEMMA RegisterAgeKeeps ==
  ASSUME DInv, PoolInv', NEW d \in Jobs, Register(d) \/ Age(d)
  PROVE  DInv'
<1>1. UNCHANGED <<caller, queue, worker, response, outcome, ctxDone, stopper>>
  BY DEF Register, Age, poolVars
<1>2. \A e \in Jobs : Queued(e)' = Queued(e) /\ Held(e)' = Held(e)
                      /\ Answered(e)' = Answered(e)
  BY <1>1 DEF Queued, Held, Answered
<1>3. record \in [Jobs -> [status : Statuses, end : EndTimes, error : BOOLEAN]]
      /\ tracked \subseteq Jobs
  BY DEF DInv, TypeOK
<1>4. CASE Register(d)
  <2>1. /\ record[d].status = "none"
        /\ record' = [record EXCEPT ![d].status = "pending"]
        /\ tracked' = {j \in tracked : record[j].end # "old"} \cup {d}
    BY <1>4 DEF Register
  <2>2. /\ record'[d].status = "pending" /\ record'[d].end = record[d].end
        /\ \A e \in Jobs \ {d} : record'[e] = record[e]
    BY <1>3, <2>1
  <2>3. caller[d] = "new" /\ outcome[d] = "none" /\ ~Held(d) /\ ~Queued(d)
    <3>1. caller[d] = "new"
      BY <2>1 DEF DInv, RecordShape
    <3>2. QED
      BY <3>1, <1>3 DEF DInv, RecordShape, PoolInv, OnePlace, PoolTypeOK
  <2>4. TypeOK'
    BY <1>1, <1>3, <2>1, <2>2 DEF DInv, PoolInv, PoolTypeOK, TypeOK, Statuses
  <2>5. RecordShape'
    <3>1. \A w \in Workers : worker[w].job # d
      BY <2>3 DEF Held
    <3>2. \A w \in Workers : worker[w].pc \in {"run", "respond"} => worker[w].job \in Jobs
      BY DEF DInv, PoolInv, PoolTypeOK, WorkerShape
    <3>3. \A w \in Workers : worker[w].pc \in {"run", "respond"} =>
            record'[worker[w].job] = record[worker[w].job]
      BY <2>2, <3>1, <3>2
    <3>4. QED
      BY <1>1, <1>2, <2>2, <2>3, <3>3 DEF DInv, RecordShape
  <2>6. RecordsAgree'
    <3>1. ASSUME NEW e \in Jobs, e # d
          PROVE  RecordOf(e)'
      <4>1. record'[e] = record[e] /\ RecordOf(e)
        BY <2>2, <3>1 DEF DInv, RecordsAgree, RecordOf
      <4>2. e \in tracked /\ record[e].end = "unset" => e \in tracked'
        BY <2>1
      <4>3. QED
        BY <1>1, <4>1, <4>2 DEF RecordOf
    <3>2. RecordOf(d)'
      BY <1>1, <2>1, <2>2, <2>3 DEF RecordOf, Held
    <3>3. QED
      BY <3>1, <3>2 DEF RecordsAgree, RecordOf
  <2>7. EndRecorded'
    BY <1>1, <1>2, <2>2, <2>3 DEF DInv, EndRecorded
  <2>8. QED
    BY <2>4, <2>5, <2>6, <2>7 DEF DInv
<1>5. CASE Age(d)
  <2>1. /\ record[d].end = "recent" /\ UNCHANGED tracked
        /\ record' = [record EXCEPT ![d].end = "old"]
    BY <1>5 DEF Age
  <2>2. \A e \in Jobs : /\ record'[e].status = record[e].status
                        /\ record'[e].end = "unset" => record[e].end = "unset"
    BY <1>3, <2>1
  <2>3. TypeOK'
    BY <1>1, <1>3, <2>1 DEF DInv, PoolInv, PoolTypeOK, TypeOK, EndTimes
  <2>4. RecordShape'
    <3>1. \A w \in Workers : worker[w].pc \in {"run", "respond"} => worker[w].job \in Jobs
      BY DEF DInv, PoolInv, PoolTypeOK, WorkerShape
    <3>2. QED
      BY <1>1, <1>2, <2>2, <3>1 DEF DInv, RecordShape
  <2>5. RecordsAgree'
    <3>1. ASSUME NEW e \in Jobs
          PROVE  RecordOf(e)'
      <4>1. RecordOf(e)
        BY DEF DInv, RecordsAgree, RecordOf
      <4>2. QED
        BY <1>1, <2>1, <2>2, <4>1 DEF RecordOf
    <3>2. QED
      BY <3>1 DEF RecordsAgree, RecordOf
  <2>6. EndRecorded'
    BY <1>1, <1>2, <2>2 DEF DInv, EndRecorded
  <2>7. QED
    BY <2>3, <2>4, <2>5, <2>6 DEF DInv
<1>6. QED
  BY <1>4, <1>5

\* Submit, taking a job, leaving, answering and stopping write no record.  Of the
\* places a job can be in they only move it from the submitter to the queue, from
\* there to a worker that has it to run, and from a worker that answers.
QuietRequest(e) ==
  /\ record[e].status # "none" \/ caller'[e] = caller[e]
  /\ caller'[e] \in {"new", "checked"} => caller[e] \in {"new", "checked"}
  /\ caller[e] = "accepted" => caller'[e] = "accepted"
  /\ Queued(e)' => Queued(e) \/ caller[e] = "checked"
  /\ caller'[e] = "accepted" =>
       \/ Queued(e)' \/ Held(e)'
       \/ caller[e] = "accepted" /\ ~Queued(e)
            /\ (Held(e) => \E w \in Workers : worker[w].job = e /\ worker[w].pc = "respond")

QuietWorker(w) ==
  \/ worker'[w] = worker[w]
  \/ worker[w].pc # "busy" /\ worker'[w].pc \in {"idle", "exited"}
  \/ /\ worker[w].pc # "busy" /\ worker'[w].pc = "run"
     /\ Queued(worker'[w].job) /\ worker'[w].job \in Jobs

Quiet ==
  /\ UNCHANGED <<tracked, record, outcome>>
  /\ \A e \in Jobs : QuietRequest(e)
  /\ \A w \in Workers : QuietWorker(w)

\* A quiet step keeps the records right.
LEMMA QuietKeeps ==
  ASSUME DInv, PoolInv', Quiet
  PROVE  DInv'
<1> USE DEF Quiet, QuietRequest, QuietWorker
<1>1. TypeOK'
  BY DEF DInv, TypeOK, PoolInv
<1>2. RecordShape'
  <2>1. ASSUME NEW e \in Jobs
        PROVE  /\ record[e].status = "none" => caller'[e] = "new"
               /\ caller'[e] \in {"new", "checked"} => record[e].status \in {"none", "pending"}
               /\ outcome[e] # "none" => caller'[e] = "accepted"
    BY DEF DInv, RecordShape
  <2>2. ASSUME NEW e \in Jobs, Queued(e)'
        PROVE  record[e].status = "pending"
    BY <2>2 DEF DInv, RecordShape
  <2>3. ASSUME NEW w \in Workers
        PROVE  /\ worker'[w].pc = "run" =>
                    record[worker'[w].job].status \in {"pending", "failed"}
               /\ worker'[w].pc = "respond" =>
                    record[worker'[w].job].status =
                      IF outcome[worker'[w].job] = "ok" THEN "completed" ELSE "failed"
    BY DEF DInv, RecordShape
  <2>4. QED
    BY <2>1, <2>2, <2>3 DEF RecordShape
<1>3. RecordsAgree'
  <2>1. \A w \in Workers : \/ worker'[w] = worker[w]
                           \/ worker[w].pc # "busy" /\ worker'[w].pc # "busy"
    OBVIOUS
  <2>2. ASSUME NEW e \in Jobs
        PROVE  (\E w \in Workers : worker'[w].job = e /\ worker'[w].pc = "busy")
               <=> \E w \in Workers : worker[w].job = e /\ worker[w].pc = "busy"
    BY <2>1
  <2>3. QED
    BY <2>2 DEF DInv, RecordsAgree, RecordOf
<1>4. EndRecorded'
  <2>1. SUFFICES ASSUME NEW e \in Jobs, caller'[e] = "accepted", ~Queued(e)', ~Held(e)'
                 PROVE  /\ record[e].status = IF outcome[e] = "ok" THEN "completed" ELSE "failed"
                        /\ Answered(e)' \/ ctxDone'
    BY DEF EndRecorded
  <2>2. record[e].status = IF outcome[e] = "ok" THEN "completed" ELSE "failed"
    <3>1. caller[e] = "accepted" /\ ~Queued(e)
      BY <2>1
    <3>2. CASE Held(e)
      BY <2>1, <3>2 DEF DInv, RecordShape
    <3>3. CASE ~Held(e)
      BY <3>1, <3>3 DEF DInv, EndRecorded
    <3>4. QED
      BY <3>2, <3>3
  <2>3. Answered(e)' \/ ctxDone'
    BY <2>1 DEF PoolInv, OnePlace
  <2>4. QED
    BY <2>2, <2>3
<1>5. QED
  BY <1>1, <1>2, <1>3, <1>4 DEF DInv

\* A request on its way to the queue writes nothing more in its record
\* (GlacierInitiateAsyncDownload after its Unlock).
LEMMA SubmitQuiet ==
  ASSUME DInv, PoolInv', NEW d \in Jobs, Submit(d)
  PROVE  DInv'
<1>1. /\ UNCHANGED <<tracked, record, worker, response, outcome, ctxDone, stopper>>
      /\ record[d].status # "none"
      /\ SubmitCheck(d) \/ SubmitSend(d)
  BY DEF Submit, SubmitCheck, SubmitSend
<1>2. caller \in [Jobs -> CallerStates] /\ queue \in Seq(Jobs)
  BY DEF DInv, PoolInv, PoolTypeOK
<1>3. /\ caller[d] \in {"new", "checked"}
      /\ \A e \in Jobs \ {d} : caller'[e] = caller[e]
      /\ caller'[d] # "new"
  BY <1>1, <1>2 DEF SubmitCheck, SubmitSend
<1>4. \A e \in Jobs : Held(e)' = Held(e)
  BY <1>1 DEF Held
<1>5. CASE queue' = Append(queue, d) /\ caller[d] = "checked"
  <2>1. ~Queued(d)
    BY <1>5 DEF DInv, PoolInv, OnePlace
  <2>2. \A e \in Jobs : Queued(e)' <=> e = d \/ Queued(e)
    BY <1>2, <1>5, <2>1, Appended DEF DInv, PoolInv, OnePlace, Queued
  <2>3. \A e \in Jobs : caller'[e] = "accepted" =>
          \/ Queued(e)' \/ Held(e)'
          \/ caller[e] = "accepted" /\ ~Queued(e) /\ ~Held(e)
    BY <1>3, <1>4, <2>2
  <2>4. \A e \in Jobs : QuietRequest(e)
    BY <1>1, <1>3, <1>5, <2>2, <2>3 DEF QuietRequest
  <2>5. QED
    BY <1>1, <2>4, QuietKeeps DEF Quiet, QuietWorker
<1>6. CASE UNCHANGED queue
  <2>1. caller'[d] # "accepted"
    <3>1. Append(queue, d) # queue
      BY <1>2
    <3>2. QED
      BY <1>1, <1>2, <1>6, <3>1 DEF SubmitCheck, SubmitSend
  <2>2. \A e \in Jobs : Queued(e)' = Queued(e)
    BY <1>6 DEF Queued
  <2>3. \A e \in Jobs : caller'[e] = "accepted" =>
          \/ Queued(e)' \/ Held(e)'
          \/ caller[e] = "accepted" /\ ~Queued(e) /\ ~Held(e)
    BY <1>3, <1>4, <2>1, <2>2
  <2>4. \A e \in Jobs : QuietRequest(e)
    BY <1>1, <1>3, <2>2, <2>3 DEF QuietRequest
  <2>5. QED
    BY <1>1, <2>4, QuietKeeps DEF Quiet, QuietWorker
<1>7. QED
  BY <1>1, <1>5, <1>6 DEF SubmitCheck, SubmitSend

\* Only Task writes records, not the worker's loop around it.
LEMMA WorkerQuiet ==
  ASSUME DInv, PoolInv', NEW w \in Workers, Take(w) \/ Exit(w) \/ Respond(w),
         UNCHANGED <<tracked, record>>
  PROVE  DInv'
<1>1. /\ UNCHANGED <<caller, outcome>>
      /\ \A v \in Workers \ {w} : worker'[v] = worker[v]
      /\ worker[w].pc # "busy"
  <2>1. worker' = [worker EXCEPT ![w] = worker'[w]] /\ worker[w].pc # "busy"
    BY DEF Take, Exit, Respond, DInv, PoolInv, PoolTypeOK
  <2>2. QED
    BY <2>1 DEF Take, Exit, Respond, DInv, PoolInv, PoolTypeOK
<1>2. worker \in [Workers -> [pc : WorkerPcs, job : Jobs \cup {NoJob},
                             retries : 0..MaxRetries + 1]]
      /\ queue \in Seq(Jobs)
  BY DEF DInv, PoolInv, PoolTypeOK
<1>3. CASE Take(w)
  <2>1. /\ queue # <<>> /\ queue' = Tail(queue) /\ worker[w].pc = "idle"
        /\ worker' = [worker EXCEPT ![w] = [pc |-> "run", job |-> Head(queue), retries |-> 0]]
        /\ \A i, j \in 1..Len(queue) : queue[i] = queue[j] => i = j
    BY <1>3 DEF Take, DInv, PoolInv, OnePlace
  <2>2. PICK d \in Jobs : d = Head(queue)
    BY <1>2, <2>1, Tailed
  <2>3. Queued(d) /\ \A e \in Jobs : Queued(e)' <=> e # d /\ Queued(e)
    <3>1. /\ \E i \in 1..Len(queue) : queue[i] = Head(queue)
          /\ \A e \in Jobs : (\E i \in 1..Len(queue') : queue'[i] = e)
                             <=> e # Head(queue) /\ \E i \in 1..Len(queue) : queue[i] = e
      <4>1. queue \in Seq(Jobs) /\ queue # <<>>
        BY <1>2, <2>1
      <4>2. \A i, j \in 1..Len(queue) : queue[i] = queue[j] => i = j
        BY <2>1
      <4>3. QED
        BY <4>1, <4>2, Tailed, <2>1
    <3>2. QED
      BY <2>2, <3>1 DEF Queued
  <2>4. worker'[w].pc = "run" /\ worker'[w].job = d
    BY <1>2, <2>1, <2>2
  <2>5. worker[w].job = NoJob
    BY <2>1 DEF DInv, PoolInv, WorkerShape
  <2>6. \A e \in Jobs : Held(e)' <=> e = d \/ Held(e)
    BY <1>1, <2>4, <2>5, PoolAssumption DEF Held
  <2>7. \A e \in Jobs : caller'[e] = "accepted" =>
          Queued(e)' \/ Held(e)' \/ (caller[e] = "accepted" /\ ~Queued(e) /\ ~Held(e))
    BY <1>1, <2>3, <2>6
  <2>8. \A e \in Jobs : QuietRequest(e)
    BY <1>1, <2>3, <2>7 DEF QuietRequest
  <2>9. \A v \in Workers : QuietWorker(v)
    BY <1>1, <2>3, <2>4 DEF QuietWorker
  <2>10. QED
    BY <1>1, <2>8, <2>9, QuietKeeps DEF Quiet
<1>4. CASE Exit(w)
  <2>1. worker'[w].pc = "exited" /\ worker'[w].job = worker[w].job /\ UNCHANGED queue
    BY <1>2, <1>4 DEF Exit
  <2>2. \A e \in Jobs : Held(e)' = Held(e) /\ Queued(e)' = Queued(e)
    BY <1>1, <2>1 DEF Held, Queued
  <2>3. \A e \in Jobs : caller'[e] = "accepted" =>
          Queued(e)' \/ Held(e)' \/ (caller[e] = "accepted" /\ ~Queued(e) /\ ~Held(e))
    BY <1>1, <2>2
  <2>4. \A e \in Jobs : QuietRequest(e)
    BY <1>1, <2>2, <2>3 DEF QuietRequest
  <2>5. \A v \in Workers : QuietWorker(v)
    BY <1>1, <2>1 DEF QuietWorker
  <2>6. QED
    BY <1>1, <2>4, <2>5, QuietKeeps DEF Quiet
<1>5. CASE Respond(w)
  <2>1. worker[w].pc = "respond" /\ worker'[w] = Idle /\ UNCHANGED queue
    BY <1>2, <1>5 DEF Respond
  <2>2. \A e \in Jobs : Queued(e)' = Queued(e)
    BY <2>1 DEF Queued
  <2>3. \A e \in Jobs : Held(e) => Held(e)' \/ worker[w].job = e
    BY <1>1 DEF Held
  <2>4. \A e \in Jobs : caller'[e] = "accepted" =>
          \/ Queued(e)' \/ Held(e)'
          \/ caller[e] = "accepted" /\ ~Queued(e)
               /\ (Held(e) => \E v \in Workers :
                                worker[v].job = e /\ worker[v].pc = "respond")
    BY <1>1, <2>1, <2>2, <2>3
  <2>5. worker'[w].pc = "idle"
    BY <2>1 DEF Idle
  <2>6. \A e \in Jobs : QuietRequest(e)
    BY <1>1, <2>2, <2>4 DEF QuietRequest
  <2>7. \A v \in Workers : QuietWorker(v)
    BY <1>1, <2>5 DEF QuietWorker
  <2>8. QED
    BY <1>1, <2>6, <2>7, QuietKeeps DEF Quiet
<1>6. QED
  BY <1>3, <1>4, <1>5

\* Stop writes no record.
LEMMA StoppingQuiet ==
  ASSUME DInv, PoolInv', Stopping
  PROVE  DInv'
<1>1. UNCHANGED <<caller, queue, worker, response, outcome, tracked, record>>
  BY DEF Stopping, StopReturn, Stop, StopDone, StopTimeout
<1>2. \A e \in Jobs : Queued(e)' = Queued(e) /\ Held(e)' = Held(e)
  BY <1>1 DEF Queued, Held
<1>3. \A e \in Jobs : caller'[e] = "accepted" =>
        Queued(e)' \/ Held(e)' \/ (caller[e] = "accepted" /\ ~Queued(e) /\ ~Held(e))
  BY <1>1, <1>2
<1>4. \A e \in Jobs : QuietRequest(e)
  BY <1>1, <1>2, <1>3 DEF QuietRequest
<1>5. QED
  BY <1>1, <1>4, QuietKeeps DEF Quiet, QuietWorker

\* A worker that runs a job is the only one to hold it, and it is in no queue.
LEMMA RunningJob ==
  ASSUME DInv, NEW w \in Workers, worker[w].pc \in {"run", "busy"}
  PROVE  \E d \in Jobs :
           /\ worker[w].job = d
           /\ caller[d] = "accepted" /\ ~Queued(d)
           /\ \A v \in Workers \ {w} : worker[v].job # d
<1>1. PICK d \in Jobs : worker[w].job = d
  BY DEF DInv, PoolInv, PoolTypeOK, WorkerShape
<1>2. caller[d] = "accepted" /\ ~Queued(d)
  BY <1>1 DEF DInv, PoolInv, OnePlace, Held
<1>3. \A v \in Workers \ {w} : worker[v].job # d
  BY <1>1, PoolAssumption DEF DInv, PoolInv, OnePlace
<1>4. QED
  BY <1>1, <1>2, <1>3

\* Task marks the record it works on, and no other (the closure of
\* GlacierInitiateAsyncDownload, at its start).
LEMMA BeginKeeps ==
  ASSUME DInv, PoolInv', NEW w \in Workers, BeginDownload(w)
  PROVE  DInv'
<1>1. worker[w].pc = "run"
  BY DEF BeginDownload, BeginTask
<1>2. PICK d \in Jobs :
        /\ worker[w].job = d
        /\ caller[d] = "accepted" /\ ~Queued(d)
        /\ \A v \in Workers \ {w} : worker[v].job # d
  BY <1>1, RunningJob
<1>3. /\ worker \in [Workers -> [pc : WorkerPcs, job : Jobs \cup {NoJob},
                                retries : 0..MaxRetries + 1]]
      /\ record \in [Jobs -> [status : Statuses, end : EndTimes, error : BOOLEAN]]
  BY DEF DInv, TypeOK, PoolTypeOK
<1>4. /\ worker' = [worker EXCEPT ![w].pc = "busy"]
      /\ record' = [record EXCEPT ![d].status = "processing"]
      /\ UNCHANGED <<caller, queue, response, outcome, ctxDone, stopper, tracked>>
  BY <1>2 DEF BeginDownload, BeginTask
<1>5. /\ worker'[w].pc = "busy" /\ worker'[w].job = d
      /\ \A v \in Workers \ {w} : worker'[v] = worker[v]
      /\ record'[d].status = "processing" /\ record'[d].end = record[d].end
      /\ \A e \in Jobs \ {d} : record'[e] = record[e]
  BY <1>2, <1>3, <1>4
<1>6. \A e \in Jobs : /\ Held(e)' = Held(e) /\ Queued(e)' = Queued(e)
                      /\ Answered(e)' = Answered(e)
  BY <1>2, <1>4, <1>5 DEF Held, Queued, Answered
<1>7. TypeOK'
  BY <1>3, <1>4 DEF DInv, PoolInv, TypeOK, Statuses
<1>8. RecordShape'
  <2>1. \A v \in Workers \ {w} : worker[v].pc \in {"run", "respond"} =>
          record'[worker[v].job] = record[worker[v].job]
    BY <1>2, <1>5 DEF DInv, PoolInv, PoolTypeOK, WorkerShape
  <2>2. QED
    BY <1>2, <1>4, <1>5, <1>6, <2>1 DEF DInv, RecordShape
<1>9. RecordsAgree'
  <2>1. RecordOf(d)'
    <3>1. record[d].status \in {"pending", "failed"}
      BY <1>1, <1>2 DEF DInv, RecordShape
    <3>2. record[d].end = "unset" => d \in tracked
      BY <3>1 DEF DInv, RecordsAgree, RecordOf
    <3>3. QED
      BY <1>4, <1>5, <3>2 DEF RecordOf
  <2>2. ASSUME NEW e \in Jobs \ {d}
        PROVE  RecordOf(e)'
    <3>1. (\E v \in Workers : worker'[v].job = e /\ worker'[v].pc = "busy")
            <=> \E v \in Workers : worker[v].job = e /\ worker[v].pc = "busy"
      BY <1>2, <1>5
    <3>2. RecordOf(e)
      BY DEF DInv, RecordsAgree, RecordOf
    <3>3. QED
      BY <1>4, <1>5, <3>1, <3>2 DEF RecordOf
  <2>3. QED
    BY <2>1, <2>2 DEF RecordsAgree, RecordOf
<1>10. EndRecorded'
  <2>1. Held(d)
    BY <1>2 DEF Held
  <2>2. QED
    BY <1>4, <1>5, <1>6, <2>1 DEF DInv, EndRecorded
<1>11. QED
  BY <1>7, <1>8, <1>9, <1>10 DEF DInv

\* An attempt that ends leaves its result in the record, its own and no other
\* (the same closure, where the download has returned).
LEMMA EndKeeps ==
  ASSUME DInv, PoolInv', NEW w \in Workers, NEW ok \in BOOLEAN, EndDownload(w, ok)
  PROVE  DInv'
<1>1. worker[w].pc = "busy"
  BY DEF EndDownload, EndTask
<1>2. PICK d \in Jobs :
        /\ worker[w].job = d
        /\ caller[d] = "accepted" /\ ~Queued(d)
        /\ \A v \in Workers \ {w} : worker[v].job # d
  BY <1>1, RunningJob
<1>3. /\ worker \in [Workers -> [pc : WorkerPcs, job : Jobs \cup {NoJob},
                                retries : 0..MaxRetries + 1]]
      /\ record \in [Jobs -> [status : Statuses, end : EndTimes, error : BOOLEAN]]
      /\ outcome \in [Jobs -> Verdicts]
  BY DEF DInv, TypeOK, PoolTypeOK
<1>4. /\ outcome' = [outcome EXCEPT ![d] = IF ok THEN "ok" ELSE "error"]
      /\ UNCHANGED <<caller, queue, response, ctxDone, stopper, tracked>>
      /\ record' = [record EXCEPT
           ![d] = IF ok
             THEN [@ EXCEPT !.status = "completed", !.end = "recent"]
             ELSE [@ EXCEPT !.status = "failed", !.end = "recent", !.error = TRUE]]
  BY <1>2 DEF EndDownload, EndTask
<1>5. /\ worker'[w].job = d /\ worker'[w].pc \in {"run", "respond"}
      /\ worker'[w].pc = "run" => ~ok
      /\ \A v \in Workers \ {w} : worker'[v] = worker[v]
  BY <1>2, <1>3 DEF EndDownload, EndTask
<1>6. /\ record'[d].status = (IF ok THEN "completed" ELSE "failed")
      /\ record'[d].end = "recent"
      /\ outcome'[d] = (IF ok THEN "ok" ELSE "error")
      /\ \A e \in Jobs \ {d} : record'[e] = record[e] /\ outcome'[e] = outcome[e]
  BY <1>3, <1>4
<1>7. \A e \in Jobs : /\ Held(e)' = Held(e) /\ Queued(e)' = Queued(e)
                      /\ Answered(e)' = Answered(e)
  BY <1>2, <1>4, <1>5 DEF Held, Queued, Answered
<1>8. TypeOK'
  <2>1. record' \in [Jobs -> [status : Statuses, end : EndTimes, error : BOOLEAN]]
    BY <1>3, <1>4 DEF Statuses, EndTimes
  <2>2. QED
    BY <1>4, <2>1 DEF DInv, PoolInv, TypeOK
<1>9. RecordShape'
  <2>1. \A v \in Workers \ {w} : worker[v].pc \in {"run", "respond"} =>
          /\ record'[worker[v].job] = record[worker[v].job]
          /\ outcome'[worker[v].job] = outcome[worker[v].job]
    BY <1>2, <1>6 DEF DInv, PoolInv, PoolTypeOK, WorkerShape
  <2>2. \A v \in Workers :
          /\ worker'[v].pc = "run" => record'[worker'[v].job].status \in {"pending", "failed"}
          /\ worker'[v].pc = "respond" =>
               record'[worker'[v].job].status =
                 IF outcome'[worker'[v].job] = "ok" THEN "completed" ELSE "failed"
    BY <1>5, <1>6, <2>1 DEF DInv, RecordShape
  <2>3. QED
    BY <1>2, <1>4, <1>6, <1>7, <2>2 DEF DInv, RecordShape
<1>10. RecordsAgree'
  <2>1. RecordOf(d)'
    BY <1>2, <1>5, <1>6 DEF RecordOf
  <2>2. ASSUME NEW e \in Jobs \ {d}
        PROVE  RecordOf(e)'
    <3>1. (\E v \in Workers : worker'[v].job = e /\ worker'[v].pc = "busy")
            <=> \E v \in Workers : worker[v].job = e /\ worker[v].pc = "busy"
      BY <1>2, <1>5
    <3>2. RecordOf(e)
      BY DEF DInv, RecordsAgree, RecordOf
    <3>3. QED
      BY <1>4, <1>6, <3>1, <3>2 DEF RecordOf
  <2>3. QED
    BY <2>1, <2>2 DEF RecordsAgree, RecordOf
<1>11. EndRecorded'
  <2>1. Held(d)
    BY <1>2 DEF Held
  <2>2. QED
    BY <1>4, <1>6, <1>7, <2>1 DEF DInv, EndRecorded
<1>12. QED
  BY <1>8, <1>9, <1>10, <1>11 DEF DInv

\* Every step keeps the invariant: the pool's part through PoolNextInv.
LEMMA NextDInv == DInv /\ [Next]_vars => DInv'
<1> SUFFICES ASSUME DInv, [Next]_vars
             PROVE  DInv'
  OBVIOUS
<1>1. PoolInv'
  BY PoolStep, PoolNextInv DEF DInv
<1>2. CASE \E d \in Jobs : Register(d) \/ Submit(d) \/ Age(d)
  BY <1>1, <1>2, RegisterAgeKeeps, SubmitQuiet
<1>3. CASE \E w \in Workers : Worker(w)
  BY <1>1, <1>3, WorkerQuiet, BeginKeeps, EndKeeps DEF Worker, DownloadLoop
<1>4. CASE Stopping
  BY <1>1, <1>4, StoppingQuiet
<1>5. CASE UNCHANGED vars
  BY <1>5 DEF vars, poolVars, DInv, PoolInv, PoolTypeOK, WorkerShape, OnePlace,
     AnswerTruthful, StopWaits, TypeOK, RecordShape, RecordsAgree, RecordOf, EndRecorded,
     Queued, Held, Answered
<1>6. QED
  BY <1>2, <1>3, <1>4, <1>5 DEF Next

\* The invariant holds of the downloads.
THEOREM Invariant == Spec => []DInv
BY InitDInv, NextDInv, PTL DEF Spec

-----------------------------------------------------------------------------
(* What follows.                                                           *)

\* The state keeps its types, and the queue its limit.
THEOREM TypeTheorem == Spec => []TypeOK
BY Invariant, PTL DEF DInv

\* A status request is told what the pool is doing with the download it
\* accepted (GlacierCheckDownloadStatus against the closure the pool runs).
THEOREM StatusTheorem == Spec => []StatusTruthful
<1>1. DInv => StatusTruthful
  BY DEF DInv, RecordShape, RecordsAgree, RecordOf, StatusTruthful
<1>2. QED
  BY <1>1, Invariant, PTL

\* A download that is over says how it ended, in its record and to the pool.
THEOREM EndTheorem == Spec => []EndRecorded
BY Invariant, PTL DEF DInv

\* "completed" is the last status of a record: only a worker with a job to run
\* writes it, and that job is not completed.
THEOREM CompletedTheorem == Spec => CompletedFinal
<1>1. ASSUME DInv, [Next]_vars, NEW d \in Jobs, record[d].status = "completed"
      PROVE  record'[d].status = "completed"
  <2>1. record \in [Jobs -> [status : Statuses, end : EndTimes, error : BOOLEAN]]
    BY <1>1 DEF DInv, TypeOK
  <2>2. ASSUME NEW e \in Jobs, Register(e) \/ Submit(e) \/ Age(e)
        PROVE  record'[d].status = "completed"
    BY <1>1, <2>1, <2>2 DEF Register, Submit, Age
  <2>3. ASSUME NEW w \in Workers, BeginDownload(w)
        PROVE  record'[d].status = "completed"
    <3>1. worker[w].pc = "run" /\ worker[w].job # d
      BY <1>1, <2>3 DEF BeginDownload, BeginTask, DInv, RecordShape
    <3>2. QED
      BY <1>1, <2>1, <2>3, <3>1 DEF BeginDownload
  <2>4. ASSUME NEW w \in Workers, NEW ok \in BOOLEAN, EndDownload(w, ok)
        PROVE  record'[d].status = "completed"
    <3>1. worker[w].pc = "busy" /\ worker[w].job # d
      BY <1>1, <2>4 DEF EndDownload, EndTask, DInv, RecordsAgree, RecordOf
    <3>2. QED
      BY <1>1, <2>1, <2>4, <3>1 DEF EndDownload
  <2>5. ASSUME NEW w \in Workers, Worker(w)
        PROVE  record'[d].status = "completed"
    BY <1>1, <2>3, <2>4, <2>5 DEF Worker, DownloadLoop
  <2>6. CASE Stopping \/ UNCHANGED vars
    BY <1>1, <2>6 DEF Stopping, StopReturn, vars
  <2>7. QED
    BY <1>1, <2>2, <2>5, <2>6 DEF Next
<1>2. DInv /\ [Next]_vars =>
        [\A d \in Jobs : record[d].status = "completed" => record'[d].status = "completed"]_vars
  BY <1>1
<1>3. QED
  BY <1>2, Invariant, PTL DEF Spec, CompletedFinal
=============================================================================
