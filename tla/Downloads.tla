----------------------------- MODULE Downloads -----------------------------
(***************************************************************************)
(* The asynchronous Glacier downloads of handler/aws.go: a map of job      *)
(* records beside the worker pool that runs the downloads.  A job of the   *)
(* pool is one request to download; its Task writes the record under       *)
(* jobsMu, a status request reads it while it is tracked.                  *)
(***************************************************************************)
EXTENDS WorkerPool

VARIABLES
  tracked,  \* the keys of downloadJobs
  record    \* record[d]: the DownloadJob itself, also when no longer tracked

vars == <<poolVars, tracked, record>>

Statuses == {"none", "pending", "processing", "completed", "failed"}

\* EndTime, against the cutoff of an hour ago.
EndTimes == {"unset", "recent", "old"}

Init == /\ PoolInit
        /\ tracked = {}
        /\ record = [d \in Jobs |-> [status |-> "none", end |-> "unset", error |-> FALSE]]

\* GlacierInitiateAsyncDownload, up to its jobsMu.Unlock: the requests Glacier
\* cannot serve yet have been turned away, finished jobs are pruned.
Register(d) ==
  /\ record[d].status = "none"
  /\ record' = [record EXCEPT ![d].status = "pending"]
  /\ tracked' = {j \in tracked : record[j].end # "old"} \cup {d}
  /\ UNCHANGED poolVars

\* The rest of it: a refused job leaves its record as it is.
Submit(d) ==
  /\ record[d].status # "none"
  /\ SubmitCheck(d) \/ SubmitSend(d)
  /\ UNCHANGED <<tracked, record>>

BeginDownload(w) ==
  /\ BeginTask(w)
  /\ record' = [record EXCEPT ![worker[w].job].status = "processing"]
  /\ UNCHANGED tracked

\* Mutation: a failed attempt that will be retried stays "processing".
EndDownload_lastOnly(w, ok) ==
  /\ EndTask(w, ok)
  /\ record' = [record EXCEPT
       ![worker[w].job] = IF ok
         THEN [@ EXCEPT !.status = "completed", !.end = "recent"]
         ELSE IF worker[w].retries < MaxRetries THEN @
         ELSE [@ EXCEPT !.status = "failed", !.end = "recent", !.error = TRUE]]
  /\ UNCHANGED tracked

\* Every attempt writes the record, the error of an earlier one stays.
EndDownload(w, ok) ==
  /\ EndTask(w, ok)
  /\ record' = [record EXCEPT
       ![worker[w].job] = IF ok
         THEN [@ EXCEPT !.status = "completed", !.end = "recent"]
         ELSE [@ EXCEPT !.status = "failed", !.end = "recent", !.error = TRUE]]
  /\ UNCHANGED tracked

\* An hour has passed since the last attempt at d ended.
Age(d) ==
  /\ record[d].end = "recent"
  /\ record' = [record EXCEPT ![d].end = "old"]
  /\ UNCHANGED <<poolVars, tracked>>

\* What a worker does by itself; when a download ends is not its choice.
DownloadLoop(w) ==
  \/ (Take(w) \/ Exit(w) \/ Respond(w)) /\ UNCHANGED <<tracked, record>>
  \/ BeginDownload(w)

Worker(w) == DownloadLoop(w) \/ \E ok \in BOOLEAN : EndDownload(w, ok)

StopReturn == (StopDone \/ StopTimeout) /\ UNCHANGED <<tracked, record>>

Stopping == (Stop /\ UNCHANGED <<tracked, record>>) \/ StopReturn

Next == \/ \E d \in Jobs : Register(d) \/ Submit(d) \/ Age(d)
        \/ \E w \in Workers : Worker(w)
        \/ Stopping

Spec == Init /\ [][Next]_vars

\* The goroutines are scheduled.  Nothing is assumed of the clients, nor of a
\* download: it may hang.
FairSpec == /\ Spec
            /\ \A w \in Workers : WF_vars(DownloadLoop(w))
            /\ WF_vars(StopReturn)

-----------------------------------------------------------------------------
(* Properties                                                              *)

TypeOK ==
  /\ PoolTypeOK
  /\ tracked \subseteq Jobs
  /\ record \in [Jobs -> [status : Statuses, end : EndTimes, error : BOOLEAN]]

\* What a status request answers for a download whose id a client was given,
\* which is one the pool accepted, agrees with what the pool is doing:
\* processing exactly while it runs, pending only before the first attempt,
\* completed and failed after an attempt that did; and it is found until an
\* attempt has ended, whoever registers meanwhile (handler/aws.go
\* GlacierCheckDownloadStatus).  Of a refused download nothing is said.
StatusTruthful ==
  \A d \in Jobs : caller[d] = "accepted" =>
    /\ record[d].status = "processing"
         <=> \E w \in Workers : worker[w].job = d /\ worker[w].pc = "busy"
    /\ record[d].status = "pending" => outcome[d] = "none"
    /\ record[d].status = "completed" => outcome[d] = "ok"
    /\ record[d].status = "failed" => outcome[d] = "error"
    /\ record[d].end = "unset" => d \in tracked

\* A client that has seen "completed" has the file: no later attempt, by this
\* worker or another, takes the record back.
CompletedFinal ==
  [][\A d \in Jobs : record[d].status = "completed" => record'[d].status = "completed"]_vars

\* Once every attempt of an accepted download is over its record says how it
\* ended, and with a failed download the pool has used up its retries.
EndRecorded ==
  \A d \in Jobs :
    caller[d] = "accepted" /\ ~Queued(d) /\ ~Held(d) =>
      /\ record[d].status = IF outcome[d] = "ok" THEN "completed" ELSE "failed"
      /\ Answered(d) \/ ctxDone

=============================================================================
