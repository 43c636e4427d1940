----------------------------- MODULE BatchProofs -----------------------------
(***************************************************************************)
(* Proofs about BatchProcessor, for any items, batch size, channel and     *)
(* number of retries.                                                      *)
(***************************************************************************)
EXTENDS BatchProcessor, QueueLemmas, FiniteSetTheorems, TLAPS

\* What the loop holds has been tried as often as the counter of retries says,
\* and failed each time; while the loop gathers, that is never, and there is
\* room in the batch.
BatchShape ==
  /\ \A d \in Items :
       /\ Held(d) => tries[d] = retries
       /\ Held(d) /\ tries[d] > 0 => result[d] = "failed"
       /\ tries[d] = 0 => result[d] = "none"
  /\ loop = "select" => retries = 0 /\ Cardinality(batch) < BatchSize

BatchInv == TypeOK /\ BatchShape /\ NothingDropped /\ GivenUpAfterRetries

-----------------------------------------------------------------------------
(* The inductive invariant.                                                *)

\* A batch is finite, and so is what of it failed.
LEMMA BatchFinite ==
  ASSUME NEW B, B \subseteq Items
  PROVE  IsFiniteSet(B) /\ Cardinality(B) \in Nat
BY BatchAssumption, FS_Subset, FS_CardinalityType

\* NewBatchProcessor starts with nothing gathered.
LEMMA BatchInitInv == BatchInit => BatchInv
<1> SUFFICES ASSUME BatchInit
             PROVE  BatchInv
  OBVIOUS
<1>1. Cardinality(batch) = 0
  BY FS_EmptySet DEF BatchInit
<1>2. TypeOK
  <2>1. items \in Seq(Items) /\ Len(items) = 0
    BY DEF BatchInit
  <2>2. Len(items) <= QueueSize /\ Cardinality(batch) <= BatchSize /\ 0 \in 0 .. MaxRetries
    BY <1>1, <2>1, BatchAssumption
  <2>3. QED
    BY <2>1, <2>2 DEF BatchInit, TypeOK, AdderStates
<1>3. BatchShape
  BY <1>1, BatchAssumption DEF BatchInit, BatchShape, Held
<1>4. NothingDropped
  BY DEF BatchInit, NothingDropped, Held, Queued
<1>5. GivenUpAfterRetries
  BY BatchAssumption DEF BatchInit, GivenUpAfterRetries
<1>6. QED
  BY <1>2, <1>3, <1>4, <1>5 DEF BatchInv

\* An Add that is not the one of an accepted item moves no item.
LEMMA AddKeeps ==
  ASSUME BatchInv, NEW d \in Items, Add(d)
  PROVE  BatchInv'
<1>1. UNCHANGED <<batch, loop, leaving, retries, tries, result, ctxDone, closed, stopper>>
  BY DEF Add, AddSend, AddWait, AddReject, AddPanic
<1>2. BatchShape' /\ GivenUpAfterRetries'
  BY <1>1 DEF BatchInv, BatchShape, GivenUpAfterRetries, Held
<1>3. adder \in [Items -> AdderStates] /\ adder[d] = "new"
  BY DEF Add, AddSend, AddWait, AddReject, AddPanic, BatchInv, TypeOK
<1>4. ~Held(d) /\ ~Queued(d) /\ tries[d] = 0
  BY <1>3 DEF BatchInv, NothingDropped
<1>5. CASE AddSend(d)
  <2>1. adder' = [adder EXCEPT ![d] = "added"] /\ items' = Append(items, d) /\ Len(items) < QueueSize
    BY <1>5 DEF AddSend
  <2>2. /\ items' \in Seq(Items) /\ Len(items') = Len(items) + 1
        /\ \A i, j \in 1 .. Len(items') : items'[i] = items'[j] => i = j
        /\ \A e \in Items : Queued(e)' <=> e = d \/ Queued(e)
    BY <1>4, <2>1, Appended DEF BatchInv, TypeOK, NothingDropped, Queued
  <2>3. TypeOK'
    BY <1>1, <1>3, <2>1, <2>2, BatchAssumption DEF BatchInv, TypeOK, AdderStates
  <2>4. NothingDropped'
    BY <1>1, <1>3, <1>4, <2>1, <2>2 DEF BatchInv, NothingDropped, Held
  <2>5. QED
    BY <1>2, <2>3, <2>4 DEF BatchInv
<1>6. CASE ~AddSend(d)
  <2>1. PICK a \in AdderStates \ {"added"} : adder' = [adder EXCEPT ![d] = a]
    BY <1>6 DEF Add, AddWait, AddReject, AddPanic, AdderStates
  <2>2. UNCHANGED items
    BY <1>6 DEF Add, AddWait, AddReject, AddPanic
  <2>3. TypeOK'
    BY <1>1, <1>3, <2>1, <2>2 DEF BatchInv, TypeOK
  <2>4. NothingDropped'
    BY <1>1, <1>3, <2>1, <2>2 DEF BatchInv, NothingDropped, Held, Queued
  <2>5. QED
    BY <1>2, <2>3, <2>4 DEF BatchInv
<1>7. QED
  BY <1>5, <1>6

\* A receive takes the head out of the channel and may let one waiting Add in.
LEMMA ReceiveEffect ==
  ASSUME BatchInv, items # <<>>, Receive
  PROVE  /\ Head(items) \in Items /\ Queued(Head(items))
         /\ items' \in Seq(Items) /\ Len(items') <= QueueSize
         /\ \A i, j \in 1 .. Len(items') : items'[i] = items'[j] => i = j
         /\ adder' \in [Items -> AdderStates]
         /\ \A d \in Items :
              \/ /\ adder'[d] = adder[d]
                 /\ Queued(d)' <=> d # Head(items) /\ Queued(d)
              \/ adder[d] = "waiting" /\ adder'[d] = "added" /\ Queued(d)'
<1>1. /\ items \in Seq(Items) /\ Len(items) <= QueueSize
      /\ \A i, j \in 1 .. Len(items) : items[i] = items[j] => i = j
      /\ adder \in [Items -> AdderStates]
  BY DEF BatchInv, TypeOK, NothingDropped
<1>2. /\ Head(items) \in Items /\ Queued(Head(items))
      /\ Tail(items) \in Seq(Items) /\ Len(Tail(items)) = Len(items) - 1
      /\ \A i, j \in 1 .. Len(Tail(items)) : Tail(items)[i] = Tail(items)[j] => i = j
      /\ \A e \in Items : (\E i \in 1 .. Len(Tail(items)) : Tail(items)[i] = e) <=> e # Head(items) /\ Queued(e)
  BY <1>1, Tailed DEF Queued
<1>3. Len(items) \in Nat /\ QueueSize \in Nat
  BY <1>1, BatchAssumption
<1>4. CASE items' = Tail(items) /\ UNCHANGED adder
  <2>1. \A e \in Items : Queued(e)' <=> e # Head(items) /\ Queued(e)
    BY <1>2, <1>4 DEF Queued
  <2>2. QED
    BY <1>1, <1>2, <1>3, <1>4, <2>1
<1>5. CASE \E d \in Waiting : items' = Append(Tail(items), d) /\ adder' = [adder EXCEPT ![d] = "added"]
  <2>1. PICK d \in Waiting : items' = Append(Tail(items), d) /\ adder' = [adder EXCEPT ![d] = "added"]
    BY <1>5
  <2>2. d \in Items /\ adder[d] = "waiting"
    BY DEF Waiting
  <2>3. ~Queued(d)
    BY <2>2 DEF BatchInv, NothingDropped
  <2>4. /\ items' \in Seq(Items) /\ Len(items') = Len(Tail(items)) + 1
        /\ \A i, j \in 1 .. Len(items') : items'[i] = items'[j] => i = j
        /\ \A e \in Items : Queued(e)' <=> e = d \/ (e # Head(items) /\ Queued(e))
    <3>1. \A i \in 1 .. Len(Tail(items)) : Tail(items)[i] # d
      BY <1>2, <2>2, <2>3
    <3>2. PICK t : t = Tail(items)
      OBVIOUS
    <3>3. /\ t \in Seq(Items) /\ items' = Append(t, d)
          /\ \A i \in 1 .. Len(t) : t[i] # d
          /\ \A i, j \in 1 .. Len(t) : t[i] = t[j] => i = j
      BY <1>2, <2>1, <3>1, <3>2
    <3>4. /\ items' \in Seq(Items) /\ Len(items') = Len(t) + 1
          /\ \A i, j \in 1 .. Len(items') : items'[i] = items'[j] => i = j
          /\ \A e \in Items : (\E i \in 1 .. Len(items') : items'[i] = e)
                               <=> e = d \/ \E i \in 1 .. Len(t) : t[i] = e
      BY <2>2, <3>3, Appended
    <3>5. \A e \in Items : Queued(e)' <=> e = d \/ (e # Head(items) /\ Queued(e))
      BY <1>2, <3>2, <3>4 DEF Queued
    <3>6. QED
      BY <3>2, <3>4, <3>5
  <2>5. adder' \in [Items -> AdderStates] /\ adder'[d] = "added" /\ \A e \in Items \ {d} : adder'[e] = adder[e]
    BY <1>1, <2>1, <2>2 DEF AdderStates
  <2>6. QED
    BY <1>1, <1>2, <1>3, <2>2, <2>4, <2>5
<1>6. QED
  BY <1>4, <1>5 DEF Receive

\* An item the loop receives moves from the channel to the batch.
LEMMA GatherKeeps ==
  ASSUME BatchInv, Gather
  PROVE  BatchInv'
<1> DEFINE h == Head(items)
<1>1. /\ items # <<>> /\ Receive /\ loop = "select" /\ retries = 0 /\ retries' = 0
      /\ batch' = batch \cup {h}
      /\ UNCHANGED <<leaving, tries, result, ctxDone, closed, stopper>>
  BY DEF Gather, BatchInv, BatchShape
<1>2. /\ h \in Items /\ Queued(h)
      /\ items' \in Seq(Items) /\ Len(items') <= QueueSize
      /\ \A i, j \in 1 .. Len(items') : items'[i] = items'[j] => i = j
      /\ adder' \in [Items -> AdderStates]
      /\ \A d \in Items :
           \/ /\ adder'[d] = adder[d]
              /\ Queued(d)' <=> d # h /\ Queued(d)
           \/ adder[d] = "waiting" /\ adder'[d] = "added" /\ Queued(d)'
  BY <1>1, ReceiveEffect
<1>3. adder[h] = "added" /\ ~Held(h) /\ tries[h] = 0 /\ result[h] = "none"
  BY <1>2 DEF BatchInv, NothingDropped, BatchShape
<1>4. /\ IsFiniteSet(batch) /\ Cardinality(batch) \in Nat
      /\ Cardinality(batch') = Cardinality(batch) + 1
      /\ Cardinality(batch) < BatchSize
  <2>1. batch \subseteq Items /\ Cardinality(batch) < BatchSize
    BY <1>1 DEF BatchInv, TypeOK, BatchShape
  <2>2. IsFiniteSet(batch) /\ Cardinality(batch) \in Nat
    BY <2>1, BatchFinite
  <2>3. h \notin batch
    BY <1>3 DEF Held
  <2>4. QED
    BY <1>1, <2>1, <2>2, <2>3, FS_AddElement
<1>5. loop' = (IF Cardinality(batch') >= BatchSize THEN "process" ELSE "select")
  BY DEF Gather
<1>6. \A d \in Items : Held(d)' <=> d = h \/ Held(d)
  BY <1>1 DEF Held
<1>7. TypeOK'
  <2>1. batch' \subseteq Items /\ Cardinality(batch') <= BatchSize
    BY <1>1, <1>2, <1>4, BatchAssumption DEF BatchInv, TypeOK
  <2>2. QED
    BY <1>1, <1>2, <1>5, <2>1 DEF BatchInv, TypeOK
<1>8. BatchShape'
  <2>1. loop' = "select" => Cardinality(batch') < BatchSize
    BY <1>4, <1>5, BatchAssumption
  <2>2. QED
    BY <1>1, <1>3, <1>6, <2>1 DEF BatchInv, BatchShape
<1>9. NothingDropped'
  <2>1. loop' # "exited"
    BY <1>5
  <2>2. QED
    BY <1>1, <1>2, <1>3, <1>6, <2>1 DEF BatchInv, NothingDropped
<1>10. GivenUpAfterRetries'
  BY <1>1, <1>3, <1>6 DEF BatchInv, GivenUpAfterRetries
<1>11. QED
  BY <1>7, <1>8, <1>9, <1>10 DEF BatchInv

\* The timer, the last flush, the end of a delay and Stop move no item.
LEMMA ControlKeeps ==
  ASSUME BatchInv, Timer \/ LastFlush \/ Wake \/ Stop
  PROVE  BatchInv'
<1>1. /\ UNCHANGED <<items, batch, tries, result>>
      /\ retries' = retries
      /\ loop' \in {"select", "process", "sleep", "exited"}
      /\ loop' = "select" => loop = "select"
      /\ loop' = "exited" => batch = {}
      /\ leaving' \in BOOLEAN /\ ctxDone' \in BOOLEAN /\ closed' \in BOOLEAN
      /\ stopper' \in {"running", "cancelled", "waiting", "stopped"}
  <2>1. CASE Timer \/ Wake
    BY <2>1 DEF Timer, Wake, BatchInv, BatchShape, TypeOK
  <2>2. CASE LastFlush
    BY <2>2 DEF LastFlush, BatchInv, BatchShape, TypeOK
  <2>3. CASE Stop
    BY <2>3 DEF Stop, Cancel, Close, Stopped, BatchInv, TypeOK, NothingDropped
  <2>4. QED
    BY <2>1, <2>2, <2>3
<1>2. adder' \in [Items -> AdderStates] /\ \A d \in Items : adder'[d] = "added" <=> adder[d] = "added"
  <2>1. CASE Cancel
    BY <2>1 DEF Cancel, Waiting, BatchInv, TypeOK, AdderStates
  <2>2. CASE ~Cancel
    BY <2>2 DEF Timer, LastFlush, Wake, Stop, Close, Stopped, BatchInv, TypeOK
  <2>3. QED
    BY <2>1, <2>2
<1>3. TypeOK'
  BY <1>1, <1>2 DEF BatchInv, TypeOK
<1>4. BatchShape' /\ GivenUpAfterRetries'
  BY <1>1 DEF BatchInv, BatchShape, GivenUpAfterRetries, Held
<1>5. NothingDropped'
  BY <1>1, <1>2 DEF BatchInv, NothingDropped, Held, Queued
<1>6. QED
  BY <1>3, <1>4, <1>5 DEF BatchInv

\* An attempt: what failed and has retries left stays, everything else of the
\* batch is done with.
LEMMA ProcessKeeps ==
  ASSUME BatchInv, NEW failed \in SUBSET batch, Process(failed)
  PROVE  BatchInv'
<1>1. /\ loop = "process" /\ failed \subseteq batch /\ batch \subseteq Items
      /\ Retry(failed, failed)
      /\ UNCHANGED <<adder, items, leaving, ctxDone, closed, stopper>>
      /\ tries \in [Items -> Nat] /\ result \in [Items -> {"none", "ok", "failed"}]
      /\ retries \in 0 .. MaxRetries /\ MaxRetries \in Nat
  BY BatchAssumption DEF Process, BatchInv, TypeOK
<1>2. /\ tries' \in [Items -> Nat] /\ result' \in [Items -> {"none", "ok", "failed"}]
      /\ \A d \in Items : IF Held(d)
                          THEN /\ tries'[d] = tries[d] + 1
                               /\ result'[d] = IF d \in failed THEN "failed" ELSE "ok"
                          ELSE tries'[d] = tries[d] /\ result'[d] = result[d]
  BY <1>1 DEF Process, Attempted, Held
<1>3. CASE failed = {} \/ retries + 1 > MaxRetries
  <2>1. batch' = {} /\ loop' \in {"exited", "select"} /\ retries' = 0
    BY <1>1, <1>3 DEF Retry
  <2>2. Cardinality(batch') = 0
    BY <2>1, FS_EmptySet
  <2>3. \A d \in Items : ~Held(d)' /\ (Queued(d)' <=> Queued(d))
    BY <1>1, <2>1 DEF Held, Queued
  <2>4. TypeOK'
    BY <1>1, <1>2, <2>1, <2>2, BatchAssumption DEF BatchInv, TypeOK
  <2>5. BatchShape'
    BY <1>1, <1>2, <2>1, <2>2, <2>3, BatchAssumption DEF BatchInv, BatchShape
  <2>6. NothingDropped'
    BY <1>1, <1>2, <2>1, <2>3 DEF BatchInv, NothingDropped
  <2>7. GivenUpAfterRetries'
    <3> SUFFICES ASSUME NEW d \in Items
                 PROVE  /\ tries'[d] <= MaxRetries + 1
                        /\ (tries'[d] > 0 /\ ~Held(d)') => (result'[d] = "ok" \/ tries'[d] = MaxRetries + 1)
      BY DEF GivenUpAfterRetries
    <3>1. CASE Held(d)
      <4>1. tries[d] = retries /\ (failed = {} => result'[d] = "ok")
        BY <1>2, <3>1 DEF BatchInv, BatchShape
      <4>2. retries + 1 > MaxRetries => retries + 1 = MaxRetries + 1
        BY <1>1
      <4>3. QED
        BY <1>1, <1>2, <1>3, <3>1, <4>1, <4>2
    <3>2. CASE ~Held(d)
      BY <1>2, <3>2 DEF BatchInv, GivenUpAfterRetries
    <3>3. QED
      BY <3>1, <3>2
  <2>8. QED
    BY <2>4, <2>5, <2>6, <2>7 DEF BatchInv
<1>4. CASE ~(failed = {} \/ retries + 1 > MaxRetries)
  <2>1. batch' = failed /\ loop' = "sleep" /\ retries' = retries + 1 /\ retries' \in 0 .. MaxRetries
    BY <1>1, <1>4 DEF Retry
  <2>2. Cardinality(batch') <= BatchSize
    <3>1. IsFiniteSet(batch) /\ Cardinality(batch) \in Nat /\ Cardinality(failed) \in Nat
      BY <1>1, BatchFinite
    <3>2. Cardinality(failed) <= Cardinality(batch)
      BY <1>1, <3>1, FS_Subset
    <3>3. QED
      BY <2>1, <3>1, <3>2, BatchAssumption DEF BatchInv, TypeOK
  <2>3. \A d \in Items : (Held(d)' <=> d \in failed) /\ (Held(d)' => Held(d)) /\ (Queued(d)' <=> Queued(d))
    BY <1>1, <2>1 DEF Held, Queued
  <2>4. TypeOK'
    BY <1>1, <1>2, <2>1, <2>2 DEF BatchInv, TypeOK
  <2>5. BatchShape'
    BY <1>1, <1>2, <2>1, <2>3 DEF BatchInv, BatchShape
  <2>6. NothingDropped'
    BY <1>1, <1>2, <2>1, <2>3 DEF BatchInv, NothingDropped
  <2>7. GivenUpAfterRetries'
    <3> SUFFICES ASSUME NEW d \in Items
                 PROVE  /\ tries'[d] <= MaxRetries + 1
                        /\ (tries'[d] > 0 /\ ~Held(d)') => (result'[d] = "ok" \/ tries'[d] = MaxRetries + 1)
      BY DEF GivenUpAfterRetries
    <3>1. CASE Held(d)
      <4>1. tries[d] = retries
        BY <3>1 DEF BatchInv, BatchShape
      <4>2. QED
        BY <1>1, <1>2, <2>3, <3>1, <4>1
    <3>2. CASE ~Held(d)
      BY <1>2, <3>2 DEF BatchInv, GivenUpAfterRetries
    <3>3. QED
      BY <3>1, <3>2
  <2>8. QED
    BY <2>4, <2>5, <2>6, <2>7 DEF BatchInv
<1>5. QED
  BY <1>3, <1>4

\* Every step of the package keeps the invariant.
LEMMA BatchStepInv == BatchInv /\ [BatchNext]_batchVars => BatchInv'
<1> SUFFICES ASSUME BatchInv, [BatchNext]_batchVars
             PROVE  BatchInv'
  OBVIOUS
<1>1. CASE UNCHANGED batchVars
  BY <1>1 DEF batchVars, BatchInv, TypeOK, BatchShape, NothingDropped, GivenUpAfterRetries, Held, Queued
<1>2. CASE \E d \in Items : Add(d)
  BY <1>2, AddKeeps
<1>3. CASE Gather
  BY <1>3, GatherKeeps
<1>4. CASE Timer \/ LastFlush \/ Wake \/ Stop
  BY <1>4, ControlKeeps
<1>5. CASE \E failed \in SUBSET batch : Process(failed)
  BY <1>5, ProcessKeeps
<1>6. QED
  BY <1>1, <1>2, <1>3, <1>4, <1>5 DEF BatchNext, ProcessBatches

\* The invariant holds throughout.
LEMMA BatchInvariant == BatchSpec => []BatchInv
<1>1. QED
  BY BatchInitInv, BatchStepInv, PTL DEF BatchSpec

-----------------------------------------------------------------------------
(* The theorems.                                                           *)

\* The channel and the batch stay within their sizes and the retries within
\* their number (processBatches, processBatchWithRetry).
THEOREM BatchTypeTheorem == BatchSpec => []TypeOK
<1>1. BatchInv => TypeOK
  BY DEF BatchInv
<1>2. QED
  BY <1>1, BatchInvariant, PTL

\* What Add took is in one place until it has been processed, and the loop
\* never returns with a batch in hand, whenever Stop is called.
THEOREM NothingDroppedTheorem == BatchSpec => []NothingDropped
<1>1. BatchInv => NothingDropped
  BY DEF BatchInv
<1>2. QED
  BY <1>1, BatchInvariant, PTL

\* An item is given up only after its first attempt and every retry failed.
THEOREM GivenUpTheorem == BatchSpec => []GivenUpAfterRetries
<1>1. BatchInv => GivenUpAfterRetries
  BY DEF BatchInv
<1>2. QED
  BY <1>1, BatchInvariant, PTL

\* An item that succeeded is not processed again for a neighbour's failure.
THEOREM NotRetriedTheorem == BatchSpec => SucceededNotRetried
<1>1. ASSUME BatchInv, [BatchNext]_batchVars, NEW d \in Items, result[d] = "ok"
      PROVE  tries'[d] = tries[d]
  <2>1. ~Held(d)
    <3>1. tries \in [Items -> Nat]
      BY <1>1 DEF BatchInv, TypeOK
    <3>2. tries[d] = 0 \/ tries[d] > 0
      BY <3>1
    <3>3. QED
      BY <1>1, <3>2 DEF BatchInv, BatchShape
  <2>2. CASE \E failed \in SUBSET batch : Process(failed)
    BY <2>1, <2>2 DEF Process, Attempted, Held
  <2>3. CASE ~(\E failed \in SUBSET batch : Process(failed))
    BY <1>1, <2>3 DEF BatchNext, ProcessBatches, Add, AddSend, AddWait, AddReject, AddPanic, Gather,
                      Timer, LastFlush, Wake, Stop, Cancel, Close, Stopped, batchVars
  <2>4. QED
    BY <2>2, <2>3
<1>2. BatchInv /\ [BatchNext]_batchVars => [\A d \in Items : result[d] = "ok" => tries'[d] = tries[d]]_batchVars
  BY <1>1
<1>3. QED
  BY <1>2, BatchInvariant, PTL DEF BatchSpec, SucceededNotRetried
=============================================================================
