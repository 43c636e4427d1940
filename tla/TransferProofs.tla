--------------------------- MODULE TransferProofs ---------------------------
(***************************************************************************)
(* Proofs about Transfer, for any buckets, objects, workers, queue size    *)
(* and limit, for every command and with interruptions anywhere.           *)
(***************************************************************************)
EXTENDS Transfer, QueueLemmas, FiniteSetTheorems, TLAPS

-----------------------------------------------------------------------------
(* The inductive invariant.                                                *)

InQueue(o) == \E i \in 1..Len(queue) : queue[i] = o
InHand(o) == \E w \in Workers : worker[w] = o
Pending(o) == InQueue(o) \/ InHand(o) \/ held = o

\* Between two buckets the queue and the workers are empty, and the lister holds
\* an object exactly while it sends it.
Phases ==
  /\ held # None <=> pc = "send"
  /\ pc \in {"prepare", "listing", "send", "drain"} => bucket \in Buckets
  /\ pc = "prepare" => opts.cmd = "restore"
  /\ pc \in {"next", "prepare", "done"} => \A o \in Objects : ~Pending(o)

\* An object is in one place, belongs to the bucket at hand, was listed, and is
\* not finished.
Places ==
  /\ \A o \in Objects : Pending(o) => /\ bucket \in Buckets /\ o \in Contents[bucket]
                                      /\ o \in listed /\ result[o] = "none"
  /\ \A o \in Objects : result[o] # "none" => o \in listed
  /\ \A i, j \in 1..Len(queue) : queue[i] = queue[j] => i = j
  /\ \A v, w \in Workers : worker[v] = worker[w] /\ worker[v] # None => v = w
  /\ \A o \in Objects : InQueue(o) => ~InHand(o) /\ held # o
  /\ \A o \in Objects : InHand(o) => held # o

\* The objects counted in so far, those counted under c, and what the counters
\* say of them.
Admitted == {o \in Objects : Pending(o) \/ result[o] # "none"}
Tally(c) == {o \in Objects : result[o] # "none" /\ Counted(result[o]) = c}

Counts ==
  /\ count["scanned"] = Cardinality(listed)
  /\ count["eligible"] = Cardinality(Admitted)
  /\ count["moved"] = Cardinality(Tally("moved"))
  /\ count["skipped"] = Cardinality(Tally("skipped"))
  /\ Cardinality(Tally("failed")) <= count["failed"]
  /\ count["failed"] <= Cardinality(Tally("failed")) + Cardinality(cut)

\* A bucket is cut short at most once.
Cuts ==
  /\ \A b \in cut : b <= bucket
  /\ pc \in {"next", "prepare", "listing", "send"} => bucket \notin cut

Limited ==
  opts.limit > 0 => opts.cmd # "sweep" /\ count["scanned"] <= opts.limit

\* A run that has reported nothing so far has listed what lies behind it.
Unblemished ==
  /\ opts.cmd # "restore" /\ ~interrupted /\ count["failed"] = 0
  /\ opts.limit = 0 \/ count["scanned"] < opts.limit

Covered ==
  /\ Unblemished =>
       /\ \A b \in Buckets : b < bucket => Contents[b] \subseteq listed
       /\ pc = "drain" => Contents[bucket] \subseteq listed
  /\ pc = "done" => interrupted \/ bucket \notin Buckets

TransferInv ==
  TypeOK /\ Phases /\ Places /\ Counts /\ Cuts /\ Limited /\ Covered

-----------------------------------------------------------------------------
(* The listing goroutine, apart from the objects themselves.               *)

\* Nothing has been listed (the zero report of a run).
LEMMA InitTransferInv == Init => TransferInv
<1> SUFFICES ASSUME Init
             PROVE  TransferInv
  OBVIOUS
<1>1. Len(Contents) \in Nat /\ queue \in Seq(Objects) /\ Len(queue) = 0
      /\ 0 <= QueueSize
  BY TransferAssumption DEF Init
<1>2. /\ count \in [Counters -> Nat]
      /\ count["scanned"] = 0 /\ count["eligible"] = 0
      /\ count["moved"] = 0 /\ count["skipped"] = 0 /\ count["failed"] = 0
  BY DEF Init, Counters, Results
<1>3. TypeOK
  <2>1. pc \in Pcs /\ bucket \in 1..Len(Contents) + 1
    BY <1>1 DEF Init, Pcs
  <2>2. QED
    BY <1>1, <1>2, <2>1 DEF Init, TypeOK
<1>4. \A o \in Objects : ~Pending(o) /\ ~InQueue(o) /\ ~InHand(o)
  BY <1>1, TransferAssumption DEF Init, Pending, InQueue, InHand
<1>5. Phases /\ Places
  BY <1>1, <1>4 DEF Init, Phases, Places
<1>6. Counts
  <2>1. /\ listed = {} /\ Admitted = {} /\ cut = {}
        /\ Tally("moved") = {} /\ Tally("skipped") = {} /\ Tally("failed") = {}
    BY <1>4 DEF Init, Admitted, Tally
  <2>2. Cardinality({}) = 0
    BY FS_EmptySet
  <2>3. /\ Cardinality(listed) = 0 /\ Cardinality(Admitted) = 0 /\ Cardinality(cut) = 0
        /\ Cardinality(Tally("moved")) = 0 /\ Cardinality(Tally("skipped")) = 0
        /\ Cardinality(Tally("failed")) = 0
    BY <2>1, <2>2, Zenon
  <2>4. QED
    BY <1>2, <2>3 DEF Counts
<1>7. Cuts /\ Limited /\ Covered
  <2>1. cut = {} /\ bucket = 1 /\ pc = "next" /\ (opts.cmd = "sweep" => opts.limit = 0)
        /\ opts.limit \in Nat
    BY TransferAssumption DEF Init
  <2>2. Cuts
    BY <2>1 DEF Cuts
  <2>3. Limited
    BY <1>2, <2>1 DEF Limited
  <2>4. Covered
    BY <1>1, <2>1 DEF Covered, Buckets
  <2>5. QED
    BY <2>2, <2>3, <2>4
<1>8. QED
  BY <1>3, <1>5, <1>6, <1>7 DEF TransferInv

\* Numbers of finite sets of objects and buckets.
LEMMA Finite ==
  /\ Len(Contents) \in Nat /\ IsFiniteSet(Objects) /\ IsFiniteSet(Buckets)
  /\ \A S \in SUBSET Objects : IsFiniteSet(S) /\ Cardinality(S) \in Nat
  /\ \A S \in SUBSET Buckets : IsFiniteSet(S) /\ Cardinality(S) \in Nat
<1>1. Len(Contents) \in Nat
  BY TransferAssumption
<1>2. IsFiniteSet(Buckets)
  BY <1>1, FS_Interval DEF Buckets
<1>3. QED
  BY <1>1, <1>2, TransferAssumption, FS_Subset, FS_CardinalityType

\* A step that moves no object changes no place and no tally.
LEMMA SamePlaces ==
  ASSUME UNCHANGED <<opts, held, queue, worker, result>>
  PROVE  /\ \A o \in Objects : /\ Pending(o)' = Pending(o)
                               /\ InQueue(o)' = InQueue(o) /\ InHand(o)' = InHand(o)
         /\ Admitted' = Admitted
         /\ \A c \in Results : Tally(c)' = Tally(c)
BY DEF Pending, InQueue, InHand, Admitted, Tally, Counted

\* The steps of the listing goroutine that are about no object, and the interrupt.
Control ==
  \/ NextBucket \/ Prepare \/ EndBucket \/ ListStop \/ ListEnd \/ ListError
  \/ Interrupt

\* What they do to the phase, the bucket and the counters.
LEMMA ControlEffect ==
  ASSUME TransferInv, Control
  PROVE  /\ UNCHANGED <<opts, listed, held, queue, worker, result>>
         /\ pc' \in Pcs \ {"send"} \/ pc' = pc
         /\ \/ bucket' = bucket
            \/ /\ bucket' = bucket + 1 /\ bucket \in Buckets /\ pc' = "next"
               /\ \A o \in Objects : ~Pending(o)
         /\ \/ cut' = cut
            \/ cut' = cut \cup {bucket} /\ bucket \in Buckets \ cut
                 /\ (pc' = "drain" \/ bucket' = bucket + 1)
         /\ count' \in [Counters -> Nat]
         /\ \/ count' = count
            \/ /\ count'["failed"] = count["failed"] + 1 /\ cut' # cut
               /\ \A c \in Counters \ {"failed"} : count'[c] = count[c]
         /\ (interrupted => interrupted') /\ interrupted' \in BOOLEAN
<1>1. /\ count \in [Counters -> Nat] /\ interrupted \in BOOLEAN
      /\ "failed" \in Counters
      /\ pc \in {"prepare", "listing", "drain"} => bucket \in Buckets
      /\ pc \in {"prepare", "listing"} => bucket \notin cut
  BY DEF TransferInv, TypeOK, Phases, Cuts, Counters, Results
<1>2. CASE NextBucket
  <2>1. pc' \in {"done", "prepare", "listing"}
    BY <1>2 DEF NextBucket
  <2>2. QED
    BY <1>1, <1>2, <2>1 DEF NextBucket, Pcs
<1>3. CASE Prepare
  <2>1. \A o \in Objects : ~Pending(o)
    BY <1>3 DEF Prepare, TransferInv, Phases
  <2>2. QED
    BY <1>1, <1>3, <2>1 DEF Prepare, Pcs
<1>4. CASE EndBucket
  <2>1. held = None
    BY <1>4 DEF EndBucket, TransferInv, Phases
  <2>2. \A o \in Objects : ~Pending(o)
    BY <1>4, <2>1, TransferAssumption DEF EndBucket, Pending, InQueue, InHand
  <2>3. QED
    BY <1>1, <1>4, <2>2 DEF EndBucket, Pcs
<1>5. CASE ListStop \/ ListEnd
  BY <1>1, <1>5 DEF ListStop, ListEnd, Pcs
<1>6. CASE ListError
  <2>1. /\ pc = "listing" /\ pc' = "drain" /\ cut' = cut \cup {bucket}
        /\ UNCHANGED <<opts, bucket, listed, held, queue, worker, interrupted, result>>
        /\ count' = count \/ count' = [count EXCEPT !["failed"] = @ + 1]
    BY <1>6 DEF ListError, Count
  <2>2. cut' # cut
    BY <1>1, <2>1
  <2>3. QED
    BY <1>1, <2>1, <2>2 DEF Pcs
<1>7. CASE Interrupt
  BY <1>1, <1>7 DEF Interrupt
<1>8. QED
  BY <1>2, <1>3, <1>4, <1>5, <1>6, <1>7 DEF Control

\* None of them disturbs the invariant: a bucket is left when nothing of it is
\* pending, and a listing that ends early has been counted or was asked for.
LEMMA ControlKeeps ==
  ASSUME TransferInv, Control
  PROVE  TransferInv'
<1>1. TypeOK /\ Phases /\ Places /\ Counts /\ Cuts /\ Limited /\ Covered
  BY DEF TransferInv
<1>2. /\ UNCHANGED <<opts, listed, held, queue, worker, result>>
      /\ pc' \in Pcs \ {"send"} \/ pc' = pc
      /\ \/ bucket' = bucket
         \/ /\ bucket' = bucket + 1 /\ bucket \in Buckets /\ pc' = "next"
            /\ \A o \in Objects : ~Pending(o)
      /\ \/ cut' = cut
         \/ cut' = cut \cup {bucket} /\ bucket \in Buckets \ cut
              /\ (pc' = "drain" \/ bucket' = bucket + 1)
      /\ count' \in [Counters -> Nat]
      /\ \/ count' = count
         \/ /\ count'["failed"] = count["failed"] + 1 /\ cut' # cut
            /\ \A c \in Counters \ {"failed"} : count'[c] = count[c]
      /\ (interrupted => interrupted') /\ interrupted' \in BOOLEAN
  BY ControlEffect
<1>3. /\ \A o \in Objects : /\ Pending(o)' = Pending(o)
                            /\ InQueue(o)' = InQueue(o) /\ InHand(o)' = InHand(o)
      /\ Admitted' = Admitted
      /\ \A c \in Results : Tally(c)' = Tally(c)
  BY <1>2, SamePlaces
<1>4. count["failed"] \in Nat /\ {"scanned", "eligible", "moved", "skipped"} \subseteq Counters
      /\ "failed" \notin {"scanned", "eligible", "moved", "skipped"}
  BY <1>1 DEF TypeOK, Counters, Results
<1>5. TypeOK'
  <2>1. bucket' \in 1..Len(Contents) + 1
    BY <1>1, <1>2, Finite DEF TypeOK, Buckets
  <2>2. QED
    BY <1>1, <1>2, <2>1 DEF TypeOK
<1>6. Phases'
  <2>1. /\ pc' = "send" <=> pc = "send"
        /\ pc' \in {"prepare", "listing", "send", "drain"} => bucket' \in Buckets
        /\ pc' = "prepare" => opts.cmd = "restore"
        /\ pc' \in {"next", "prepare", "done"} => \A o \in Objects : ~Pending(o)
    <3> USE <1>1, <1>2 DEF Phases
    <3>1. CASE NextBucket
      <4>1. pc = "next" /\ bucket' = bucket
            /\ pc' = IF bucket \notin Buckets \/ interrupted THEN "done"
                     ELSE IF opts.cmd = "restore" /\ opts.apply THEN "prepare"
                     ELSE "listing"
        BY <3>1 DEF NextBucket
      <4>2. QED
        BY <4>1
    <3>2. CASE Prepare
      BY <3>2 DEF Prepare
    <3>3. CASE EndBucket
      <4>1. bucket' = bucket + 1 /\ bucket' # bucket /\ pc = "drain" /\ pc' = "next"
        BY <3>3 DEF EndBucket, TypeOK
      <4>2. QED
        BY <4>1
    <3>4. CASE ListStop \/ ListEnd
      BY <3>4 DEF ListStop, ListEnd
    <3>5. CASE ListError
      BY <3>5 DEF ListError
    <3>6. CASE Interrupt
      BY <3>6 DEF Interrupt
    <3>7. QED
      BY <3>1, <3>2, <3>3, <3>4, <3>5, <3>6 DEF Control
  <2>2. QED
    BY <1>1, <1>2, <1>3, <2>1 DEF Phases
<1>7. Places'
  <2>1. \A o \in Objects : Pending(o) => bucket' = bucket
    BY <1>2
  <2>2. QED
    BY <1>1, <1>2, <1>3, <2>1 DEF Places
<1>8. Counts'
  <2>1. /\ Cardinality(listed') = Cardinality(listed)
        /\ Cardinality(Admitted') = Cardinality(Admitted)
        /\ Cardinality(Tally("moved")') = Cardinality(Tally("moved"))
        /\ Cardinality(Tally("skipped")') = Cardinality(Tally("skipped"))
        /\ Cardinality(Tally("failed")') = Cardinality(Tally("failed"))
    BY <1>2, <1>3 DEF Results
  <2>2. Cardinality(Tally("failed")) \in Nat /\ Cardinality(cut) \in Nat
    BY <1>1, Finite DEF Tally, TypeOK
  <2>3. cut' = cut \/ Cardinality(cut') = Cardinality(cut) + 1
    BY <1>1, <1>2, Finite, FS_AddElement DEF TypeOK
  <2>4. Cardinality(cut') \in {Cardinality(cut), Cardinality(cut) + 1}
        /\ (cut' # cut => Cardinality(cut') = Cardinality(cut) + 1)
    BY <2>3
  <2>5. QED
    BY <1>1, <1>2, <1>4, <2>1, <2>2, <2>4 DEF Counts
<1>9. Cuts'
  <2>1. bucket \in Nat /\ cut \subseteq Buckets
    BY <1>1 DEF TypeOK
  <2>2. \A b \in cut' : b \in Nat /\ b <= bucket
    <3>1. \A b \in Buckets : b \in Nat
      BY Finite DEF Buckets
    <3>2. \A b \in cut : b \in Nat /\ b <= bucket
      BY <1>1, <2>1, <3>1 DEF Cuts
    <3>3. QED
      BY <1>2, <2>1, <3>2
  <2>3. CASE bucket' = bucket + 1
    BY <2>1, <2>2, <2>3 DEF Cuts
  <2>4. CASE bucket' = bucket
    <3>1. pc' \in {"next", "prepare", "listing", "send"} =>
            pc \in {"next", "prepare", "listing", "send"} /\ cut' = cut
      <4> USE <1>2, <2>1, <2>4
      <4>1. CASE NextBucket \/ Interrupt \/ ListStop \/ ListEnd \/ ListError
        BY <4>1 DEF NextBucket, Interrupt, ListStop, ListEnd, ListError
      <4>2. CASE Prepare
        BY <4>2 DEF Prepare
      <4>3. CASE EndBucket
        BY <4>3 DEF EndBucket
      <4>4. QED
        BY <4>1, <4>2, <4>3 DEF Control
    <3>2. QED
      BY <1>1, <2>2, <2>4, <3>1 DEF Cuts
  <2>5. QED
    BY <1>2, <2>3, <2>4
<1>10. Limited'
  BY <1>1, <1>2, <1>4 DEF Limited
<1>11. Covered'
  <2>1. count["failed"] \in Nat /\ count["scanned"] \in Nat /\ opts.limit \in Nat
        /\ count'["scanned"] = count["scanned"] /\ bucket \in Nat
    <3>1. bucket \in Nat
      BY <1>1, Finite DEF TypeOK
    <3>2. opts.limit \in Nat
      BY <1>1, TransferAssumption DEF TypeOK
    <3>3. count["scanned"] \in Nat /\ count'["scanned"] = count["scanned"]
      BY <1>1, <1>2, <1>4 DEF TypeOK
    <3>4. QED
      BY <1>4, <3>1, <3>2, <3>3
  <2>2. Unblemished' => Unblemished /\ ~interrupted' /\ count' = count
    BY <1>2, <2>1 DEF Unblemished
  <2>3. ASSUME Unblemished'
        PROVE  /\ \A b \in Buckets : b < bucket' => Contents[b] \subseteq listed'
               /\ pc' = "drain" => Contents[bucket'] \subseteq listed'
    <3> USE <2>1, <2>2, <2>3
    <3>1. /\ \A b \in Buckets : b \in Nat
          /\ \A b \in Buckets : b < bucket => Contents[b] \subseteq listed
          /\ pc = "drain" => Contents[bucket] \subseteq listed
          /\ listed' = listed
      BY <1>1, <1>2, Finite DEF Covered, Buckets
    <3>2. CASE NextBucket
      BY <3>1, <3>2 DEF NextBucket
    <3>3. CASE Prepare
      <4>1. opts.cmd = "restore"
        BY <1>1, <3>3 DEF Prepare, Phases
      <4>2. QED
        BY <4>1 DEF Unblemished
    <3>4. CASE EndBucket
      <4>1. bucket' = bucket + 1 /\ pc' = "next" /\ pc = "drain"
        BY <3>4 DEF EndBucket
      <4>2. QED
        BY <3>1, <4>1
    <3>5. CASE ListStop
      <4>1. interrupted \/ (opts.limit > 0 /\ count["scanned"] >= opts.limit)
        BY <3>5 DEF ListStop, Enough
      <4>2. QED
        BY <4>1 DEF Unblemished
    <3>6. CASE ListEnd
      <4>1. bucket' = bucket /\ Contents[bucket] \subseteq listed
        BY <3>6 DEF ListEnd, ToList
      <4>2. QED
        BY <3>1, <4>1
    <3>7. CASE ListError
      <4>1. opts.cmd \in Commands
        BY <1>1 DEF TypeOK
      <4>2. count' = [count EXCEPT !["failed"] = @ + 1] /\ count \in [Counters -> Nat]
            /\ "failed" \in Counters
        BY <1>1, <3>7, <4>1 DEF ListError, Count, Unblemished, Commands, TypeOK,
           Counters, Results
      <4>3. QED
        BY <4>2
    <3>8. CASE Interrupt
      BY <3>8 DEF Interrupt
    <3>9. QED
      BY <3>2, <3>3, <3>4, <3>5, <3>6, <3>7, <3>8 DEF Control
  <2>4. pc' = "done" => interrupted' \/ bucket' \notin Buckets
    <3> USE <1>1, <1>2 DEF Covered
    <3>1. CASE NextBucket
      <4>1. bucket' = bucket /\ interrupted' = interrupted
            /\ pc' = IF bucket \notin Buckets \/ interrupted THEN "done"
                     ELSE IF opts.cmd = "restore" /\ opts.apply THEN "prepare"
                     ELSE "listing"
        BY <3>1 DEF NextBucket
      <4>2. QED
        BY <4>1
    <3>2. CASE Prepare \/ EndBucket
      BY <3>2 DEF Prepare, EndBucket
    <3>3. CASE ListStop \/ ListEnd \/ ListError \/ Interrupt
      BY <3>3 DEF ListStop, ListEnd, ListError, Interrupt
    <3>4. QED
      BY <3>1, <3>2, <3>3 DEF Control
  <2>5. QED
    BY <2>3, <2>4 DEF Covered
<1>12. QED
  BY <1>5, <1>6, <1>7, <1>8, <1>9, <1>10, <1>11 DEF TransferInv

-----------------------------------------------------------------------------
(* The steps that are about an object.                                     *)

\* What none of them touches: they stay within the bucket, whose cuts and whose
\* end they leave alone, and a run they leave unblemished was so before.
LEMMA WithinBucket ==
  ASSUME TransferInv, UNCHANGED <<opts, bucket, interrupted, cut>>,
         pc' = pc \/ (pc \in {"listing", "send"} /\ pc' \in {"listing", "send"}),
         listed \subseteq listed', count' \in [Counters -> Nat],
         \A c \in Counters : count[c] <= count'[c]
  PROVE  Cuts' /\ Covered'
<1>1. Cuts /\ Covered
  BY DEF TransferInv
<1>2. count \in [Counters -> Nat] /\ {"failed", "scanned"} \subseteq Counters
      /\ opts.limit \in Nat
  BY TransferAssumption DEF TransferInv, TypeOK, Counters, Results
<1>3. Cuts'
  BY <1>1 DEF Cuts
<1>4. Unblemished' => Unblemished
  <2>1. count["failed"] \in Nat /\ count["scanned"] \in Nat
        /\ count'["failed"] \in Nat /\ count'["scanned"] \in Nat
        /\ count["failed"] <= count'["failed"] /\ count["scanned"] <= count'["scanned"]
    BY <1>2
  <2>2. QED
    BY <1>2, <2>1 DEF Unblemished
<1>5. Covered'
  BY <1>1, <1>4 DEF Covered
<1>6. QED
  BY <1>3, <1>5

\* The listing delivers an object, which the sweep may find too young.
LEMMA ListObjectKeeps ==
  ASSUME TransferInv, NEW o \in Objects, ListObject(o)
  PROVE  TransferInv'
<1>1. TypeOK /\ Phases /\ Places /\ Counts /\ Limited
  BY DEF TransferInv
<1>2. /\ pc = "listing" /\ held = None /\ bucket \in Buckets
      /\ o \in Contents[bucket] /\ o \notin listed /\ listed' = listed \cup {o}
      /\ ~Pending(o) /\ result[o] = "none" /\ o # None
      /\ UNCHANGED <<opts, bucket, queue, worker, interrupted, result, cut>>
  <2>1. /\ pc = "listing" /\ o \in Contents[bucket] /\ o \notin listed
        /\ listed' = listed \cup {o}
        /\ UNCHANGED <<opts, bucket, queue, worker, interrupted, result, cut>>
    BY DEF ListObject, ToList
  <2>2. QED
    BY <1>1, <2>1, TransferAssumption DEF Phases, Places
<1>3. /\ count \in [Counters -> Nat]
      /\ {"scanned", "eligible", "moved", "skipped", "failed"} \subseteq Counters
  BY <1>1 DEF TypeOK, Counters, Results
<1>4. /\ count' \in [Counters -> Nat] /\ count'["scanned"] = count["scanned"] + 1
      /\ \A c \in {"moved", "skipped", "failed"} : count'[c] = count[c]
      /\ \/ /\ pc' = "send" /\ held' = o /\ count'["eligible"] = count["eligible"] + 1
         \/ /\ opts.cmd = "sweep" /\ pc' = "listing" /\ held' = None
            /\ count'["eligible"] = count["eligible"]
  <2>1. CASE /\ pc' = "send" /\ held' = o
             /\ count' = [count EXCEPT !["scanned"] = @ + 1, !["eligible"] = @ + 1]
    BY <1>3, <2>1
  <2>2. CASE /\ opts.cmd = "sweep" /\ pc' = "listing" /\ held' = None
             /\ count' = [count EXCEPT !["scanned"] = @ + 1]
    BY <1>3, <2>2
  <2>3. QED
    BY <1>2, <2>1, <2>2 DEF ListObject, Count
<1>5. \A x \in Objects : /\ InQueue(x)' = InQueue(x) /\ InHand(x)' = InHand(x)
                         /\ Pending(x)' <=> Pending(x) \/ held' = x
  BY <1>2, TransferAssumption DEF Pending, InQueue, InHand
<1>6. TypeOK'
  BY <1>1, <1>2, <1>4 DEF TypeOK, Pcs
<1>7. Phases'
  BY <1>2, <1>4 DEF Phases
<1>8. Places'
  <2>1. ~InQueue(o) /\ ~InHand(o)
    BY <1>2 DEF Pending
  <2>2. held' = o \/ held' = None
    BY <1>4
  <2>3. \A x \in Objects : Pending(x)' => Pending(x) \/ x = o
    BY <1>5, <2>2, TransferAssumption
  <2>4. QED
    BY <1>1, <1>2, <1>5, <2>1, <2>2, <2>3, TransferAssumption DEF Places
<1>9. Counts'
  <2>1. /\ Cardinality(listed') = Cardinality(listed) + 1
        /\ Tally("moved")' = Tally("moved") /\ Tally("skipped")' = Tally("skipped")
        /\ Tally("failed")' = Tally("failed")
    BY <1>1, <1>2, Finite, FS_AddElement DEF TypeOK, Tally, Counted
  <2>2. o \notin Admitted /\ IsFiniteSet(Admitted)
    BY <1>2, Finite DEF Admitted
  <2>3. CASE held' = o /\ count'["eligible"] = count["eligible"] + 1
    <3>1. Admitted' = Admitted \cup {o}
      BY <1>2, <1>5, <2>3 DEF Admitted
    <3>2. Cardinality(Admitted') = Cardinality(Admitted) + 1
      BY <2>2, <3>1, FS_AddElement
    <3>3. QED
      BY <1>1, <1>2, <1>4, <2>1, <2>3, <3>2 DEF Counts
  <2>4. CASE held' = None /\ count'["eligible"] = count["eligible"]
    <3>1. Admitted' = Admitted
      BY <1>2, <1>5, <2>4, TransferAssumption DEF Admitted
    <3>2. QED
      BY <1>1, <1>2, <1>4, <2>1, <2>4, <3>1 DEF Counts
  <2>5. QED
    BY <1>4, <2>3, <2>4
<1>10. Limited'
  <2>1. opts.cmd # "sweep" /\ opts.limit > 0 => ~(count["scanned"] >= opts.limit)
    BY DEF ListObject, Enough
  <2>2. opts.limit \in Nat /\ count["scanned"] \in Nat
    BY <1>1, <1>3, TransferAssumption DEF TypeOK
  <2>3. QED
    BY <1>1, <1>2, <1>4, <2>1, <2>2 DEF Limited
<1>11. Cuts' /\ Covered'
  <2>1. \A c \in Counters : count[c] <= count'[c]
    <3>1. Counters = {"scanned", "eligible", "moved", "skipped", "failed"}
      BY DEF Counters, Results
    <3>2. QED
      BY <1>3, <1>4, <3>1
  <2>2. QED
    BY <1>2, <1>4, <2>1, WithinBucket
<1>12. QED
  BY <1>6, <1>7, <1>8, <1>9, <1>10, <1>11 DEF TransferInv

\* The sender passes its object on to the queue, where it is once.
LEMMA SendKeeps ==
  ASSUME TransferInv, Send
  PROVE  TransferInv'
<1>1. TypeOK /\ Phases /\ Places /\ Counts /\ Limited
  BY DEF TransferInv
<1>2. /\ pc = "send" /\ pc' = "listing" /\ bucket \in Buckets
      /\ held \in Objects /\ held' = None /\ None \notin Objects
      /\ queue \in Seq(Objects) /\ Len(queue) \in Nat /\ Len(queue) < QueueSize
      /\ QueueSize \in Nat /\ queue' = Append(queue, held)
      /\ UNCHANGED <<opts, bucket, listed, worker, count, interrupted, result, cut>>
  BY <1>1, TransferAssumption DEF Send, TypeOK, Phases
<1>3. ~InQueue(held) /\ ~InHand(held)
  BY <1>1, <1>2 DEF Places
<1>4. /\ queue' \in Seq(Objects) /\ Len(queue') = Len(queue) + 1
      /\ \A i, j \in 1..Len(queue') : queue'[i] = queue'[j] => i = j
      /\ \A x \in Objects : InQueue(x)' <=> x = held \/ InQueue(x)
  <2>1. \A i \in 1..Len(queue) : queue[i] # held
    BY <1>3 DEF InQueue
  <2>2. \A i, j \in 1..Len(queue) : queue[i] = queue[j] => i = j
    BY <1>1 DEF Places
  <2>3. QED
    BY <1>2, <2>1, <2>2, Appended DEF InQueue
<1>5. \A x \in Objects : /\ InHand(x)' = InHand(x)
                         /\ Pending(x)' <=> Pending(x)
  BY <1>2, <1>4 DEF Pending, InHand
<1>6. TypeOK'
  BY <1>1, <1>2, <1>4 DEF TypeOK, Pcs
<1>7. Phases'
  BY <1>2 DEF Phases
<1>8. Places'
  BY <1>1, <1>2, <1>3, <1>4, <1>5 DEF Places
<1>9. Counts'
  <2>1. /\ Admitted' = Admitted /\ Tally("moved")' = Tally("moved")
        /\ Tally("skipped")' = Tally("skipped") /\ Tally("failed")' = Tally("failed")
    BY <1>2, <1>5 DEF Admitted, Tally, Counted
  <2>2. QED
    BY <1>1, <1>2, <2>1 DEF Counts
<1>10. Limited'
  BY <1>1, <1>2 DEF Limited
<1>11. Cuts' /\ Covered'
  <2>1. count \in [Counters -> Nat] /\ \A c \in Counters : count[c] <= count'[c]
    BY <1>1, <1>2 DEF TypeOK
  <2>2. QED
    BY <1>2, <2>1, WithinBucket
<1>12. QED
  BY <1>6, <1>7, <1>8, <1>9, <1>10, <1>11 DEF TransferInv

\* A worker takes the object at the head of the queue into its hands.
LEMMA TakeKeeps ==
  ASSUME TransferInv, NEW w \in Workers, Take(w)
  PROVE  TransferInv'
<1>1. TypeOK /\ Phases /\ Places /\ Counts /\ Limited
  BY DEF TransferInv
<1>2. /\ queue \in Seq(Objects) /\ queue # <<>> /\ Len(queue) \in Nat
      /\ QueueSize \in Nat /\ Len(queue) <= QueueSize /\ queue' = Tail(queue)
      /\ worker[w] = None /\ None \notin Objects
      /\ worker \in [Workers -> Objects \cup {None}]
      /\ worker' = [worker EXCEPT ![w] = Head(queue)]
      /\ UNCHANGED <<opts, pc, bucket, listed, held, count, interrupted, result, cut>>
  BY <1>1, TransferAssumption DEF Take, TypeOK
<1>3. /\ Head(queue) \in Objects /\ InQueue(Head(queue))
      /\ queue' \in Seq(Objects) /\ Len(queue') = Len(queue) - 1
      /\ \A i, j \in 1..Len(queue') : queue'[i] = queue'[j] => i = j
      /\ \A x \in Objects : InQueue(x)' <=> x # Head(queue) /\ InQueue(x)
  <2>1. \A i, j \in 1..Len(queue) : queue[i] = queue[j] => i = j
    BY <1>1 DEF Places
  <2>2. /\ Head(queue) \in Objects /\ Tail(queue) \in Seq(Objects)
        /\ Len(Tail(queue)) = Len(queue) - 1
        /\ \A i, j \in 1..Len(Tail(queue)) : Tail(queue)[i] = Tail(queue)[j] => i = j
        /\ \E i \in 1..Len(queue) : queue[i] = Head(queue)
        /\ \A x \in Objects : (\E i \in 1..Len(Tail(queue)) : Tail(queue)[i] = x)
                                <=> x # Head(queue) /\ \E i \in 1..Len(queue) : queue[i] = x
    BY <1>2, <2>1, Tailed
  <2>3. QED
    BY <1>2, <2>2 DEF InQueue
<1>4. PICK h \in Objects : h = Head(queue)
  BY <1>3
<1>5. /\ worker' \in [Workers -> Objects \cup {None}] /\ worker'[w] = h
      /\ \A v \in Workers \ {w} : worker'[v] = worker[v]
  BY <1>2, <1>4
<1>6. ~InHand(h) /\ held # h
  BY <1>1, <1>3, <1>4 DEF Places
<1>7. \A x \in Objects : /\ InHand(x)' <=> x = h \/ InHand(x)
                         /\ Pending(x)' <=> Pending(x)
  <2>1. \A x \in Objects : InHand(x)' <=> x = h \/ InHand(x)
    BY <1>2, <1>5 DEF InHand
  <2>2. QED
    BY <1>2, <1>3, <1>4, <2>1 DEF Pending
<1>8. TypeOK'
  BY <1>1, <1>2, <1>3, <1>5 DEF TypeOK
<1>9. Phases'
  BY <1>1, <1>2, <1>7 DEF Phases
<1>10. Places'
  <2>1. \A u, v \in Workers : worker'[u] = worker'[v] /\ worker'[u] # None => u = v
    <3>1. \A v \in Workers : worker[v] # h
      BY <1>6 DEF InHand
    <3>2. QED
      BY <1>1, <1>5, <3>1 DEF Places
  <2>2. \A x \in Objects : InQueue(x)' => ~InHand(x)' /\ held' # x
    BY <1>1, <1>2, <1>3, <1>4, <1>7 DEF Places
  <2>3. \A x \in Objects : InHand(x)' => held' # x
    BY <1>1, <1>2, <1>6, <1>7 DEF Places
  <2>4. QED
    BY <1>1, <1>2, <1>3, <1>7, <2>1, <2>2, <2>3 DEF Places
<1>11. Counts'
  <2>1. /\ Admitted' = Admitted /\ Tally("moved")' = Tally("moved")
        /\ Tally("skipped")' = Tally("skipped") /\ Tally("failed")' = Tally("failed")
    BY <1>2, <1>7 DEF Admitted, Tally, Counted
  <2>2. QED
    BY <1>1, <1>2, <2>1 DEF Counts
<1>12. Limited'
  BY <1>1, <1>2 DEF Limited
<1>13. Cuts' /\ Covered'
  <2>1. count \in [Counters -> Nat] /\ \A c \in Counters : count[c] <= count'[c]
    BY <1>1, <1>2 DEF TypeOK
  <2>2. QED
    BY <1>2, <2>1, WithinBucket
<1>14. QED
  BY <1>8, <1>9, <1>10, <1>11, <1>12, <1>13 DEF TransferInv

\* A worker is through with its object, which is counted under one of the three.
LEMMA HandledKeeps ==
  ASSUME TransferInv, NEW w \in Workers, NEW r \in Results, Handled(w, r)
  PROVE  TransferInv'
<1>1. TypeOK /\ Phases /\ Places /\ Counts /\ Limited
  BY DEF TransferInv
<1>2. PICK o \in Objects : o = worker[w]
  BY <1>1 DEF Handled, TypeOK
<1>3. PICK k \in Results : k = Counted(r)
  BY DEF Counted, Results
<1>4. /\ count \in [Counters -> Nat] /\ k \in Counters /\ o # None
      /\ worker \in [Workers -> Objects \cup {None}]
      /\ result \in [Objects -> Results \cup {"none"}]
      /\ result' = [result EXCEPT ![o] = r]
      /\ count' = [count EXCEPT ![k] = @ + 1]
      /\ worker' = [worker EXCEPT ![w] = None]
      /\ UNCHANGED <<opts, pc, bucket, listed, held, queue, interrupted, cut>>
  BY <1>1, <1>2, <1>3, TransferAssumption DEF Handled, Count, TypeOK, Counters
<1>5. /\ InHand(o) /\ ~InQueue(o) /\ held # o /\ Pending(o)
      /\ result[o] = "none" /\ o \in listed
  <2>1. InHand(o) /\ Pending(o)
    BY <1>2 DEF InHand, Pending
  <2>2. QED
    BY <1>1, <2>1 DEF Places
<1>6. /\ worker' \in [Workers -> Objects \cup {None}] /\ worker'[w] = None
      /\ \A v \in Workers \ {w} : worker'[v] = worker[v] /\ worker[v] # o
  BY <1>1, <1>2, <1>4 DEF Places
<1>7. /\ result' \in [Objects -> Results \cup {"none"}] /\ result'[o] = r
      /\ \A x \in Objects \ {o} : result'[x] = result[x]
      /\ r # "none"
  BY <1>4 DEF Results
<1>8. /\ count' \in [Counters -> Nat] /\ count'[k] = count[k] + 1
      /\ \A c \in Counters \ {k} : count'[c] = count[c]
  BY <1>4
<1>9. \A x \in Objects : /\ InQueue(x)' = InQueue(x)
                         /\ InHand(x)' <=> x # o /\ InHand(x)
                         /\ Pending(x)' <=> x # o /\ Pending(x)
  <2>1. \A x \in Objects : InHand(x)' <=> x # o /\ InHand(x)
    BY <1>2, <1>4, <1>6, TransferAssumption DEF InHand
  <2>2. \A x \in Objects : InQueue(x)' = InQueue(x)
    BY <1>4 DEF InQueue
  <2>3. QED
    BY <1>4, <1>5, <2>1, <2>2 DEF Pending
<1>10. TypeOK'
  BY <1>1, <1>4, <1>6, <1>7, <1>8 DEF TypeOK
<1>11. Phases'
  BY <1>1, <1>4, <1>9 DEF Phases
<1>12. Places'
  <2>1. \A u, v \in Workers : worker'[u] = worker'[v] /\ worker'[u] # None => u = v
    BY <1>1, <1>6 DEF Places
  <2>2. QED
    BY <1>1, <1>4, <1>5, <1>7, <1>9, <2>1 DEF Places
<1>13. Counts'
  <2>1. Admitted' = Admitted
    BY <1>5, <1>7, <1>9 DEF Admitted
  <2>2. /\ Tally(k)' = Tally(k) \cup {o} /\ o \notin Tally(k)
        /\ \A c \in Results \ {k} : Tally(c)' = Tally(c)
    <3>1. \A x \in Objects \ {o}, c \in Results : x \in Tally(c)' <=> x \in Tally(c)
      BY <1>4, <1>7 DEF Tally, Counted
    <3>2. \A c \in Results : o \notin Tally(c) /\ (o \in Tally(c)' <=> c = k)
      BY <1>3, <1>4, <1>5, <1>7 DEF Tally, Counted
    <3>3. \A c \in Results : Tally(c) \subseteq Objects /\ Tally(c)' \subseteq Objects
      BY DEF Tally
    <3>4. QED
      BY <3>1, <3>2, <3>3
  <2>3. \A c \in Results : IsFiniteSet(Tally(c)) /\ Cardinality(Tally(c)) \in Nat
    BY Finite DEF Tally
  <2>4. /\ Cardinality(Tally(k)') = Cardinality(Tally(k)) + 1
        /\ \A c \in Results \ {k} : Cardinality(Tally(c)') = Cardinality(Tally(c))
    BY <2>2, <2>3, FS_AddElement
  <2>5. Cardinality(cut) \in Nat
    BY <1>1, Finite DEF TypeOK
  <2>6. k \in {"moved", "skipped", "failed"}
        /\ "scanned" \in Counters \ {k} /\ "eligible" \in Counters \ {k}
    BY DEF Results, Counters
  <2>7. CASE k = "failed"
    <3>1. /\ count'["moved"] = count["moved"] /\ count'["skipped"] = count["skipped"]
          /\ count'["failed"] = count["failed"] + 1 /\ count["failed"] \in Nat
      BY <1>4, <1>8, <2>7 DEF Counters, Results
    <3>2. /\ Cardinality(Tally("failed")') = Cardinality(Tally("failed")) + 1
          /\ Cardinality(Tally("moved")') = Cardinality(Tally("moved"))
          /\ Cardinality(Tally("skipped")') = Cardinality(Tally("skipped"))
          /\ Cardinality(Tally("failed")) \in Nat
      BY <2>3, <2>4, <2>7 DEF Results
    <3>3. QED
      BY <1>1, <1>4, <1>8, <2>1, <2>5, <2>6, <3>1, <3>2 DEF Counts
  <2>8. CASE k = "moved"
    <3>1. /\ count'["moved"] = count["moved"] + 1 /\ count'["skipped"] = count["skipped"]
          /\ count'["failed"] = count["failed"]
      BY <1>4, <1>8, <2>8 DEF Counters, Results
    <3>2. /\ Cardinality(Tally("failed")') = Cardinality(Tally("failed"))
          /\ Cardinality(Tally("moved")') = Cardinality(Tally("moved")) + 1
          /\ Cardinality(Tally("skipped")') = Cardinality(Tally("skipped"))
      BY <2>4, <2>8 DEF Results
    <3>3. QED
      BY <1>1, <1>4, <1>8, <2>1, <2>6, <3>1, <3>2 DEF Counts
  <2>9. CASE k = "skipped"
    <3>1. /\ count'["moved"] = count["moved"] /\ count'["skipped"] = count["skipped"] + 1
          /\ count'["failed"] = count["failed"]
      BY <1>4, <1>8, <2>9 DEF Counters, Results
    <3>2. /\ Cardinality(Tally("failed")') = Cardinality(Tally("failed"))
          /\ Cardinality(Tally("moved")') = Cardinality(Tally("moved"))
          /\ Cardinality(Tally("skipped")') = Cardinality(Tally("skipped")) + 1
      BY <2>4, <2>9 DEF Results
    <3>3. QED
      BY <1>1, <1>4, <1>8, <2>1, <2>6, <3>1, <3>2 DEF Counts
  <2>10. QED
    BY <2>6, <2>7, <2>8, <2>9
<1>14. Limited'
  <2>1. count'["scanned"] = count["scanned"]
    BY <1>8 DEF Counters, Results
  <2>2. QED
    BY <1>1, <1>4, <2>1 DEF Limited
<1>15. Cuts' /\ Covered'
  <2>1. \A c \in Counters : count[c] <= count'[c]
    BY <1>4, <1>8
  <2>2. QED
    BY <1>4, <1>8, <2>1, WithinBucket
<1>16. QED
  BY <1>10, <1>11, <1>12, <1>13, <1>14, <1>15 DEF TransferInv

-----------------------------------------------------------------------------
(* The theorems.                                                           *)

\* Every step of the lister, of a worker and of the signal handler keeps it.
LEMMA NextTransferInv == TransferInv /\ [Next]_vars => TransferInv'
<1> SUFFICES ASSUME TransferInv, [Next]_vars
             PROVE  TransferInv'
  OBVIOUS
<1>1. CASE Control
  BY <1>1, ControlKeeps
<1>2. CASE \E o \in Objects : ListObject(o)
  BY <1>2, ListObjectKeeps
<1>3. CASE Send
  BY <1>3, SendKeeps
<1>4. ASSUME NEW w \in Workers, Worker(w)
      PROVE  TransferInv'
  BY <1>4, TakeKeeps, HandledKeeps DEF Worker
<1>5. CASE UNCHANGED vars
  BY <1>5 DEF vars, TransferInv, TypeOK, Phases, Places, Counts, Cuts, Limited,
     Covered, Unblemished, Pending, InQueue, InHand, Admitted, Tally, Counted
<1>6. QED
  BY <1>1, <1>2, <1>3, <1>4, <1>5 DEF Next, Lister, Control

\* What a run of one of the three commands always satisfies.
THEOREM TransferTheorem == Spec => []TransferInv
<1>1. QED
  BY InitTransferInv, NextTransferInv, PTL DEF Spec

\* The state of a run: its queue never holds more than its channel does.
THEOREM TransferTypeTheorem == Spec => []TypeOK
<1>1. TransferInv => TypeOK
  BY DEF TransferInv
<1>2. QED
  BY <1>1, TransferTheorem, PTL

\* wg.Wait() before the next bucket: no worker has an object of another bucket,
\* nor one that somebody has finished.
THEOREM OneBucketTheorem == Spec => []OneBucketAtATime
<1>1. TransferInv => OneBucketAtATime
  <2> SUFFICES ASSUME TransferInv
               PROVE  OneBucketAtATime
    OBVIOUS
  <2>1. \A x \in InFlight : x \in Objects /\ Pending(x)
    BY DEF TransferInv, TypeOK, InFlight, Pending, InQueue, InHand
  <2>2. \A x \in InFlight : bucket \in Buckets /\ x \in Contents[bucket]
                            /\ result[x] = "none"
    BY <2>1 DEF TransferInv, Places
  <2>3. QED
    BY <2>2 DEF OneBucketAtATime, Finished
<1>2. QED
  BY <1>1, TransferTheorem, PTL

\* The report of a run adds up (the Report of the sweep, the counters the
\* commands print).
THEOREM AccountingTheorem == Spec => []Accounting
<1>1. TransferInv => Accounting
  <2> SUFFICES ASSUME TransferInv, pc = "done"
               PROVE  Accounting
    BY DEF Accounting
  <2>1. Counts /\ \A o \in Objects : ~Pending(o)
    BY DEF TransferInv, Phases
  <2>2. Admitted = Finished
    BY <2>1 DEF Admitted, Finished
  <2>3. \A c \in Results : Tally(c) = {o \in Finished : Counted(result[o]) = c}
    BY DEF Tally, Finished
  <2>4. QED
    BY <2>1, <2>2, <2>3 DEF Counts, Accounting, Results
<1>2. QED
  BY <1>1, TransferTheorem, PTL

\* -limit: neither are more objects counted nor more handled, over all buckets.
THEOREM LimitTheorem == Spec => []LimitKept
<1>1. TransferInv => LimitKept
  <2> SUFFICES ASSUME TransferInv, opts.limit > 0
               PROVE  LimitKept
    BY DEF LimitKept
  <2>1. count["scanned"] <= opts.limit /\ count["scanned"] = Cardinality(listed)
        /\ opts.limit \in Nat /\ listed \in SUBSET Objects
    BY TransferAssumption DEF TransferInv, Limited, Counts, TypeOK
  <2>2. Finished \subseteq listed
    BY DEF TransferInv, Places, Finished
  <2>3. Cardinality(Finished) <= Cardinality(listed) /\ IsFiniteSet(listed)
    BY <2>1, <2>2, Finite, FS_Subset
  <2>4. Cardinality(Finished) \in Nat /\ Cardinality(listed) \in Nat
    BY <2>1, Finite DEF Finished
  <2>5. QED
    BY <2>1, <2>3, <2>4 DEF LimitKept
<1>2. QED
  BY <1>1, TransferTheorem, PTL

\* The sweep's errors and the exit status of the backfill: without an error and
\* an interruption there is no object left that should have been looked at.
THEOREM ReportTheorem == Spec => []ReportsFailures
<1>1. TransferInv => ReportsFailures
  <2> SUFFICES ASSUME TransferInv, Unblemished, pc = "done"
               PROVE  listed = Objects /\ \A o \in Objects : result[o] # "failed"
    BY DEF ReportsFailures, CleanRunIsComplete, Unblemished
  <2>1. listed = Objects
    <3>1. bucket \notin Buckets /\ bucket \in 1..Len(Contents) + 1 /\ listed \subseteq Objects
      BY DEF TransferInv, Covered, Unblemished, TypeOK
    <3>2. \A b \in Buckets : b < bucket
      BY <3>1, Finite DEF Buckets
    <3>3. \A b \in Buckets : Contents[b] \subseteq listed
      BY <3>2 DEF TransferInv, Covered
    <3>4. QED
      BY <3>1, <3>3 DEF Objects
  <2>2. Tally("failed") = {}
    <3>1. count["failed"] = 0 /\ Cardinality(Tally("failed")) <= count["failed"]
          /\ IsFiniteSet(Tally("failed")) /\ Cardinality(Tally("failed")) \in Nat
      BY Finite DEF TransferInv, Counts, Unblemished, Tally
    <3>2. Cardinality(Tally("failed")) = 0
      BY <3>1
    <3>3. QED
      BY <3>1, <3>2, FS_EmptySet
  <2>3. Counted("failed") = "failed"
    BY DEF Counted, Unblemished
  <2>4. QED
    BY <2>1, <2>2, <2>3 DEF Tally
<1>2. QED
  BY <1>1, TransferTheorem, PTL
=============================================================================
