---------------------------- MODULE QueueLemmas ----------------------------
(***************************************************************************)
(* What a channel's sequence without duplicates becomes when its senders   *)
(* append to it and its receivers take its head.                           *)
(***************************************************************************)
EXTENDS Naturals, Sequences, TLAPS

\* A send into the channel (jobQueue, a run's queue): it ends up in there once.
LEMMA Appended ==
  ASSUME NEW S, NEW q \in Seq(S), NEW d \in S,
         \A i \in 1..Len(q) : q[i] # d,
         \A i, j \in 1..Len(q) : q[i] = q[j] => i = j
  PROVE  /\ Append(q, d) \in Seq(S) /\ Len(Append(q, d)) = Len(q) + 1
         /\ \A i, j \in 1..Len(Append(q, d)) :
              Append(q, d)[i] = Append(q, d)[j] => i = j
         /\ \A e \in S : (\E i \in 1..Len(Append(q, d)) : Append(q, d)[i] = e)
                            <=> e = d \/ \E i \in 1..Len(q) : q[i] = e
<1>1. /\ Append(q, d) \in Seq(S) /\ Len(Append(q, d)) = Len(q) + 1
      /\ \A i \in 1..Len(q) : Append(q, d)[i] = q[i]
      /\ Append(q, d)[Len(q) + 1] = d
      /\ Len(q) \in Nat
  OBVIOUS
<1>2. 1..Len(Append(q, d)) = 1..Len(q) \cup {Len(q) + 1}
  BY <1>1
<1>3. \A i, j \in 1..Len(Append(q, d)) : Append(q, d)[i] = Append(q, d)[j] => i = j
  BY <1>1, <1>2
<1>4. \A e \in S : (\E i \in 1..Len(Append(q, d)) : Append(q, d)[i] = e)
                      <=> e = d \/ \E i \in 1..Len(q) : q[i] = e
  BY <1>1, <1>2
<1>5. QED
  BY <1>1, <1>3, <1>4

\* A receive from the channel: the head, and only the head, is gone.
LEMMA Tailed ==
  ASSUME NEW S, NEW q \in Seq(S), q # <<>>,
         \A i, j \in 1..Len(q) : q[i] = q[j] => i = j
  PROVE  /\ Head(q) \in S /\ Tail(q) \in Seq(S) /\ Len(Tail(q)) = Len(q) - 1
         /\ \A i, j \in 1..Len(Tail(q)) : Tail(q)[i] = Tail(q)[j] => i = j
         /\ \E i \in 1..Len(q) : q[i] = Head(q)
         /\ \A e \in S : (\E i \in 1..Len(Tail(q)) : Tail(q)[i] = e)
                            <=> e # Head(q) /\ \E i \in 1..Len(q) : q[i] = e
<1>1. /\ Len(q) \in Nat \ {0} /\ Head(q) = q[1] /\ Head(q) \in S
      /\ Tail(q) \in Seq(S) /\ Len(Tail(q)) = Len(q) - 1
      /\ \A i \in 1..Len(Tail(q)) : Tail(q)[i] = q[i + 1]
  OBVIOUS
<1>2. \A i, j \in 1..Len(Tail(q)) : Tail(q)[i] = Tail(q)[j] => i = j
  <2> SUFFICES ASSUME NEW i \in 1..Len(Tail(q)), NEW j \in 1..Len(Tail(q)),
                      Tail(q)[i] = Tail(q)[j]
               PROVE  i = j
    OBVIOUS
  <2>1. i + 1 \in 1..Len(q) /\ j + 1 \in 1..Len(q) /\ q[i + 1] = q[j + 1]
    BY <1>1
  <2>2. QED
    BY <2>1, <1>1
<1>3. 1 \in 1..Len(q)
  BY <1>1
<1>4. ASSUME NEW e \in S
      PROVE  (\E i \in 1..Len(Tail(q)) : Tail(q)[i] = e)
             <=> e # Head(q) /\ \E i \in 1..Len(q) : q[i] = e
  <2>1. ASSUME NEW i \in 1..Len(Tail(q)), Tail(q)[i] = e
        PROVE  e # Head(q) /\ \E j \in 1..Len(q) : q[j] = e
    <3>1. i + 1 \in 1..Len(q) /\ i + 1 # 1 /\ q[i + 1] = e
      BY <2>1, <1>1
    <3>2. QED
      BY <3>1, <1>1, <1>3
  <2>2. ASSUME NEW j \in 1..Len(q), q[j] = e, e # Head(q)
        PROVE  \E i \in 1..Len(Tail(q)) : Tail(q)[i] = e
    <3>1. j # 1
      BY <2>2, <1>1
    <3>2. j - 1 \in 1..Len(Tail(q)) /\ Tail(q)[j - 1] = q[(j - 1) + 1]
      BY <3>1, <1>1
    <3>3. (j - 1) + 1 = j
      BY <1>1
    <3>4. QED
      BY <3>2, <3>3, <2>2
  <2>3. QED
    BY <2>1, <2>2
<1>5. QED
  BY <1>1, <1>2, <1>3, <1>4
=============================================================================
