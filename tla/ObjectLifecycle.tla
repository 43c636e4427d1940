-------------------------- MODULE ObjectLifecycle --------------------------
(***************************************************************************)
(* What the two storage tiers promise about one object, stated without any *)
(* of the calls that keep the promise.  An object lives in a set of tiers: *)
(* "local" is MinIO, "archive" is the S3 cold tier.  It comes into storage *)
(* once, by an upload; from then on it is only copied from a tier it is in *)
(* to the other.  A tier is left only through a door: the local copy goes  *)
(* once the archive has one, and both copies go only for an object         *)
(* somebody asked to delete.                                               *)
(*                                                                         *)
(* Tiering implements this specification (Tiering!Lifecycle).              *)
(***************************************************************************)
CONSTANTS Objects,   \* the object keys
          Archivable  \* those whose bucket is archived on this deployment

VARIABLES tiers,      \* tiers[o]: which tiers hold the object
          uploading,  \* the objects whose upload has begun
          condemned   \* the objects a delete was requested for

vars == <<tiers, uploading, condemned>>

Tiers == {"local", "archive"}

Init == /\ tiers \in [Objects -> SUBSET Tiers]
        /\ uploading = {}
        /\ condemned = {}

BeginUpload(o) == /\ tiers[o] = {} /\ o \notin uploading \cup condemned
                  /\ uploading' = uploading \cup {o}
                  /\ UNCHANGED <<tiers, condemned>>

\* The upload reaches local storage, under a name nothing else has.
Store(o) == /\ o \in uploading /\ tiers[o] = {}
            /\ tiers' = [tiers EXCEPT ![o] = {"local"}]
            /\ uploading' = uploading \ {o}
            /\ UNCHANGED condemned

\* It does not.
AbandonUpload(o) == /\ uploading' = uploading \ {o}
                    /\ UNCHANGED <<tiers, condemned>>

\* A copy is made of an object the local tier holds.  Only a delete can have
\* removed the original in the meantime.
Archive(o) == /\ o \in Archivable
              /\ "local" \in tiers[o] \/ o \in condemned
              /\ tiers' = [tiers EXCEPT ![o] = @ \cup {"archive"}]
              /\ UNCHANGED <<uploading, condemned>>

\* The local copy is given up for the archived one.
Evict(o) == /\ o \in Archivable
            /\ "archive" \in tiers[o]
            /\ tiers' = [tiers EXCEPT ![o] = {"archive"}]
            /\ UNCHANGED <<uploading, condemned>>

\* The way back.  The scope does not matter here.
Restore(o) == /\ "archive" \in tiers[o] \/ o \in condemned
              /\ tiers' = [tiers EXCEPT ![o] = @ \cup {"local"}]
              /\ UNCHANGED <<uploading, condemned>>

Condemn(o) == /\ o \notin uploading
              /\ condemned' = condemned \cup {o}
              /\ UNCHANGED <<tiers, uploading>>

\* A copy of a condemned object goes, whichever tier it is in; a removal that
\* was already on its way may still land.
Delete(o) == /\ o \in condemned
             /\ \E t \in Tiers : tiers' = [tiers EXCEPT ![o] = @ \ {t}]
             /\ UNCHANGED <<uploading, condemned>>

Next == \E o \in Objects :
          \/ BeginUpload(o) \/ Store(o) \/ AbandonUpload(o)
          \/ Archive(o) \/ Evict(o) \/ Restore(o)
          \/ Condemn(o) \/ Delete(o)

Spec == Init /\ [][Next]_vars
=============================================================================
