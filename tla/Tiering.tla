------------------------------ MODULE Tiering ------------------------------
(***************************************************************************)
(* Two storage tiers and everything that moves objects between them:       *)
(* uploads with their archive mirror, the on-demand archive endpoint, the  *)
(* backfill and restore commands, the retention sweep, reads, and deletes. *)
(* Each call to MinIO or S3 is one step, so that concurrent requests and   *)
(* jobs interleave between any two of them, as goroutines and separate     *)
(* processes (api, backfill, restore) do.                                  *)
(*                                                                         *)
(* An object's contents never change after its upload (its name is a fresh *)
(* uuid), so a copy of it is told apart from another only by how much of   *)
(* it is there: a copy IS its length, and FullSize is the whole object.    *)
(***************************************************************************)
EXTENDS Integers, FiniteSets

CONSTANTS
  Objects,    \* object keys; each belongs to one bucket
  Procs,      \* request handlers, sweep workers and command workers
  FullSize,   \* length of a whole object
  Enabled,    \* archiveConfigured(): is there an archive at all
  Scope,      \* the objects whose bucket ARCHIVE_ONLY_BUCKETS lets in
  Parity,     \* bucket-name parity layout, i.e. ARCHIVE_BUCKET is empty
  Ops,        \* the operations in use
  Faults,     \* faults of the stores beyond calls that fail cleanly
  Legacy,     \* objects stored before the model starts
  Drained     \* those of them whose archived copy is the zero-byte one that
              \* versions before 1.10.0 wrote (docs/archive.md, "What protects")

FaultKinds ==
  { "short_put",   \* an archive PUT stores less than it was given and says 200
    "lost_reply" } \* a write takes effect and its caller is told it failed

OpKinds == { "upload", "archive", "backfill", "retention", "restore", "read",
             "delete" }

ASSUME TieringAssumption ==
  /\ Objects # {}
  /\ FullSize \in Nat \ {0}
  /\ Enabled \in BOOLEAN
  /\ Parity \in BOOLEAN
  /\ Scope \subseteq Objects
  /\ Ops \subseteq OpKinds
  /\ Faults \subseteq FaultKinds
  /\ Drained \subseteq Legacy
  /\ Legacy \subseteq Objects

Absent == -1                     \* no object under that key
Error  == -2                     \* no answer: timeout, 5xx, refused connection
Size   == 0..FullSize
Copy   == Size \cup {Absent}

\* Mutation: ARCHIVE_ONLY_BUCKETS is not consulted.
InScope_everything(o) == Enabled

InScope(o) == Enabled /\ o \in Scope

-----------------------------------------------------------------------------
(* What a store may do with a call.                                        *)

\* The answers a HEAD or GET may get: the truth, or none.
Answers(copy) == {copy, Error}

\* The states a tier may be in after a write of copy c under key o, given
\* what the caller is told.
Written(tier, o, c, ok) ==
  IF ok THEN {[tier EXCEPT ![o] = c]}
  ELSE {tier} \cup IF "lost_reply" \in Faults THEN {[tier EXCEPT ![o] = c]} ELSE {}

\* The lengths an archive PUT of len bytes may leave behind.
Landed(len) == IF "short_put" \in Faults THEN 0..len ELSE {len}

-----------------------------------------------------------------------------
(* The verdict of Tiering.VerifyArchived.                                  *)

\* Mutation: existence alone is taken as proof.
VerifyArchived_existence(answer, localSize) ==
  CASE answer = Error  -> "error"
    [] answer = Absent -> "not_archived"
    [] OTHER           -> "ok"

\* Mutation: an unreachable archive no longer postpones the delete.
VerifyArchived_outage(answer, localSize) ==
  CASE answer = Absent -> "not_archived"
    [] answer \notin {localSize, Error} -> "size_mismatch"
    [] OTHER           -> "ok"

VerifyArchived(answer, localSize) ==
  IF answer = Error THEN "error"
  ELSE IF answer = Absent THEN "not_archived"
  ELSE IF answer # localSize THEN "size_mismatch" ELSE "ok"

-----------------------------------------------------------------------------
VARIABLES
  local,      \* local[o]: MinIO's copy
  archived,   \* archived[o]: the archive's copy
  job,        \* job[p]: the call p is executing
  issued,     \* object names already generated (uuid)
  stored,     \* history: objects MinIO confirmed to the upload handler
  condemned   \* history: objects a delete was requested for

vars == <<local, archived, job, issued, stored, condemned>>

Pcs == { "idle", "done",
         "put_local", "mirror",
         "stat_local", "stat_archive", "verify", "copy_open", "copy_put",
         "reverify", "remove",
         "dry_verify", "sweep_verify",
         "restore_stat", "restore_open", "restore_put",
         "read_stat", "read_get", "read_archive",
         "del_local", "del_archive" }

Outcomes == { "none", "stored", "failed", "archived", "archived_kept",
              "already_archived", "not_found", "skipped", "would_copy",
              "kept", "would_delete", "swept", "already_local", "restored",
              "served", "missing", "deleted" }

\* size: the length the caller compares against; body: the length of the
\* stream in hand; apply: write, or only report; evict: remove after copying.
JobType == [op : OpKinds \cup {"none"}, pc : Pcs, obj : Objects,
            size : Copy \cup {Error}, body : Copy,
            evict : BOOLEAN, apply : BOOLEAN, out : Outcomes]

NewJob(op, pc, o, size, evict, apply) ==
  [op |-> op, pc |-> pc, obj |-> o, size |-> size, body |-> Absent,
   evict |-> evict, apply |-> apply, out |-> "none"]

NoJob == NewJob("none", "idle", CHOOSE o \in Objects : TRUE, Absent, FALSE, FALSE)

Whole == FullSize

\* Objects from before the start hold one of the shapes an earlier run leaves:
\* never archived, mirrored, or already evicted; or mirrored by the old bug.
LegacyTiers(o) ==
  IF o \in Drained THEN {<<Whole, 0>>}
  ELSE {<<Whole, Absent>>, <<Whole, Whole>>, <<Absent, Whole>>}

Init == /\ local \in [Objects -> Copy]
        /\ archived \in [Objects -> Copy]
        /\ \A o \in Objects :
             <<local[o], archived[o]>> \in
               IF o \in Legacy THEN LegacyTiers(o) ELSE {<<Absent, Absent>>}
        /\ job = [p \in Procs |-> NoJob]
        /\ issued = Legacy
        /\ stored = Legacy
        /\ condemned = {}

-----------------------------------------------------------------------------
(* Moving a job along.                                                     *)

Begin(p, j) == /\ j.op \in Ops
               /\ job[p].pc \in {"idle", "done"}
               /\ job' = [job EXCEPT ![p] = j]

At(p, pc) == job[p].pc = pc

Goto(p, pc) == job' = [job EXCEPT ![p].pc = pc]

GotoSized(p, pc, size) ==
  job' = [job EXCEPT ![p].pc = pc, ![p].size = size]

GotoWith(p, pc, body) ==
  job' = [job EXCEPT ![p].pc = pc, ![p].body = body]

Finish(p, out) == job' = [job EXCEPT ![p].pc = "done", ![p].out = out]

NoWrites == UNCHANGED <<local, archived>>
NoHistory == UNCHANGED <<issued, stored, condemned>>

-----------------------------------------------------------------------------
(* Uploads: UploadImage, UploadWithUrl and BatchUpload.  MinIO first, then  *)
(* the mirror, whose failure does not fail the upload.                      *)

StartUpload(p, o) ==
  /\ o \notin issued
  /\ Begin(p, NewJob("upload", "put_local", o, Whole, FALSE, TRUE))
  /\ issued' = issued \cup {o}
  /\ NoWrites /\ UNCHANGED <<stored, condemned>>

UploadPut(p) ==
  /\ At(p, "put_local")
  /\ UNCHANGED <<archived, issued, condemned>>
  /\ LET o == job[p].obj IN
     \/ /\ local' \in Written(local, o, Whole, TRUE)
        /\ stored' = stored \cup {o}
        /\ IF InScope(o) THEN Goto(p, "mirror") ELSE Finish(p, "stored")
     \/ /\ local' \in Written(local, o, Whole, FALSE)
        /\ UNCHANGED stored
        /\ Finish(p, "failed")

UploadMirror(p) ==
  /\ At(p, "mirror")
  /\ \E ok \in BOOLEAN, len \in Landed(Whole) :
       archived' \in Written(archived, job[p].obj, len, ok)
  /\ Finish(p, "stored")
  /\ UNCHANGED local /\ NoHistory

-----------------------------------------------------------------------------
(* POST /archive, the backfill command and the retention sweep.             *)

\* ArchiveObjects refuses a bucket outside the scope for the whole request.
StartArchive(p, o, evict) ==
  /\ InScope(o)
  /\ Begin(p, NewJob("archive", "stat_local", o, Absent, evict, TRUE))
  /\ NoWrites /\ NoHistory

\* The listing has reached o; its size is the listing's.  A dry run asks the
\* archive and stops.
StartBackfill(p, o, apply) ==
  /\ InScope(o)
  /\ local[o] # Absent
  /\ Begin(p, NewJob("backfill", IF apply THEN "verify" ELSE "dry_verify",
                     o, local[o], FALSE, apply))
  /\ NoWrites /\ NoHistory

\* The sweep's listing has reached o, and o is older than the window: a time
\* the model does not know, so any object may be.
StartSweep(p, o, apply) ==
  /\ InScope(o)
  /\ local[o] # Absent
  /\ Begin(p, NewJob("retention", "sweep_verify", o, local[o], TRUE, apply))
  /\ NoWrites /\ NoHistory

\* ArchiveObject: any error counts as "nothing locally".
StatLocal(p) ==
  /\ At(p, "stat_local")
  /\ NoWrites /\ NoHistory
  /\ \E answer \in Answers(local[job[p].obj]) :
       IF answer \in Size THEN GotoSized(p, "verify", answer)
                          ELSE Goto(p, "stat_archive")

\* Mutation: only a definite miss counts as one.
StatArchive_optimistic(p) ==
  /\ At(p, "stat_archive")
  /\ NoWrites /\ NoHistory
  /\ \E answer \in Answers(archived[job[p].obj]) :
       Finish(p, IF answer = Absent THEN "not_found" ELSE "already_archived")

StatArchive(p) ==
  /\ At(p, "stat_archive")
  /\ NoWrites /\ NoHistory
  /\ \E answer \in Answers(archived[job[p].obj]) :
       Finish(p, IF answer \in Size THEN "already_archived" ELSE "not_found")

\* ArchiveKnownObject past its verification: keep or remove the local copy.
Confirmed(p) ==
  IF job[p].evict THEN Goto(p, "remove") ELSE Finish(p, "archived_kept")

\* Mutation: a copy of another size is left as it is.
Verify_keepingMismatch(p) ==
  /\ At(p, "verify")
  /\ NoWrites /\ NoHistory
  /\ \E answer \in Answers(archived[job[p].obj]) :
       LET reason == VerifyArchived(answer, job[p].size) IN
       \/ reason = "ok" /\ Confirmed(p)
       \/ reason \in {"error", "size_mismatch"} /\ Finish(p, "failed")
       \/ reason = "not_archived" /\ Goto(p, "copy_open")

Verify(p) ==
  /\ At(p, "verify")
  /\ NoWrites /\ NoHistory
  /\ \E answer \in Answers(archived[job[p].obj]) :
       LET reason == VerifyArchived(answer, job[p].size) IN
       \/ reason = "ok" /\ Confirmed(p)
       \/ reason = "error" /\ Finish(p, "failed")
       \/ reason \in {"not_archived", "size_mismatch"} /\ Goto(p, "copy_open")

\* copyToArchive: the stream is one version of the local object.
CopyOpen(p) ==
  /\ At(p, "copy_open")
  /\ NoWrites /\ NoHistory
  /\ \E answer \in Answers(local[job[p].obj]) :
       IF answer \in Size THEN GotoWith(p, "copy_put", answer)
                          ELSE Finish(p, "failed")

\* Mutation: the write is trusted, nothing asks the archive again.
CopyPut_trusting(p) ==
  /\ At(p, "copy_put")
  /\ UNCHANGED local /\ NoHistory
  /\ \E ok \in BOOLEAN, len \in Landed(job[p].body) :
       /\ archived' \in Written(archived, job[p].obj, len, ok)
       /\ IF ok THEN Confirmed(p) ELSE Finish(p, "failed")

CopyPut(p) ==
  /\ At(p, "copy_put")
  /\ UNCHANGED local /\ NoHistory
  /\ \E ok \in BOOLEAN, len \in Landed(job[p].body) :
       /\ archived' \in Written(archived, job[p].obj, len, ok)
       /\ IF ok THEN Goto(p, "reverify") ELSE Finish(p, "failed")

Reverify(p) ==
  /\ At(p, "reverify")
  /\ NoWrites /\ NoHistory
  /\ \E answer \in Answers(archived[job[p].obj]) :
       IF VerifyArchived(answer, job[p].size) = "ok" THEN Confirmed(p)
                                                    ELSE Finish(p, "failed")

\* backfill without -apply.
DryVerify(p) ==
  /\ At(p, "dry_verify")
  /\ NoWrites /\ NoHistory
  /\ \E answer \in Answers(archived[job[p].obj]) :
       LET reason == VerifyArchived(answer, job[p].size) IN
       Finish(p, CASE reason = "ok"    -> "skipped"
                   [] reason = "error" -> "failed"
                   [] OTHER            -> "would_copy")

\* Mutation: RETENTION_DRY_RUN is not consulted.
SweepVerify_ignoringDryRun(p) ==
  /\ At(p, "sweep_verify")
  /\ NoWrites /\ NoHistory
  /\ \E answer \in Answers(archived[job[p].obj]) :
       IF VerifyArchived(answer, job[p].size) # "ok" THEN Finish(p, "kept")
       ELSE Goto(p, "remove")

SweepVerify(p) ==
  /\ At(p, "sweep_verify")
  /\ NoWrites /\ NoHistory
  /\ \E answer \in Answers(archived[job[p].obj]) :
       IF VerifyArchived(answer, job[p].size) # "ok" THEN Finish(p, "kept")
       ELSE IF job[p].apply THEN Goto(p, "remove")
       ELSE Finish(p, "would_delete")

\* The one place a verified local copy is removed, by either caller.
RemoveLocal(p) ==
  /\ At(p, "remove")
  /\ UNCHANGED archived /\ NoHistory
  /\ \E ok \in BOOLEAN :
       /\ local' \in Written(local, job[p].obj, Absent, ok)
       /\ Finish(p, CASE ~ok -> "failed"
                       [] ok /\ job[p].op = "retention" -> "swept"
                       [] OTHER -> "archived")

-----------------------------------------------------------------------------
(* The restore command.  It ignores the scope, and calls RestoreObject with *)
(* and without -apply alike.                                                *)

\* The walk of the archive has reached o.
StartRestore(p, o, apply) ==
  /\ Enabled
  /\ archived[o] # Absent
  /\ Begin(p, NewJob("restore", "restore_stat", o, archived[o], FALSE, apply))
  /\ NoWrites /\ NoHistory

RestoreStat(p) ==
  /\ At(p, "restore_stat")
  /\ NoWrites /\ NoHistory
  /\ \E answer \in Answers(local[job[p].obj]) :
       IF answer = job[p].size THEN Finish(p, "already_local")
                               ELSE Goto(p, "restore_open")

\* Mutation: the error of Open is dropped.
RestoreOpen_unchecked(p) ==
  /\ At(p, "restore_open")
  /\ NoWrites /\ NoHistory
  /\ \E answer \in Answers(archived[job[p].obj]) :
       IF answer = Absent THEN Finish(p, "not_found")
                          ELSE GotoWith(p, "restore_put", answer)

RestoreOpen(p) ==
  /\ At(p, "restore_open")
  /\ NoWrites /\ NoHistory
  /\ \E answer \in Answers(archived[job[p].obj]) :
       \/ answer \in Size /\ GotoWith(p, "restore_put", answer)
       \/ answer = Absent /\ Finish(p, "not_found")
       \/ answer = Error /\ Finish(p, "failed")

\* Mutation: a restore that moves the object instead of copying it.
RestorePut_moving(p) ==
  /\ At(p, "restore_put")
  /\ NoHistory
  /\ local' = [local EXCEPT ![job[p].obj] = job[p].body]
  /\ archived' = [archived EXCEPT ![job[p].obj] = Absent]
  /\ Finish(p, "restored")

RestorePut(p) ==
  /\ At(p, "restore_put")
  /\ UNCHANGED archived /\ NoHistory
  /\ \E ok \in BOOLEAN :
       /\ local' \in Written(local, job[p].obj, job[p].body, ok)
       /\ Finish(p, IF ok THEN "restored" ELSE "failed")

-----------------------------------------------------------------------------
(* Reads: GetImage and openObject.  The size a HEAD reported is kept in     *)
(* job.size; the local body is only requested afterwards, for the version   *)
(* the HEAD saw.                                                            *)

StartRead(p, o) ==
  /\ o \in stored
  /\ Begin(p, NewJob("read", "read_stat", o, Absent, FALSE, FALSE))
  /\ NoWrites /\ NoHistory

ReadStat(p) ==
  /\ At(p, "read_stat")
  /\ NoWrites /\ NoHistory
  /\ \E answer \in Answers(local[job[p].obj]) :
       IF answer \in Size \ {0} THEN GotoSized(p, "read_get", answer)
       ELSE IF Enabled THEN GotoSized(p, "read_archive", answer)
       ELSE Finish(p, "missing")

Serve(p, len) ==
  job' = [job EXCEPT ![p].pc = "done", ![p].out = "served", ![p].body = len]

ReadGet(p) ==
  /\ At(p, "read_get")
  /\ NoWrites /\ NoHistory
  /\ \E answer \in Answers(local[job[p].obj]) :
       IF answer = job[p].size THEN Serve(p, answer) ELSE Finish(p, "missing")

ReadArchive(p) ==
  /\ At(p, "read_archive")
  /\ NoWrites /\ NoHistory
  /\ \E answer \in Answers(archived[job[p].obj]) :
       IF answer \in Size THEN Serve(p, answer) ELSE Finish(p, "missing")

-----------------------------------------------------------------------------
(* Deletes: DeleteImage (which never reaches S3: its route has no           *)
(* aws_delete parameter) and BatchDelete, whose body has one.               *)

\* aws is TRUE only for BatchDelete, whose body can ask for it.
StartDelete(p, o, aws) ==
  /\ o \in stored
  /\ Begin(p, NewJob("delete", "del_local", o, Absent, FALSE, aws))
  /\ condemned' = condemned \cup {o}
  /\ NoWrites /\ UNCHANGED <<issued, stored>>

DeleteLocal(p) ==
  /\ At(p, "del_local")
  /\ UNCHANGED archived /\ NoHistory
  /\ \E ok \in BOOLEAN :
       /\ local' \in Written(local, job[p].obj, Absent, ok)
       /\ \/ ok /\ job[p].apply /\ Goto(p, "del_archive")
          \/ ok /\ ~job[p].apply /\ Finish(p, "deleted")
          \/ ~ok /\ Finish(p, "failed")

\* BatchDelete deletes under the MinIO bucket's own name, which is where the
\* archived copy is only under parity.  A failure is reported beside success.
DeleteArchived(p) ==
  /\ At(p, "del_archive")
  /\ UNCHANGED local /\ NoHistory
  /\ \E ok \in BOOLEAN :
       archived' \in IF Parity THEN Written(archived, job[p].obj, Absent, ok)
                              ELSE {archived}
  /\ Finish(p, "deleted")

-----------------------------------------------------------------------------
\* The process running the job dies (kill -9, deploy, Ctrl-C of a command).
\* Nothing about a job is kept anywhere else.
Crash(p) ==
  /\ job[p].pc \notin {"idle", "done"}
  /\ job' = [job EXCEPT ![p] = NoJob]
  /\ NoWrites /\ NoHistory

Start(p) ==
  \E o \in Objects :
    \/ StartUpload(p, o)
    \/ StartRead(p, o)
    \/ \E b \in BOOLEAN :
         \/ StartArchive(p, o, b)
         \/ StartBackfill(p, o, b)
         \/ StartSweep(p, o, b)
         \/ StartRestore(p, o, b)
         \/ StartDelete(p, o, b)

Step(p) ==
  \/ UploadPut(p) \/ UploadMirror(p)
  \/ StatLocal(p) \/ StatArchive(p) \/ Verify(p)
  \/ CopyOpen(p) \/ CopyPut(p) \/ Reverify(p)
  \/ DryVerify(p) \/ SweepVerify(p) \/ RemoveLocal(p)
  \/ RestoreStat(p) \/ RestoreOpen(p) \/ RestorePut(p)
  \/ ReadStat(p) \/ ReadGet(p) \/ ReadArchive(p)
  \/ DeleteLocal(p) \/ DeleteArchived(p)

Next == \E p \in Procs : Start(p) \/ Step(p) \/ Crash(p)

Spec == Init /\ [][Next]_vars

-----------------------------------------------------------------------------
(* Properties                                                              *)

\* Every variable has its type.
TypeOK ==
  /\ local \in [Objects -> Copy]
  /\ archived \in [Objects -> Copy]
  /\ job \in [Procs -> JobType]
  /\ issued \subseteq Objects
  /\ stored \subseteq issued
  /\ condemned \subseteq Objects

\* An object whose upload MinIO confirmed is whole in some tier until somebody
\* asks to delete it, whatever uploads, archive requests, commands, sweeps and
\* crashes do meanwhile ("the one rule", service/tiering.go:92-96).
Durable ==
  \A o \in stored \ condemned : local[o] = Whole \/ archived[o] = Whole

\* A caller told that an object is in the archive can rely on it from then on:
\* archived, archived_kept, already_archived and swept all mean the archive
\* holds the whole object (TierOutcome, service/tiering.go:52-69).
ReportedArchived ==
  \A p \in Procs :
    /\ At(p, "done")
    /\ job[p].out \in {"archived", "archived_kept", "already_archived", "swept"}
    /\ job[p].obj \notin condemned
    => archived[job[p].obj] = Whole

\* A read that found no local copy finds the object in the archive when it gets
\* there (openObject): between the two calls the object can come back, but not
\* leave the archive.
FallThroughFinds ==
  \A p \in Procs :
    At(p, "read_archive") /\ job[p].size = Absent /\ job[p].obj \notin condemned
    => archived[job[p].obj] = Whole

\* A local copy disappears only while the archive holds a copy of the same
\* length, or for an object somebody asked to delete (docs/archive.md, "What
\* protects the data").
EvictionVerified ==
  [][\A o \in Objects \ condemned :
       local[o] # Absent /\ local'[o] = Absent => archived[o] = local[o]]_vars

\* A dry run of the backfill or of the sweep changes neither tier.
DryRunsWriteNothing ==
  [][\A p \in Procs :
       /\ job[p].op \in {"backfill", "retention"} /\ ~job[p].apply
       /\ job'[p] # job[p]
       => NoWrites]_vars

\* What the restore command says of itself without -apply: "DRY RUN (nothing
\* will be written; pass -apply to run for real)" (cmd/restore/main.go:94).
RestoreDryRunWritesNothing ==
  [][\A p \in Procs :
       /\ job[p].op = "restore" /\ ~job[p].apply
       /\ job'[p] # job[p]
       => NoWrites]_vars

\* "A read that misses locally falls through to the archive" (handler/
\* archive.go:54-56): also when the local copy goes between the HEAD that found
\* it and the GET that fetches it.
EvictedIsServed ==
  [][\A p \in Procs :
       /\ At(p, "read_get")
       /\ job[p].obj \notin condemned /\ local[job[p].obj] = Absent
       => job'[p].out # "missing"]_vars

-----------------------------------------------------------------------------
(* Refinement: the lengths and the calls forgotten, what is left is the     *)
(* life of an object in two tiers.                                         *)

tiersOf ==
  [o \in Objects |-> (IF local[o] # Absent THEN {"local"} ELSE {})
                     \cup (IF archived[o] # Absent THEN {"archive"} ELSE {})]

uploadsOf == {job[p].obj : p \in {q \in Procs : At(q, "put_local")}}

Lifecycle == INSTANCE ObjectLifecycle
               WITH Archivable <- IF Enabled THEN Scope ELSE {}, tiers <- tiersOf,
                    uploading <- uploadsOf

\* A copy never leaves a tier except through ObjectLifecycle's doors, nor comes
\* into one but by its upload or from the other tier.
LifecycleSpec == Lifecycle!Spec

-----------------------------------------------------------------------------
(* Liveness.                                                               *)

\* A step of p's job about o that ends well: not a failed call, nor a
\* verification that did not find what it needed.
Well(p, o, A) ==
  A /\ job[p].obj = o /\ job'[p].out \notin {"failed", "kept", "would_delete"}

\* The sweep and the backfill are run again and again (RETENTION_INTERVAL_HOURS,
\* an operator's reruns), and a call tried again and again succeeds at some
\* time: outages, crashes and short writes come back, but not every time.
Fairness ==
  \A p \in Procs : WF_vars(Step(p)) /\ \A o \in Objects :
    /\ SF_vars(StartBackfill(p, o, TRUE))
    /\ SF_vars(StartSweep(p, o, TRUE))
    /\ SF_vars(Well(p, o, Verify(p)))
    /\ SF_vars(Well(p, o, CopyOpen(p)))
    /\ SF_vars(Well(p, o, CopyPut(p)) /\ archived'[o] = job[p].body)
    /\ SF_vars(Well(p, o, SweepVerify(p)))
    /\ SF_vars(Well(p, o, RemoveLocal(p)))

FairSpec == Spec /\ Fairness

\* An upload whose mirror failed, or was cut short, does not occupy local disk
\* for ever: backfill closes the gap and the sweep frees the space.
EventuallyFreed ==
  \A o \in Objects : o \in stored /\ InScope(o) ~> local[o] = Absent
=============================================================================
