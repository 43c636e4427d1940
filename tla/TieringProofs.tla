--------------------------- MODULE TieringProofs ---------------------------
(***************************************************************************)
(* Proofs about Tiering, for every set of objects and of processes and     *)
(* every size.                                                             *)
(***************************************************************************)
EXTENDS Tiering, TLAPS

\* The stores keep what they are given: no archive PUT is cut short, and no
\* archived copy is a leftover of the zero-byte bug.  Failed and unanswered
\* calls, lost replies and crashes are all still there.
SoundStores == "short_put" \notin Faults /\ Drained = {}

-----------------------------------------------------------------------------
(* The inductive invariant.                                                *)

WholeCopies == \A o \in Objects : /\ local[o] \in {Absent, Whole}
                                  /\ archived[o] \in {Absent, Whole}

\* The lengths a job carries are those of whole objects.
WholeJob(p) ==
  /\ job[p].pc \in {"verify", "copy_open", "copy_put", "reverify", "remove",
                    "dry_verify", "sweep_verify"} => job[p].size = Whole
  /\ job[p].pc \in {"copy_put", "restore_put"} => job[p].body = Whole

\* What a job may rely on about its object: a remove was authorised by the
\* archive, an upload has a fresh name, a read was of a confirmed object.
JobFacts(p) ==
  /\ At(p, "remove") /\ job[p].obj \notin condemned => archived[job[p].obj] = Whole
  /\ job[p].pc \in {"del_local", "del_archive"} => job[p].obj \in condemned
  /\ At(p, "put_local") => job[p].obj \in issued
  /\ job[p].pc \in {"read_stat", "read_archive"} => job[p].obj \in stored

\* The bodies of ReportedArchived and FallThroughFinds.
ReportedBy(p) ==
  /\ At(p, "done")
  /\ job[p].out \in {"archived", "archived_kept", "already_archived", "swept"}
  /\ job[p].obj \notin condemned
  => archived[job[p].obj] = Whole

FallThroughBy(p) ==
  At(p, "read_archive") /\ job[p].size = Absent /\ job[p].obj \notin condemned
  => archived[job[p].obj] = Whole

JobOK(p) == WholeJob(p) /\ JobFacts(p) /\ ReportedBy(p) /\ FallThroughBy(p)

IInv == TypeOK /\ WholeCopies /\ Durable /\ \A p \in Procs : JobOK(p)

-----------------------------------------------------------------------------
(* The effect of a write.                                                  *)

\* A write to a tier leaves the other keys alone and the key itself as it was or
\* as written; as written when the caller is told it succeeded.
LEMMA WrittenEffect ==
  ASSUME NEW tier \in [Objects -> Copy], NEW o \in Objects, NEW c \in Copy,
         NEW ok \in BOOLEAN, NEW t \in Written(tier, o, c, ok)
  PROVE  /\ t \in [Objects -> Copy]
         /\ \A x \in Objects \ {o} : t[x] = tier[x]
         /\ t[o] \in {tier[o], c}
         /\ ok => t[o] = c
BY DEF Written

\* What a step leaves alone, whoever takes it: the other jobs, the history, and
\* whole archived copies of objects nobody asked to delete.
Frame(p) ==
  /\ \A q \in Procs \ {p} : job'[q] = job[q]
  /\ issued \subseteq issued' /\ stored \subseteq stored'
  /\ condemned \subseteq condemned'
  /\ \A o \in Objects : archived[o] = Whole /\ o \notin condemned'
                        => archived'[o] = Whole

\* A step that keeps its own job in order keeps every job in order.
LEMMA FrameKeepsJobs ==
  ASSUME IInv, NEW p \in Procs, Frame(p), JobOK(p)'
  PROVE  \A q \in Procs : JobOK(q)'
<1> SUFFICES ASSUME NEW q \in Procs, q # p
             PROVE  JobOK(q)'
  OBVIOUS
<1>1. JobOK(q) /\ job'[q] = job[q] /\ job[q] \in JobType
  BY DEF IInv, Frame, TypeOK
<1>2. job[q].obj \in Objects
  BY <1>1 DEF JobType
<1>3. WholeJob(q)'
  BY <1>1 DEF JobOK, WholeJob
<1>4. JobFacts(q)'
  BY <1>1, <1>2 DEF JobOK, JobFacts, Frame, At
<1>5. ReportedBy(q)'
  BY <1>1, <1>2 DEF JobOK, ReportedBy, Frame, At
<1>6. FallThroughBy(q)'
  BY <1>1, <1>2 DEF JobOK, FallThroughBy, Frame, At
<1>7. QED
  BY <1>3, <1>4, <1>5, <1>6 DEF JobOK

\* A step that writes nowhere and keeps its own job in order keeps the
\* invariant.
LEMMA QuietStep ==
  ASSUME IInv, NEW p \in Procs, NoWrites, NoHistory,
         job'[p] \in JobType, job' = [job EXCEPT ![p] = job'[p]],
         JobOK(p)'
  PROVE  IInv'
<1>1. Frame(p)
  BY DEF Frame, NoWrites, NoHistory, IInv, TypeOK
<1>2. \A q \in Procs : JobOK(q)'
  BY <1>1, FrameKeepsJobs
<1>3. TypeOK' /\ WholeCopies' /\ Durable'
  BY DEF IInv, TypeOK, WholeCopies, Durable, NoWrites, NoHistory
<1>4. QED
  BY <1>2, <1>3 DEF IInv

\* The steps of a running job that write to neither tier.
LEMMA QuietStepsKeep ==
  ASSUME IInv, NEW p \in Procs,
         \/ StatLocal(p) \/ StatArchive(p) \/ Verify(p) \/ CopyOpen(p)
         \/ Reverify(p) \/ DryVerify(p) \/ SweepVerify(p)
         \/ RestoreStat(p) \/ RestoreOpen(p)
         \/ ReadStat(p) \/ ReadGet(p) \/ ReadArchive(p)
  PROVE  IInv'
<1> USE TieringAssumption
        DEF Whole, Absent, Error, Size, Copy, JobType, Answers, At, VerifyArchived,
            Goto, GotoSized, GotoWith, Finish, Serve, Confirmed
<1>1. /\ job \in [Procs -> JobType] /\ job[p] \in JobType /\ JobOK(p)
      /\ job[p].obj \in Objects
      /\ local[job[p].obj] \in {Absent, Whole}
      /\ archived[job[p].obj] \in {Absent, Whole}
      /\ job[p].obj \in stored \ condemned
           => local[job[p].obj] = Whole \/ archived[job[p].obj] = Whole
  BY DEF IInv, TypeOK, WholeCopies, Durable
<1>2. NoWrites /\ NoHistory
  BY DEF StatLocal, StatArchive, Verify, CopyOpen, Reverify, DryVerify, SweepVerify,
         RestoreStat, RestoreOpen, ReadStat, ReadGet, ReadArchive
<1>3. job'[p] \in JobType /\ job' = [job EXCEPT ![p] = job'[p]] /\ JobOK(p)'
  <2> USE <1>1, <1>2
      DEF Pcs, Outcomes, JobOK, WholeJob, JobFacts, ReportedBy, FallThroughBy,
          NoWrites, NoHistory
  <2>1. CASE StatLocal(p)
    BY <2>1 DEF StatLocal
  <2>2. CASE StatArchive(p)
    <3>1. \/ Finish(p, "already_archived") /\ archived[job[p].obj] = Whole
          \/ Finish(p, "not_found")
      <4>1. PICK answer \in Answers(archived[job[p].obj]) :
              Finish(p, IF answer \in Size THEN "already_archived" ELSE "not_found")
        BY <2>2 DEF StatArchive
      <4>2. CASE answer \in Size
        BY <4>1, <4>2
      <4>3. CASE answer \notin Size
        BY <4>1, <4>3
      <4>4. QED
        BY <4>2, <4>3
    <3>2. QED
      BY <3>1, <2>2
  <2>3. CASE Verify(p)
    BY <2>3 DEF Verify
  <2>4. CASE CopyOpen(p)
    BY <2>4 DEF CopyOpen
  <2>5. CASE Reverify(p)
    BY <2>5 DEF Reverify
  <2>6. CASE DryVerify(p)
    <3>1. \/ Finish(p, "skipped") \/ Finish(p, "failed") \/ Finish(p, "would_copy")
      <4>1. PICK answer \in Answers(archived[job[p].obj]) :
              Finish(p, CASE VerifyArchived(answer, job[p].size) = "ok"    -> "skipped"
                          [] VerifyArchived(answer, job[p].size) = "error" -> "failed"
                          [] OTHER                                         -> "would_copy")
        BY <2>6 DEF DryVerify
      <4>2. QED
        BY ONLY <4>1 DEF Finish
    <3>2. QED
      BY <3>1, <2>6
  <2>7. CASE SweepVerify(p)
    BY <2>7 DEF SweepVerify
  <2>8. CASE RestoreStat(p)
    BY <2>8 DEF RestoreStat
  <2>9. CASE RestoreOpen(p)
    BY <2>9 DEF RestoreOpen
  <2>10. CASE ReadStat(p)
    BY <2>10 DEF ReadStat
  <2>11. CASE ReadGet(p)
    BY <2>11 DEF ReadGet
  <2>12. CASE ReadArchive(p)
    BY <2>12 DEF ReadArchive
  <2>13. QED
    BY <2>1, <2>2, <2>3, <2>4, <2>5, <2>6, <2>7, <2>8, <2>9, <2>10, <2>11, <2>12
<1>4. QED
  BY <1>2, <1>3, QuietStep

\* An idle process holds a well-typed job.
LEMMA NoJobType == NoJob \in JobType
<1>1. (CHOOSE o \in Objects : TRUE) \in Objects
  BY TieringAssumption
<1>2. QED
  BY <1>1 DEF NoJob, NewJob, JobType, Pcs, Outcomes, Copy, Absent

\* Jobs that begin, or die, without touching the history.
LEMMA QuietStartsKeep ==
  ASSUME IInv, NEW p \in Procs, NEW o \in Objects, NEW b \in BOOLEAN,
         \/ StartArchive(p, o, b) \/ StartBackfill(p, o, b)
         \/ StartSweep(p, o, b) \/ StartRestore(p, o, b)
         \/ StartRead(p, o) \/ Crash(p)
  PROVE  IInv'
<1> USE TieringAssumption DEF Whole, Absent, Error, Size, Copy, JobType, At
<1>1. /\ job \in [Procs -> JobType] /\ job[p] \in JobType /\ JobOK(p)
      /\ local[o] \in {Absent, Whole} /\ archived[o] \in {Absent, Whole}
  BY DEF IInv, TypeOK, WholeCopies
<1>2. NoWrites /\ NoHistory
  BY DEF StartArchive, StartBackfill, StartSweep, StartRestore, StartRead, Crash
<1>3. job'[p] \in JobType /\ job' = [job EXCEPT ![p] = job'[p]] /\ JobOK(p)'
  <2> USE <1>1, <1>2
      DEF Pcs, Outcomes, OpKinds, JobOK, WholeJob, JobFacts, ReportedBy, FallThroughBy,
          NoWrites, NoHistory, Begin, NewJob
  <2>1. CASE StartArchive(p, o, b)
    BY <2>1 DEF StartArchive
  <2>2. CASE StartBackfill(p, o, b)
    BY <2>2 DEF StartBackfill
  <2>3. CASE StartSweep(p, o, b)
    BY <2>3 DEF StartSweep
  <2>4. CASE StartRestore(p, o, b)
    BY <2>4 DEF StartRestore
  <2>5. CASE StartRead(p, o)
    BY <2>5 DEF StartRead
  <2>6. CASE Crash(p)
    <3>1. job' = [job EXCEPT ![p] = NoJob]
      BY <2>6 DEF Crash
    <3>2. job'[p] = NoJob
      BY <3>1
    <3>3. NoJob.pc = "idle"
      BY DEF NoJob
    <3>4. QED
      BY <3>1, <3>2, <3>3, NoJobType
  <2>7. QED
    BY <2>1, <2>2, <2>3, <2>4, <2>5, <2>6
<1>4. QED
  BY <1>2, <1>3, QuietStep

\* A step that writes, or that adds to the history, keeps the invariant when it
\* keeps the frame, its own job and the two facts about copies.
LEMMA WritingStep ==
  ASSUME IInv, NEW p \in Procs, Frame(p), TypeOK', WholeCopies', Durable', JobOK(p)'
  PROVE  IInv'
BY FrameKeepsJobs DEF IInv

\* A new upload takes a name nobody has used (handler/image.go:612, uuid).
LEMMA StartUploadKeeps ==
  ASSUME IInv, NEW p \in Procs, NEW o \in Objects, StartUpload(p, o)
  PROVE  IInv'
<1> USE TieringAssumption DEF Whole, Absent, Error, Size, Copy, JobType, At
<1>1. /\ job \in [Procs -> JobType] /\ TypeOK
      /\ UNCHANGED <<local, archived, stored, condemned>>
      /\ issued' = issued \cup {o}
      /\ job' = [job EXCEPT ![p] = NewJob("upload", "put_local", o, Whole, FALSE, TRUE)]
  BY DEF IInv, TypeOK, StartUpload, Begin, NoWrites
<1>2. Frame(p) /\ TypeOK' /\ JobOK(p)'
  BY <1>1 DEF Frame, TypeOK, NewJob, Pcs, Outcomes, OpKinds, JobOK, WholeJob, JobFacts,
     ReportedBy, FallThroughBy
<1>3. WholeCopies' /\ Durable'
  BY <1>1 DEF IInv, WholeCopies, Durable
<1>4. QED
  BY <1>2, <1>3, WritingStep

\* Asking for a delete condemns the object before anything is removed.
LEMMA StartDeleteKeeps ==
  ASSUME IInv, NEW p \in Procs, NEW o \in Objects, NEW aws \in BOOLEAN,
         StartDelete(p, o, aws)
  PROVE  IInv'
<1> USE TieringAssumption DEF Whole, Absent, Error, Size, Copy, JobType, At
<1>1. /\ job \in [Procs -> JobType] /\ TypeOK
      /\ UNCHANGED <<local, archived, issued, stored>>
      /\ condemned' = condemned \cup {o}
      /\ job' = [job EXCEPT ![p] = NewJob("delete", "del_local", o, Absent, FALSE, aws)]
  BY DEF IInv, TypeOK, StartDelete, Begin, NoWrites
<1>2. Frame(p) /\ TypeOK' /\ JobOK(p)'
  BY <1>1 DEF Frame, TypeOK, NewJob, Pcs, Outcomes, OpKinds, JobOK, WholeJob, JobFacts,
     ReportedBy, FallThroughBy
<1>3. WholeCopies' /\ Durable'
  BY <1>1 DEF IInv, WholeCopies, Durable
<1>4. QED
  BY <1>2, <1>3, WritingStep

\* A write to the archive: whole, or a removal that was asked for.
LEMMA ArchiveWriteKeeps ==
  ASSUME IInv, NEW p \in Procs, NEW o \in Objects, UNCHANGED local, NoHistory,
         \A y \in Objects \ {o} : archived'[y] = archived[y],
         archived' \in [Objects -> Copy],
         \/ archived'[o] \in {archived[o], Whole}
         \/ o \in condemned /\ archived'[o] = Absent,
         job'[p] \in JobType, job' = [job EXCEPT ![p] = job'[p]], JobOK(p)'
  PROVE  IInv'
<1> USE DEF NoHistory
<1>1. TypeOK /\ WholeCopies /\ Durable /\ TypeOK'
  BY DEF IInv, TypeOK
<1>2. Frame(p)
  BY <1>1 DEF Frame, TypeOK
<1>3. WholeCopies'
  <2> SUFFICES ASSUME NEW y \in Objects
               PROVE  local'[y] \in {Absent, Whole} /\ archived'[y] \in {Absent, Whole}
    BY DEF WholeCopies
  <2> QED
    BY <1>1 DEF WholeCopies
<1>4. Durable'
  <2> SUFFICES ASSUME NEW y \in stored \ condemned
               PROVE  local[y] = Whole \/ archived'[y] = Whole
    BY DEF Durable
  <2>1. y \in Objects /\ (local[y] = Whole \/ archived[y] = Whole)
    BY <1>1 DEF Durable, TypeOK
  <2> QED
    BY <2>1
<1>5. QED
  BY <1>1, <1>2, <1>3, <1>4, WritingStep

\* A write to local storage: whole, or a removal that was asked for or that the
\* archive authorised.
LEMMA LocalWriteKeeps ==
  ASSUME IInv, NEW p \in Procs, NEW o \in Objects,
         UNCHANGED <<archived, issued, condemned>>,
         \A y \in Objects \ {o} : local'[y] = local[y],
         local' \in [Objects -> Copy],
         \/ local'[o] \in {local[o], Whole}
         \/ (o \in condemned \/ archived[o] = Whole) /\ local'[o] = Absent,
         \/ stored' = stored
         \/ stored' = stored \cup {o} /\ o \in issued /\ local'[o] = Whole,
         job'[p] \in JobType, job' = [job EXCEPT ![p] = job'[p]], JobOK(p)'
  PROVE  IInv'
<1>1. TypeOK /\ WholeCopies /\ Durable
  BY DEF IInv
<1>2. TypeOK'
  BY <1>1 DEF TypeOK
<1>3. Frame(p)
  BY <1>1 DEF Frame, TypeOK
<1>4. WholeCopies'
  <2> SUFFICES ASSUME NEW y \in Objects
               PROVE  local'[y] \in {Absent, Whole} /\ archived'[y] \in {Absent, Whole}
    BY DEF WholeCopies
  <2> QED
    BY <1>1 DEF WholeCopies
<1>5. Durable'
  <2> SUFFICES ASSUME NEW y \in stored' \ condemned
               PROVE  local'[y] = Whole \/ archived[y] = Whole
    BY DEF Durable
  <2>1. CASE y = o /\ o \notin stored
    BY <2>1
  <2>2. CASE y \in stored
    <3>1. y \in Objects /\ (local[y] = Whole \/ archived[y] = Whole)
      BY <1>1, <2>2 DEF Durable, TypeOK
    <3> QED
      BY <3>1
  <2> QED
    BY <2>1, <2>2
<1>6. QED
  BY <1>2, <1>3, <1>4, <1>5, WritingStep

\* A whole object and no object are both possible copies.
LEMMA WholeIsCopy == Whole \in Copy /\ Absent \in Copy
BY TieringAssumption DEF Whole, Copy, Size, Absent

\* The mirror of an upload writes the whole object or nothing
\* (handler/image.go:130-142).
LEMMA UploadMirrorKeeps ==
  ASSUME IInv, SoundStores, NEW p \in Procs, UploadMirror(p)
  PROVE  IInv'
<1>1. /\ job \in [Procs -> JobType] /\ job[p] \in JobType /\ job[p].obj \in Objects
      /\ archived \in [Objects -> Copy] /\ JobOK(p)
  BY DEF IInv, TypeOK, JobType
<1>2. PICK ok \in BOOLEAN, len \in Landed(Whole) :
        archived' \in Written(archived, job[p].obj, len, ok)
  BY DEF UploadMirror
<1>3. len = Whole
  BY <1>2 DEF Landed, SoundStores
<1>4. /\ archived' \in [Objects -> Copy]
      /\ \A y \in Objects \ {job[p].obj} : archived'[y] = archived[y]
      /\ archived'[job[p].obj] \in {archived[job[p].obj], Whole}
  BY <1>1, <1>2, <1>3, WrittenEffect, WholeIsCopy
<1>5. UNCHANGED local /\ NoHistory
  BY DEF UploadMirror
<1>6. job'[p] \in JobType /\ job' = [job EXCEPT ![p] = job'[p]] /\ JobOK(p)'
  BY <1>1, <1>5 DEF JobType, At, UploadMirror, Finish, Pcs, Outcomes,
     JobOK, WholeJob, JobFacts, ReportedBy, FallThroughBy
<1>7. QED
  BY <1>1, <1>4, <1>5, <1>6, ArchiveWriteKeeps

\* copyToArchive writes the whole object or nothing (service/tiering.go:339).
LEMMA CopyPutKeeps ==
  ASSUME IInv, SoundStores, NEW p \in Procs, CopyPut(p)
  PROVE  IInv'
<1>1. /\ job \in [Procs -> JobType] /\ job[p] \in JobType /\ job[p].obj \in Objects
      /\ archived \in [Objects -> Copy] /\ JobOK(p)
      /\ job[p].body = Whole /\ job[p].size = Whole
  BY DEF IInv, TypeOK, JobType, JobOK, WholeJob, CopyPut, At
<1>2. PICK ok \in BOOLEAN, len \in Landed(Whole) :
        /\ archived' \in Written(archived, job[p].obj, len, ok)
        /\ IF ok THEN Goto(p, "reverify") ELSE Finish(p, "failed")
  BY <1>1 DEF CopyPut
<1>3. len = Whole
  BY <1>2 DEF Landed, SoundStores
<1>4. /\ archived' \in [Objects -> Copy]
      /\ \A y \in Objects \ {job[p].obj} : archived'[y] = archived[y]
      /\ archived'[job[p].obj] \in {archived[job[p].obj], Whole}
  BY <1>1, <1>2, <1>3, WrittenEffect, WholeIsCopy
<1>5. UNCHANGED local /\ NoHistory
  BY DEF CopyPut
<1>6. job'[p] \in JobType /\ job' = [job EXCEPT ![p] = job'[p]] /\ JobOK(p)'
  BY <1>1, <1>2, <1>5 DEF JobType, At, Goto, Finish, Pcs, Outcomes,
     JobOK, WholeJob, JobFacts, ReportedBy, FallThroughBy
<1>7. QED
  BY <1>1, <1>4, <1>5, <1>6, ArchiveWriteKeeps

\* BatchDelete removes an archived copy only of a condemned object
\* (handler/image.go:1281).
LEMMA DeleteArchivedKeeps ==
  ASSUME IInv, NEW p \in Procs, DeleteArchived(p)
  PROVE  IInv'
<1>1. /\ job \in [Procs -> JobType] /\ job[p] \in JobType /\ job[p].obj \in Objects
      /\ archived \in [Objects -> Copy] /\ JobOK(p)
      /\ job[p].obj \in condemned
  BY DEF IInv, TypeOK, JobType, JobOK, JobFacts, DeleteArchived, At
<1>2. PICK ok \in BOOLEAN :
        archived' \in IF Parity THEN Written(archived, job[p].obj, Absent, ok)
                               ELSE {archived}
  BY DEF DeleteArchived
<1>3. /\ archived' \in [Objects -> Copy]
      /\ \A y \in Objects \ {job[p].obj} : archived'[y] = archived[y]
      /\ archived'[job[p].obj] \in {archived[job[p].obj], Absent}
  BY <1>1, <1>2, WrittenEffect, WholeIsCopy
<1>4. UNCHANGED local /\ NoHistory
  BY DEF DeleteArchived
<1>5. job'[p] \in JobType /\ job' = [job EXCEPT ![p] = job'[p]] /\ JobOK(p)'
  BY <1>1, <1>4 DEF JobType, At, DeleteArchived, Finish, Pcs, Outcomes,
     JobOK, WholeJob, JobFacts, ReportedBy, FallThroughBy, NoHistory
<1>6. QED
  BY <1>1, <1>3, <1>4, <1>5, ArchiveWriteKeeps

\* What a local write of job p does to its object, once its outcome is known.
LEMMA LocalWriteEffect ==
  ASSUME IInv, NEW p \in Procs, NEW c \in Copy, NEW ok \in BOOLEAN,
         local' \in Written(local, job[p].obj, c, ok)
  PROVE  /\ local' \in [Objects -> Copy]
         /\ \A y \in Objects \ {job[p].obj} : local'[y] = local[y]
         /\ local'[job[p].obj] \in {local[job[p].obj], c}
         /\ ok => local'[job[p].obj] = c
<1>1. local \in [Objects -> Copy] /\ job[p].obj \in Objects
  BY DEF IInv, TypeOK, JobType
<1>2. QED
  BY <1>1, WrittenEffect

\* An upload reaches local storage whole or not at all (handler/image.go).
LEMMA UploadPutKeeps ==
  ASSUME IInv, NEW p \in Procs, UploadPut(p)
  PROVE  IInv'
<1>1. /\ job \in [Procs -> JobType] /\ job[p] \in JobType /\ job[p].obj \in Objects
      /\ JobOK(p) /\ job[p].obj \in issued
  BY DEF IInv, TypeOK, JobType, JobOK, JobFacts, UploadPut, At
<1>2. UNCHANGED <<archived, issued, condemned>>
  BY DEF UploadPut
<1>3. \/ /\ local' \in Written(local, job[p].obj, Whole, TRUE)
         /\ stored' = stored \cup {job[p].obj}
         /\ Goto(p, "mirror") \/ Finish(p, "stored")
      \/ /\ local' \in Written(local, job[p].obj, Whole, FALSE)
         /\ stored' = stored
         /\ Finish(p, "failed")
  BY DEF UploadPut
<1>4. /\ local' \in [Objects -> Copy]
      /\ \A y \in Objects \ {job[p].obj} : local'[y] = local[y]
      /\ local'[job[p].obj] \in {local[job[p].obj], Whole}
      /\ \/ stored' = stored
         \/ stored' = stored \cup {job[p].obj} /\ local'[job[p].obj] = Whole
  <2>1. CASE /\ local' \in Written(local, job[p].obj, Whole, TRUE)
             /\ stored' = stored \cup {job[p].obj}
    BY <2>1, LocalWriteEffect, WholeIsCopy
  <2>2. CASE /\ local' \in Written(local, job[p].obj, Whole, FALSE)
             /\ stored' = stored
    BY <2>2, LocalWriteEffect, WholeIsCopy
  <2>3. QED
    BY <1>3, <2>1, <2>2
<1>5. Goto(p, "mirror") \/ Finish(p, "stored") \/ Finish(p, "failed")
  BY <1>3
<1>6. job'[p] \in JobType /\ job' = [job EXCEPT ![p] = job'[p]] /\ JobOK(p)'
  BY <1>1, <1>2, <1>5 DEF JobType, At, Goto, Finish, Pcs, Outcomes,
     JobOK, WholeJob, JobFacts, ReportedBy, FallThroughBy
<1>7. QED
  BY <1>1, <1>2, <1>4, <1>6, LocalWriteKeeps

\* The remove that ends ArchiveKnownObject and the sweep was authorised by the
\* archive, and what authorised it is still there.
LEMMA RemoveLocalKeeps ==
  ASSUME IInv, NEW p \in Procs, RemoveLocal(p)
  PROVE  IInv'
<1>1. /\ job \in [Procs -> JobType] /\ job[p] \in JobType /\ job[p].obj \in Objects
      /\ JobOK(p)
      /\ job[p].obj \in condemned \/ archived[job[p].obj] = Whole
  BY DEF IInv, TypeOK, JobType, JobOK, JobFacts, RemoveLocal, At
<1>2. UNCHANGED archived /\ NoHistory
  BY DEF RemoveLocal
<1>3. PICK ok \in BOOLEAN :
        /\ local' \in Written(local, job[p].obj, Absent, ok)
        /\ Finish(p, CASE ~ok -> "failed"
                        [] ok /\ job[p].op = "retention" -> "swept"
                        [] OTHER -> "archived")
  BY DEF RemoveLocal
<1>4. /\ local' \in [Objects -> Copy]
      /\ \A y \in Objects \ {job[p].obj} : local'[y] = local[y]
      /\ local'[job[p].obj] \in {local[job[p].obj], Absent}
  BY <1>3, LocalWriteEffect, WholeIsCopy
<1>5. Finish(p, "failed") \/ Finish(p, "swept") \/ Finish(p, "archived")
  <2>1. CASE ~ok
    BY ONLY <1>3, <2>1 DEF Finish
  <2>2. CASE ok /\ job[p].op = "retention"
    BY ONLY <1>3, <2>2 DEF Finish
  <2>3. CASE ok /\ job[p].op # "retention"
    BY ONLY <1>3, <2>3 DEF Finish
  <2>4. QED
    BY <2>1, <2>2, <2>3
<1>6. job'[p] \in JobType /\ job' = [job EXCEPT ![p] = job'[p]] /\ JobOK(p)'
  BY <1>1, <1>2, <1>5 DEF JobType, At, Finish, Pcs, Outcomes, NoHistory,
     JobOK, WholeJob, JobFacts, ReportedBy, FallThroughBy
<1>7. UNCHANGED <<archived, issued, condemned>> /\ stored' = stored
  BY <1>2 DEF NoHistory
<1>8. QED
  BY <1>1, <1>4, <1>6, <1>7, LocalWriteKeeps

\* A restore writes the whole archived copy over whatever is local.
LEMMA RestorePutKeeps ==
  ASSUME IInv, NEW p \in Procs, RestorePut(p)
  PROVE  IInv'
<1>1. /\ job \in [Procs -> JobType] /\ job[p] \in JobType /\ job[p].obj \in Objects
      /\ JobOK(p) /\ job[p].body = Whole
  BY DEF IInv, TypeOK, JobType, JobOK, WholeJob, RestorePut, At
<1>2. UNCHANGED archived /\ NoHistory
  BY DEF RestorePut
<1>3. PICK ok \in BOOLEAN :
        /\ local' \in Written(local, job[p].obj, Whole, ok)
        /\ Finish(p, IF ok THEN "restored" ELSE "failed")
  BY <1>1 DEF RestorePut
<1>4. /\ local' \in [Objects -> Copy]
      /\ \A y \in Objects \ {job[p].obj} : local'[y] = local[y]
      /\ local'[job[p].obj] \in {local[job[p].obj], Whole}
  BY <1>3, LocalWriteEffect, WholeIsCopy
<1>5. Finish(p, "restored") \/ Finish(p, "failed")
  <2>1. CASE ok
    BY <1>3, <2>1
  <2>2. CASE ~ok
    BY <1>3, <2>2
  <2>3. QED
    BY <2>1, <2>2
<1>6. job'[p] \in JobType /\ job' = [job EXCEPT ![p] = job'[p]] /\ JobOK(p)'
  BY <1>1, <1>2, <1>5 DEF JobType, At, Finish, Pcs, Outcomes, NoHistory,
     JobOK, WholeJob, JobFacts, ReportedBy, FallThroughBy
<1>7. UNCHANGED <<archived, issued, condemned>> /\ stored' = stored
  BY <1>2 DEF NoHistory
<1>8. QED
  BY <1>1, <1>4, <1>6, <1>7, LocalWriteKeeps

\* The local half of a delete touches only an object somebody asked to delete.
LEMMA DeleteLocalKeeps ==
  ASSUME IInv, NEW p \in Procs, DeleteLocal(p)
  PROVE  IInv'
<1>1. /\ job \in [Procs -> JobType] /\ job[p] \in JobType /\ job[p].obj \in Objects
      /\ JobOK(p) /\ job[p].obj \in condemned
  BY DEF IInv, TypeOK, JobType, JobOK, JobFacts, DeleteLocal, At
<1>2. UNCHANGED archived /\ NoHistory
  BY DEF DeleteLocal
<1>3. PICK ok \in BOOLEAN :
        /\ local' \in Written(local, job[p].obj, Absent, ok)
        /\ Goto(p, "del_archive") \/ Finish(p, "deleted") \/ Finish(p, "failed")
  BY DEF DeleteLocal
<1>4. /\ local' \in [Objects -> Copy]
      /\ \A y \in Objects \ {job[p].obj} : local'[y] = local[y]
      /\ local'[job[p].obj] \in {local[job[p].obj], Absent}
  BY <1>3, LocalWriteEffect, WholeIsCopy
<1>5. job'[p] \in JobType /\ job' = [job EXCEPT ![p] = job'[p]] /\ JobOK(p)'
  BY <1>1, <1>2, <1>3 DEF JobType, At, Goto, Finish, Pcs, Outcomes, NoHistory,
     JobOK, WholeJob, JobFacts, ReportedBy, FallThroughBy
<1>6. UNCHANGED <<archived, issued, condemned>> /\ stored' = stored
  BY <1>2 DEF NoHistory
<1>7. QED
  BY <1>1, <1>4, <1>5, <1>6, LocalWriteKeeps

-----------------------------------------------------------------------------
(* The invariant holds, and what follows from it.                          *)

\* Nothing the deployment starts with breaks the invariant.
LEMMA InitIInv == SoundStores /\ Init => IInv
<1> SUFFICES ASSUME SoundStores, Init
             PROVE  IInv
  OBVIOUS
<1>1. \A o \in Objects :
        \/ o \in Legacy /\ <<local[o], archived[o]>> \in
                             {<<Whole, Absent>>, <<Whole, Whole>>, <<Absent, Whole>>}
        \/ o \notin Legacy /\ <<local[o], archived[o]>> = <<Absent, Absent>>
  BY DEF Init, SoundStores, LegacyTiers
<1>2. TypeOK
  <2>1. job \in [Procs -> JobType]
    BY NoJobType DEF Init
  <2>2. QED
    BY <2>1, TieringAssumption DEF Init, TypeOK
<1>3. WholeCopies
  BY <1>1 DEF WholeCopies
<1>4. Durable
  BY <1>1, TieringAssumption DEF Durable, Init
<1>5. ASSUME NEW p \in Procs
      PROVE  JobOK(p)
  <2>1. job[p].pc = "idle"
    BY DEF Init, NoJob, NewJob
  <2>2. QED
    BY <2>1 DEF JobOK, WholeJob, JobFacts, ReportedBy, FallThroughBy, At
<1>6. QED
  BY <1>2, <1>3, <1>4, <1>5 DEF IInv

\* Every call, crash and fault of sound stores preserves the invariant.
LEMMA NextKeepsIInv == SoundStores /\ IInv /\ [Next]_vars => IInv'
<1> SUFFICES ASSUME SoundStores, IInv, [Next]_vars
             PROVE  IInv'
  OBVIOUS
<1>1. CASE UNCHANGED vars
  BY <1>1 DEF vars, IInv, TypeOK, WholeCopies, Durable, JobOK, WholeJob, JobFacts,
     ReportedBy, FallThroughBy, At
<1>2. ASSUME NEW p \in Procs, Start(p)
      PROVE  IInv'
  <2> PICK o \in Objects :
        \/ StartUpload(p, o)
        \/ StartRead(p, o)
        \/ \E b \in BOOLEAN :
             \/ StartArchive(p, o, b)
             \/ StartBackfill(p, o, b)
             \/ StartSweep(p, o, b)
             \/ StartRestore(p, o, b)
             \/ StartDelete(p, o, b)
    BY <1>2 DEF Start
  <2>1. CASE StartUpload(p, o)
    BY <2>1, StartUploadKeeps
  <2>2. CASE StartRead(p, o)
    <3>1. TRUE \in BOOLEAN
      OBVIOUS
    <3>2. QED
      BY <2>2, <3>1, QuietStartsKeep
  <2>3. ASSUME NEW b \in BOOLEAN,
               \/ StartArchive(p, o, b) \/ StartBackfill(p, o, b)
               \/ StartSweep(p, o, b) \/ StartRestore(p, o, b)
        PROVE  IInv'
    BY <2>3, QuietStartsKeep
  <2>4. ASSUME NEW b \in BOOLEAN, StartDelete(p, o, b)
        PROVE  IInv'
    BY <2>4, StartDeleteKeeps
  <2>5. QED
    BY <2>1, <2>2, <2>3, <2>4
<1>3. ASSUME NEW p \in Procs, Step(p)
      PROVE  IInv'
  BY <1>3, UploadPutKeeps, UploadMirrorKeeps, QuietStepsKeep, CopyPutKeeps,
     RemoveLocalKeeps, RestorePutKeeps, DeleteLocalKeeps, DeleteArchivedKeeps DEF Step
<1>4. ASSUME NEW p \in Procs, Crash(p)
      PROVE  IInv'
  <2>1. (CHOOSE o \in Objects : TRUE) \in Objects /\ TRUE \in BOOLEAN
    BY TieringAssumption
  <2>2. QED
    BY <1>4, <2>1, QuietStartsKeep
<1>5. QED
  BY <1>1, <1>2, <1>3, <1>4 DEF Next

\* With sound stores the invariant holds in every reachable state.
LEMMA Invariant == SoundStores => (Spec => []IInv)
<1>1. CASE SoundStores
  <2>1. Init => IInv
    BY <1>1, InitIInv
  <2>2. IInv /\ [Next]_vars => IInv'
    BY <1>1, NextKeepsIInv
  <2>3. QED
    BY <2>1, <2>2, PTL DEF Spec
<1>2. QED
  BY <1>1

\* An object whose upload MinIO confirmed is whole in some tier until somebody
\* asks to delete it (service/tiering.go:92-96), on every deployment whose
\* stores keep what they are given.
THEOREM DurableTheorem == SoundStores => (Spec => []Durable)
<1>1. IInv => Durable
  BY DEF IInv
<1>2. QED
  BY <1>1, Invariant, PTL

\* The outcomes that say an object is archived (service/tiering.go:52-69) stay
\* true after they were reported.
THEOREM ReportedArchivedTheorem == SoundStores => (Spec => []ReportedArchived)
<1>1. IInv => ReportedArchived
  BY DEF IInv, JobOK, ReportedBy, ReportedArchived
<1>2. QED
  BY <1>1, Invariant, PTL

\* A read that missed locally finds the archived copy (handler/image.go:485).
THEOREM FallThroughTheorem == SoundStores => (Spec => []FallThroughFinds)
<1>1. IInv => FallThroughFinds
  BY DEF IInv, JobOK, FallThroughBy, FallThroughFinds
<1>2. QED
  BY <1>1, Invariant, PTL

\* One step of the system frees the local copy of an object nobody asked to
\* delete only when the archive holds it whole.
LEMMA StepEvicts ==
  ASSUME IInv, NEW p \in Procs, Step(p), NEW o \in Objects \ condemned,
         local[o] # Absent, local'[o] = Absent
  PROVE  archived[o] = local[o]
<1>1. /\ JobOK(p) /\ job[p].obj \in Objects /\ local[o] = Whole
      /\ Whole # Absent /\ local \in [Objects -> Copy]
  BY TieringAssumption DEF IInv, TypeOK, JobType, WholeCopies, Whole, Absent
<1>2. \/ UploadPut(p) \/ RemoveLocal(p) \/ RestorePut(p) \/ DeleteLocal(p)
  BY DEF Step, NoWrites, UploadMirror, CopyPut, DeleteArchived, StatLocal, StatArchive,
     Verify, CopyOpen, Reverify, DryVerify, SweepVerify, RestoreStat, RestoreOpen,
     ReadStat, ReadGet, ReadArchive
<1>3. CASE UploadPut(p)
  <2>1. \E ok \in BOOLEAN : local' \in Written(local, job[p].obj, Whole, ok)
    BY <1>3 DEF UploadPut
  <2>2. local'[o] \in {local[o], Whole}
    BY <1>1, <2>1, LocalWriteEffect, WholeIsCopy
  <2>3. QED
    BY <1>1, <2>2
<1>4. CASE RestorePut(p)
  <2>1. job[p].body = Whole
    BY <1>1, <1>4 DEF JobOK, WholeJob, RestorePut, At
  <2>2. \E ok \in BOOLEAN : local' \in Written(local, job[p].obj, Whole, ok)
    BY <1>4, <2>1 DEF RestorePut
  <2>3. local'[o] \in {local[o], Whole}
    BY <1>1, <2>2, LocalWriteEffect, WholeIsCopy
  <2>4. QED
    BY <1>1, <2>3
<1>5. CASE RemoveLocal(p) \/ DeleteLocal(p)
  <2>1. \E ok \in BOOLEAN : local' \in Written(local, job[p].obj, Absent, ok)
    BY <1>5 DEF RemoveLocal, DeleteLocal
  <2>2. o = job[p].obj
    BY <2>1, LocalWriteEffect, WholeIsCopy
  <2>3. RemoveLocal(p)
    BY <1>1, <1>5, <2>2 DEF JobOK, JobFacts, DeleteLocal, At
  <2>4. archived[o] = Whole
    BY <1>1, <2>2, <2>3 DEF JobOK, JobFacts, RemoveLocal, At
  <2>5. QED
    BY <1>1, <2>4
<1>6. QED
  BY <1>2, <1>3, <1>4, <1>5

\* A local copy goes only while the archive holds one of the same length
\* (service/tiering.go:133-146), however many callers interleave.
THEOREM EvictionTheorem == SoundStores => (Spec => EvictionVerified)
<1>1. IInv /\ [Next]_vars =>
        [\A o \in Objects \ condemned :
           local[o] # Absent /\ local'[o] = Absent => archived[o] = local[o]]_vars
  <2> SUFFICES ASSUME IInv, Next, NEW o \in Objects \ condemned,
                      local[o] # Absent, local'[o] = Absent
               PROVE  archived[o] = local[o]
    BY DEF vars
  <2>1. PICK p \in Procs : Start(p) \/ Step(p) \/ Crash(p)
    BY DEF Next
  <2>2. CASE Start(p) \/ Crash(p)
    <3>1. NoWrites
      BY <2>2 DEF Start, Crash, StartUpload, StartRead, StartArchive, StartBackfill,
         StartSweep, StartRestore, StartDelete
    <3>2. QED
      BY <3>1 DEF NoWrites
  <2>3. CASE Step(p)
    BY <2>3, StepEvicts
  <2>4. QED
    BY <2>1, <2>2, <2>3
<1>2. QED
  BY <1>1, Invariant, PTL DEF Spec, EvictionVerified

-----------------------------------------------------------------------------
(* What holds under every fault, short archive writes included.            *)

\* A dry run of the backfill or of the sweep is only ever asking the archive.
DryJob(p) ==
  job[p].op \in {"backfill", "retention"} /\ ~job[p].apply
    => job[p].pc \in {"dry_verify", "sweep_verify", "done"}

UploadIssued(p) == At(p, "put_local") => job[p].obj \in issued

TInv == TypeOK /\ \A p \in Procs : DryJob(p) /\ UploadIssued(p)

\* Writes of any length within the object's keep the tiers' type.
LEMMA WritesTyped ==
  ASSUME TypeOK, NEW o \in Objects, NEW c \in Copy, NEW ok \in BOOLEAN
  PROVE  /\ \A t \in Written(local, o, c, ok) : t \in [Objects -> Copy]
         /\ \A t \in Written(archived, o, c, ok) : t \in [Objects -> Copy]
BY DEF TypeOK, Written

\* What an archive PUT leaves behind is a possible copy.
LEMMA LandedTyped ==
  ASSUME NEW len \in Copy
  PROVE  Landed(len) \subseteq Copy
BY TieringAssumption DEF Landed, Copy, Size, Absent

\* A step that leaves the other jobs alone keeps TInv when its own job is in
\* order and the tiers and the history keep their types.
LEMMA TypedStep ==
  ASSUME TInv, NEW p \in Procs,
         local' \in [Objects -> Copy], archived' \in [Objects -> Copy],
         issued \subseteq issued', issued' \subseteq Objects,
         stored' \subseteq issued', condemned' \subseteq Objects,
         job'[p] \in JobType, job' = [job EXCEPT ![p] = job'[p]],
         DryJob(p)', UploadIssued(p)'
  PROVE  TInv'
<1>1. job \in [Procs -> JobType] /\ \A q \in Procs : DryJob(q) /\ UploadIssued(q)
  BY DEF TInv, TypeOK
<1>2. TypeOK'
  BY <1>1 DEF TypeOK
<1>3. ASSUME NEW q \in Procs, q # p
      PROVE  DryJob(q)' /\ UploadIssued(q)'
  BY <1>1, <1>3 DEF DryJob, UploadIssued, At
<1>4. QED
  BY <1>2, <1>3 DEF TInv

\* Starting or losing a job.
LEMMA StartsTyped ==
  ASSUME TInv, NEW p \in Procs, NEW o \in Objects, NEW b \in BOOLEAN,
         \/ StartUpload(p, o) \/ StartRead(p, o)
         \/ StartArchive(p, o, b) \/ StartBackfill(p, o, b)
         \/ StartSweep(p, o, b) \/ StartRestore(p, o, b)
         \/ StartDelete(p, o, b) \/ Crash(p)
  PROVE  TInv'
<1>1. TypeOK /\ job \in [Procs -> JobType] /\ local[o] \in Copy /\ archived[o] \in Copy
  BY DEF TInv, TypeOK
<1>2. /\ local' = local /\ archived' = archived
      /\ issued' \in {issued, issued \cup {o}} /\ stored' = stored
      /\ condemned' \in {condemned, condemned \cup {o}}
  BY DEF StartUpload, StartRead, StartArchive, StartBackfill, StartSweep, StartRestore,
     StartDelete, Crash, NoWrites, NoHistory
<1>3. job'[p] \in JobType /\ job' = [job EXCEPT ![p] = job'[p]]
      /\ DryJob(p)' /\ UploadIssued(p)'
  <2>1. CASE Crash(p)
    <3>1. job' = [job EXCEPT ![p] = NoJob] /\ job'[p] = NoJob
      BY <1>1, <2>1 DEF Crash
    <3>2. NoJob.pc = "idle" /\ NoJob.op = "none"
      BY DEF NoJob, NewJob
    <3>3. QED
      BY <3>1, <3>2, NoJobType DEF DryJob, UploadIssued, At
  <2> USE <1>1, TieringAssumption
      DEF Begin, NewJob, JobType, Pcs, Outcomes, OpKinds, Copy, Size, Whole, Absent,
          DryJob, UploadIssued, At
  <2>2. CASE StartUpload(p, o)
    BY <2>2 DEF StartUpload
  <2>3. CASE StartRead(p, o)
    BY <2>3 DEF StartRead
  <2>4. CASE StartArchive(p, o, b)
    BY <2>4 DEF StartArchive
  <2>5. CASE StartBackfill(p, o, b)
    BY <2>5 DEF StartBackfill
  <2>6. CASE StartSweep(p, o, b)
    BY <2>6 DEF StartSweep
  <2>7. CASE StartRestore(p, o, b)
    BY <2>7 DEF StartRestore
  <2>8. CASE StartDelete(p, o, b)
    BY <2>8 DEF StartDelete
  <2>9. QED
    BY <2>1, <2>2, <2>3, <2>4, <2>5, <2>6, <2>7, <2>8
<1>4. QED
  BY <1>1, <1>2, <1>3, TypedStep DEF TypeOK

\* Steps that ask a store something and write nothing.
LEMMA QuietTyped ==
  ASSUME TInv, NEW p \in Procs,
         \/ StatLocal(p) \/ StatArchive(p) \/ Verify(p) \/ CopyOpen(p)
         \/ Reverify(p) \/ DryVerify(p) \/ SweepVerify(p)
         \/ RestoreStat(p) \/ RestoreOpen(p)
         \/ ReadStat(p) \/ ReadGet(p) \/ ReadArchive(p)
  PROVE  TInv'
<1>1. /\ TypeOK /\ job \in [Procs -> JobType] /\ job[p] \in JobType
      /\ job[p].obj \in Objects /\ DryJob(p)
      /\ local[job[p].obj] \in Copy /\ archived[job[p].obj] \in Copy
  BY DEF TInv, TypeOK, JobType
<1>2. NoWrites /\ NoHistory
  BY DEF StatLocal, StatArchive, Verify, CopyOpen, Reverify, DryVerify, SweepVerify,
         RestoreStat, RestoreOpen, ReadStat, ReadGet, ReadArchive
<1>3. job'[p] \in JobType /\ job' = [job EXCEPT ![p] = job'[p]]
      /\ DryJob(p)' /\ UploadIssued(p)'
  <2> USE <1>1
      DEF Copy, JobType, Pcs, Outcomes, OpKinds, Answers, At, DryJob, UploadIssued,
          Goto, GotoSized, GotoWith, Finish, Serve, Confirmed
  <2>1. CASE StatLocal(p) \/ Verify(p) \/ CopyOpen(p) \/ Reverify(p)
    BY <2>1 DEF StatLocal, Verify, CopyOpen, Reverify
  <2>2. CASE StatArchive(p)
    <3>1. PICK answer \in Answers(archived[job[p].obj]) :
            Finish(p, IF answer \in Size THEN "already_archived" ELSE "not_found")
      BY <2>2 DEF StatArchive
    <3>2. Finish(p, "already_archived") \/ Finish(p, "not_found")
      <4>1. CASE answer \in Size
        BY <3>1, <4>1
      <4>2. CASE answer \notin Size
        BY <3>1, <4>2
      <4>3. QED
        BY <4>1, <4>2
    <3>3. QED
      BY <3>2
  <2>3. CASE DryVerify(p)
    <3>1. PICK answer \in Answers(archived[job[p].obj]) :
            Finish(p, CASE VerifyArchived(answer, job[p].size) = "ok"    -> "skipped"
                        [] VerifyArchived(answer, job[p].size) = "error" -> "failed"
                        [] OTHER                                         -> "would_copy")
      BY <2>3 DEF DryVerify
    <3>2. Finish(p, "skipped") \/ Finish(p, "failed") \/ Finish(p, "would_copy")
      BY ONLY <3>1 DEF Finish
    <3>3. QED
      BY <3>2
  <2>4. CASE SweepVerify(p)
    BY <2>4 DEF SweepVerify
  <2>5. CASE RestoreStat(p) \/ RestoreOpen(p)
    BY <2>5 DEF RestoreStat, RestoreOpen
  <2>6. CASE ReadStat(p) \/ ReadGet(p) \/ ReadArchive(p)
    BY <2>6 DEF ReadStat, ReadGet, ReadArchive
  <2>7. QED
    BY <2>1, <2>2, <2>3, <2>4, <2>5, <2>6
<1>4. QED
  BY <1>1, <1>2, <1>3, TypedStep DEF TypeOK, NoWrites, NoHistory

\* Steps that write to a tier; a job that writes is no dry run.
LEMMA WritesKeepTInv ==
  ASSUME TInv, NEW p \in Procs,
         \/ UploadPut(p) \/ UploadMirror(p) \/ CopyPut(p) \/ RemoveLocal(p)
         \/ RestorePut(p) \/ DeleteLocal(p) \/ DeleteArchived(p)
  PROVE  TInv' /\ ~(job[p].op \in {"backfill", "retention"} /\ ~job[p].apply)
<1>1. /\ TypeOK /\ job \in [Procs -> JobType] /\ job[p] \in JobType
      /\ job[p].obj \in Objects /\ job[p].body \in Copy /\ DryJob(p) /\ UploadIssued(p)
      /\ local \in [Objects -> Copy] /\ archived \in [Objects -> Copy]
  BY DEF TInv, TypeOK, JobType
<1>2. /\ job[p].pc \in {"put_local", "mirror", "copy_put", "remove", "restore_put",
                        "del_local", "del_archive"}
      /\ \E pc \in {"mirror", "reverify", "del_archive"}, out \in Outcomes :
           Goto(p, pc) \/ Finish(p, out)
  <2>1. CASE UploadPut(p) \/ UploadMirror(p) \/ DeleteLocal(p) \/ DeleteArchived(p)
    BY <2>1 DEF UploadPut, UploadMirror, DeleteLocal, DeleteArchived, At, Outcomes
  <2>2. CASE CopyPut(p)
    BY <2>2 DEF CopyPut, At, Outcomes
  <2>3. CASE RestorePut(p)
    BY <2>3 DEF RestorePut, At, Outcomes
  <2>4. CASE RemoveLocal(p)
    <3>1. PICK out : Finish(p, out)
                     /\ \E ok \in BOOLEAN :
                          out = CASE ~ok -> "failed"
                                  [] ok /\ job[p].op = "retention" -> "swept"
                                  [] OTHER -> "archived"
      BY <2>4 DEF RemoveLocal
    <3>2. out \in {"failed", "swept", "archived"}
      BY <3>1
    <3>3. QED
      BY <2>4, <3>1, <3>2 DEF RemoveLocal, At, Outcomes
  <2>5. QED
    BY <2>1, <2>2, <2>3, <2>4
<1>3. ~(job[p].op \in {"backfill", "retention"} /\ ~job[p].apply)
  BY <1>1, <1>2 DEF DryJob
<1>4. local' \in [Objects -> Copy] /\ archived' \in [Objects -> Copy]
  <2>1. \A c \in {Whole, Absent, job[p].body} : c \in Copy
    BY <1>1, WholeIsCopy
  <2>2. CASE UploadMirror(p)
    BY <1>1, <2>2, WritesTyped, LandedTyped, WholeIsCopy DEF UploadMirror
  <2>3. CASE CopyPut(p)
    BY <1>1, <2>3, WritesTyped, LandedTyped DEF CopyPut
  <2>4. CASE DeleteArchived(p)
    BY <1>1, <2>1, <2>4, WritesTyped DEF DeleteArchived
  <2>5. CASE UploadPut(p)
    BY <1>1, <2>1, <2>5, WritesTyped DEF UploadPut
  <2>6. CASE RemoveLocal(p) \/ RestorePut(p) \/ DeleteLocal(p)
    BY <1>1, <2>1, <2>6, WritesTyped DEF RemoveLocal, RestorePut, DeleteLocal
  <2>7. QED
    BY <2>2, <2>3, <2>4, <2>5, <2>6
<1>5. /\ issued' = issued /\ condemned' = condemned
      /\ stored' \in {stored, stored \cup {job[p].obj}}
      /\ stored' # stored => job[p].obj \in issued
  BY <1>1 DEF UploadPut, UploadMirror, CopyPut, RemoveLocal, RestorePut, DeleteLocal,
     DeleteArchived, NoHistory, UploadIssued
<1>6. job'[p] \in JobType /\ job' = [job EXCEPT ![p] = job'[p]]
      /\ DryJob(p)' /\ UploadIssued(p)'
  BY <1>1, <1>2, <1>3 DEF JobType, Pcs, Outcomes, Goto, Finish, DryJob, UploadIssued, At
<1>7. stored' \subseteq issued' /\ issued' \subseteq Objects /\ condemned' \subseteq Objects
  BY <1>1, <1>5 DEF TypeOK
<1>8. QED
  BY <1>3, <1>4, <1>5, <1>6, <1>7, TypedStep

\* One step of the system, seen by TInv and by the dry runs.
LEMMA NextKeepsTInv ==
  ASSUME TInv, [Next]_vars
  PROVE  /\ TInv'
         /\ \A p \in Procs :
              /\ job[p].op \in {"backfill", "retention"} /\ ~job[p].apply
              /\ job'[p] # job[p]
              => NoWrites
<1> DEFINE Dry(q) == /\ job[q].op \in {"backfill", "retention"} /\ ~job[q].apply
                     /\ job'[q] # job[q]
<1>1. CASE UNCHANGED vars
  BY <1>1 DEF vars, TInv, TypeOK, DryJob, UploadIssued, At
<1>2. ASSUME NEW p \in Procs, Start(p) \/ Crash(p)
      PROVE  TInv' /\ NoWrites
  <2>1. PICK o \in Objects, b \in BOOLEAN :
          \/ StartUpload(p, o) \/ StartRead(p, o)
          \/ StartArchive(p, o, b) \/ StartBackfill(p, o, b)
          \/ StartSweep(p, o, b) \/ StartRestore(p, o, b)
          \/ StartDelete(p, o, b) \/ Crash(p)
    <3>1. (CHOOSE o \in Objects : TRUE) \in Objects /\ TRUE \in BOOLEAN
      BY TieringAssumption
    <3>2. QED
      BY <1>2, <3>1 DEF Start
  <2>2. TInv'
    BY <2>1, StartsTyped
  <2>3. NoWrites
    BY <2>1 DEF StartUpload, StartRead, StartArchive, StartBackfill, StartSweep,
       StartRestore, StartDelete, Crash
  <2>4. QED
    BY <2>2, <2>3
<1>3. ASSUME NEW p \in Procs, Step(p)
      PROVE  TInv' /\ \A q \in Procs : Dry(q) => NoWrites
  <2>1. CASE \/ StatLocal(p) \/ StatArchive(p) \/ Verify(p) \/ CopyOpen(p)
             \/ Reverify(p) \/ DryVerify(p) \/ SweepVerify(p)
             \/ RestoreStat(p) \/ RestoreOpen(p)
             \/ ReadStat(p) \/ ReadGet(p) \/ ReadArchive(p)
    <3>1. NoWrites
      BY <2>1 DEF StatLocal, StatArchive, Verify, CopyOpen, Reverify, DryVerify,
         SweepVerify, RestoreStat, RestoreOpen, ReadStat, ReadGet, ReadArchive
    <3>2. QED
      BY <2>1, <3>1, QuietTyped
  <2>2. CASE \/ UploadPut(p) \/ UploadMirror(p) \/ CopyPut(p) \/ RemoveLocal(p)
             \/ RestorePut(p) \/ DeleteLocal(p) \/ DeleteArchived(p)
    <3>1. TInv' /\ ~(job[p].op \in {"backfill", "retention"} /\ ~job[p].apply)
      BY <2>2, WritesKeepTInv
    <3>2. ASSUME NEW q \in Procs, q # p
          PROVE  job'[q] = job[q]
      <4>1. job \in [Procs -> JobType]
        BY DEF TInv, TypeOK
      <4>2. QED
        BY <2>2, <3>2, <4>1 DEF UploadPut, UploadMirror, CopyPut, RemoveLocal, RestorePut,
           DeleteLocal, DeleteArchived, Goto, Finish
    <3>3. QED
      BY <3>1, <3>2
  <2>3. QED
    BY <1>3, <2>1, <2>2 DEF Step
<1>4. QED
  BY <1>1, <1>2, <1>3 DEF Next, vars

\* TInv from the start.
LEMMA InitTInv == Init => TInv
<1> SUFFICES ASSUME Init
             PROVE  TInv
  OBVIOUS
<1>1. TypeOK
  BY NoJobType, TieringAssumption DEF Init, TypeOK
<1>2. \A p \in Procs : job[p].pc = "idle" /\ job[p].op = "none"
  BY DEF Init, NoJob, NewJob
<1>3. QED
  BY <1>1, <1>2 DEF TInv, DryJob, UploadIssued, At

\* Every variable keeps its type, under every fault of the stores.
THEOREM TypeInvariant == Spec => []TypeOK
<1>1. TInv => TypeOK
  BY DEF TInv
<1>2. TInv /\ [Next]_vars => TInv'
  BY NextKeepsTInv
<1>3. QED
  BY <1>1, <1>2, InitTInv, PTL DEF Spec

\* A dry run of the backfill (cmd/backfill/main.go:255-270) or of the sweep
\* (service/retention.go:216-220) changes neither tier, under every fault.
THEOREM DryRunTheorem == Spec => DryRunsWriteNothing
<1>1. TInv /\ [Next]_vars => TInv'
  BY NextKeepsTInv
<1>2. TInv /\ [Next]_vars =>
        [\A p \in Procs :
           /\ job[p].op \in {"backfill", "retention"} /\ ~job[p].apply
           /\ job'[p] # job[p]
           => NoWrites]_vars
  BY NextKeepsTInv
<1>3. QED
  BY <1>1, <1>2, InitTInv, PTL DEF Spec, DryRunsWriteNothing

=============================================================================
