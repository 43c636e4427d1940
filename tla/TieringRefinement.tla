------------------------- MODULE TieringRefinement -------------------------
(***************************************************************************)
(* Tiering implements ObjectLifecycle, under every fault of the stores:    *)
(* how much of a copy there is does not matter, only whether there is one. *)
(***************************************************************************)
EXTENDS TieringProofs

-----------------------------------------------------------------------------
(* The inductive invariant.                                                *)

Known(o) == local[o] # Absent \/ archived[o] # Absent

\* A name nothing has been stored under: an archive request may ask about it and
\* its own upload may be about to write it, but no job works on it.
Fresh(o) ==
  /\ ~Known(o) /\ o \notin stored
  /\ \A q \in Procs :
       job[q].obj = o =>
         job[q].pc \in {"idle", "done", "stat_local", "stat_archive", "put_local"}

\* A uuid is handed out once, and until the upload that got it writes, the name
\* is fresh.
FreshNames ==
  /\ \A o \in Objects \ issued : Fresh(o)
  /\ \A p \in Procs : At(p, "put_local") => Fresh(job[p].obj)
  /\ \A p, q \in Procs :
       At(p, "put_local") /\ At(q, "put_local") /\ job[p].obj = job[q].obj => p = q
  /\ condemned \subseteq stored

\* A job about to write has seen what entitles it to: a copy somewhere before it
\* makes another, an archived one before it removes or restores the local one.
\* Only a delete request can have taken it away since.
Entitled(p) ==
  /\ job[p].pc \in {"mirror", "stat_local", "verify", "copy_open", "copy_put",
                    "reverify", "remove", "sweep_verify"} => InScope(job[p].obj)
  /\ job[p].pc \in {"mirror", "copy_put"} =>
       Known(job[p].obj) \/ job[p].obj \in condemned
  /\ job[p].pc \in {"remove", "restore_put"} =>
       archived[job[p].obj] # Absent \/ job[p].obj \in condemned
  /\ job[p].pc \in {"copy_put", "restore_put"} => job[p].body \in Size
  /\ job[p].pc \in {"del_local", "del_archive"} => job[p].obj \in condemned

RInv == TInv /\ FreshNames /\ \A p \in Procs : Entitled(p)

-----------------------------------------------------------------------------
(* Carrying the invariant across a step.                                   *)

\* What a step of p about object o may change.
Touches(p, o) ==
  /\ job' = [job EXCEPT ![p] = job'[p]]
  /\ job'[p].obj = o \/ job'[p].pc = "idle"
  /\ \A x \in Objects \ {o} : local'[x] = local[x] /\ archived'[x] = archived[x]
  /\ issued \subseteq issued' /\ stored \subseteq stored' /\ stored' \subseteq stored \cup {o}
  /\ condemned \subseteq condemned'

\* Nobody counts on o being fresh, or it stays so.
LEMMA FreshStep ==
  ASSUME RInv, NEW p \in Procs, NEW o \in Objects, Touches(p, o),
         condemned' \subseteq stored',
         \/ /\ o \in issued' /\ job'[p].pc # "put_local"
            /\ \A q \in Procs \ {p} : At(q, "put_local") => job[q].obj # o
         \/ /\ Fresh(o)'
            /\ job'[p].pc = "put_local" =>
                 \A q \in Procs \ {p} : At(q, "put_local") => job[q].obj # o
  PROVE  FreshNames'
<1>1. /\ job \in [Procs -> JobType]
      /\ \A q \in Procs : job[q].obj \in Objects
      /\ \A q \in Procs \ {p} : job'[q] = job[q]
  BY DEF RInv, TInv, TypeOK, JobType, Touches
<1>2. ASSUME NEW x \in Objects \ {o}, Fresh(x)
      PROVE  Fresh(x)'
  BY <1>1, <1>2 DEF Fresh, Known, Touches
<1>3. \A x \in Objects \ issued' : Fresh(x)'
  BY <1>2 DEF RInv, FreshNames, Touches
<1>4. ASSUME NEW q \in Procs, At(q, "put_local")'
      PROVE  Fresh(job[q].obj)'
  <2>1. CASE q = p
    BY <1>4, <2>1 DEF Touches, At
  <2>2. CASE q # p
    <3>1. At(q, "put_local") /\ job'[q] = job[q] /\ Fresh(job[q].obj)
      BY <1>1, <1>4, <2>2 DEF At, RInv, FreshNames
    <3>2. QED
      BY <1>1, <1>2, <3>1, <2>2
  <2>3. QED
    BY <2>1, <2>2
<1>5. \A q, r \in Procs :
        At(q, "put_local")' /\ At(r, "put_local")' /\ job'[q].obj = job'[r].obj => q = r
  BY <1>1 DEF At, RInv, FreshNames, Touches
<1>6. QED
  BY <1>3, <1>4, <1>5 DEF FreshNames

\* No copy disappears from under a job, but for a delete.
Keeps ==
  \A x \in Objects \ condemned' :
    /\ Known(x) => Known(x)'
    /\ archived[x] # Absent => archived'[x] # Absent

\* A step that takes no copy away keeps every other job entitled to its write.
LEMMA EntitledStep ==
  ASSUME RInv, NEW p \in Procs, NEW o \in Objects, Touches(p, o), Keeps, Entitled(p)'
  PROVE  \A q \in Procs : Entitled(q)'
<1> SUFFICES ASSUME NEW q \in Procs, q # p
             PROVE  Entitled(q)'
  OBVIOUS
<1>1. job'[q] = job[q] /\ job[q].obj \in Objects /\ Entitled(q)
  BY DEF RInv, TInv, TypeOK, JobType, Touches
<1>2. PICK x \in Objects : x = job[q].obj /\ x = job'[q].obj
  BY <1>1
<1>3. \/ x \in condemned'
      \/ /\ Known(x) => Known(x)'
         /\ archived[x] # Absent => archived'[x] # Absent
         /\ x \notin condemned
  BY DEF Keeps, Touches
<1>4. QED
  BY <1>1, <1>2, <1>3 DEF Entitled, InScope, Known

\* A job past its first questions works on an object that is not fresh, so its
\* steps disturb no upload.
LEMMA WorkingStep ==
  ASSUME RInv, TInv', NEW p \in Procs, Touches(p, job[p].obj), Keeps, Entitled(p)',
         condemned' \subseteq stored',
         job'[p].pc # "put_local",
         job[p].pc \notin {"idle", "done", "stat_local", "stat_archive"}
  PROVE  RInv'
<1>1. job[p].obj \in Objects
  BY DEF RInv, TInv, TypeOK, JobType
<1>2. \A q \in Procs \ {p} : At(q, "put_local") => job[q].obj # job[p].obj
  <2>1. CASE At(p, "put_local")
    BY <2>1 DEF RInv, FreshNames
  <2>2. CASE ~At(p, "put_local")
    BY <2>2 DEF RInv, FreshNames, Fresh, At
  <2>3. QED
    BY <2>1, <2>2
<1>3. job[p].obj \in issued'
  <2>1. CASE At(p, "put_local")
    BY <2>1 DEF RInv, TInv, UploadIssued, Touches
  <2>2. CASE ~At(p, "put_local")
    BY <1>1, <2>2 DEF RInv, FreshNames, Fresh, At, Touches
  <2>3. QED
    BY <2>1, <2>2
<1>4. FreshNames'
  BY <1>1, <1>2, <1>3, FreshStep
<1>5. QED
  BY <1>1, <1>4, EntitledStep DEF RInv

-----------------------------------------------------------------------------
(* The steps that write nothing.                                           *)

\* What a verification that says "ok" has seen: a copy.
LEMMA VerifiedIsThere ==
  ASSUME NEW copy \in Copy, NEW answer \in Answers(copy), NEW size,
         VerifyArchived(answer, size) = "ok"
  PROVE  copy # Absent
BY DEF Answers, VerifyArchived

\* The questions that come after a job's first ones.
LEMMA QuestionsKeep ==
  ASSUME RInv, TInv', NEW p \in Procs,
         \/ Verify(p) \/ CopyOpen(p) \/ Reverify(p) \/ DryVerify(p) \/ SweepVerify(p)
         \/ RestoreStat(p) \/ RestoreOpen(p)
         \/ ReadStat(p) \/ ReadGet(p) \/ ReadArchive(p)
  PROVE  RInv'
<1>1. /\ job \in [Procs -> JobType] /\ job[p] \in JobType /\ Entitled(p)
      /\ job[p].obj \in Objects
      /\ local[job[p].obj] \in Copy /\ archived[job[p].obj] \in Copy
      /\ condemned \subseteq stored
  BY DEF RInv, TInv, TypeOK, FreshNames, JobType
<1>2. /\ NoWrites /\ NoHistory
      /\ job[p].pc \in {"verify", "copy_open", "reverify", "dry_verify", "sweep_verify",
                        "restore_stat", "restore_open", "read_stat", "read_get",
                        "read_archive"}
  BY DEF Verify, CopyOpen, Reverify, DryVerify, SweepVerify, RestoreStat, RestoreOpen,
     ReadStat, ReadGet, ReadArchive, At
<1>3. /\ job' = [job EXCEPT ![p] = job'[p]] /\ job'[p].obj = job[p].obj
      /\ job'[p].pc # "put_local" /\ Entitled(p)'
  <2> USE <1>1, <1>2
      DEF Size, JobType, At, Known, Entitled, InScope, NoWrites, NoHistory,
          Goto, GotoSized, GotoWith, Finish, Serve, Confirmed
  <2>1. CASE Verify(p) \/ Reverify(p) \/ SweepVerify(p)
    <3>1. /\ job' = [job EXCEPT ![p] = job'[p]] /\ job'[p].obj = job[p].obj
          /\ job'[p].pc \in {"done", "copy_open", "remove"}
          /\ job'[p].pc = "copy_open" => job[p].pc = "verify"
          /\ job[p].pc \in {"verify", "reverify", "sweep_verify"}
      BY <2>1 DEF Verify, Reverify, SweepVerify
    <3>2. job'[p].pc = "remove" =>
            \E answer \in Answers(archived[job[p].obj]) :
              VerifyArchived(answer, job[p].size) = "ok"
      BY <2>1 DEF Verify, Reverify, SweepVerify
    <3>3. job'[p].pc = "remove" => archived[job[p].obj] # Absent
      BY <3>2, VerifiedIsThere
    <3>4. QED
      BY <3>1, <3>3
  <2>2. CASE CopyOpen(p) \/ RestoreOpen(p)
    BY <2>2 DEF CopyOpen, RestoreOpen, Answers, Absent, Error
  <2>3. CASE DryVerify(p)
    <3>1. PICK out : Finish(p, out)
      BY <2>3 DEF DryVerify
    <3>2. job' = [job EXCEPT ![p] = job'[p]] /\ job'[p].obj = job[p].obj
          /\ job'[p].pc = "done"
      BY <3>1
    <3>3. QED
      BY <3>2
  <2>4. CASE RestoreStat(p)
    BY <2>4 DEF RestoreStat
  <2>5. CASE ReadStat(p) \/ ReadGet(p) \/ ReadArchive(p)
    BY <2>5 DEF ReadStat, ReadGet, ReadArchive
  <2>6. QED
    BY <2>1, <2>2, <2>3, <2>4, <2>5
<1>4. Touches(p, job[p].obj) /\ Keeps /\ condemned' \subseteq stored'
  BY <1>1, <1>2, <1>3 DEF Touches, Keeps, Known, NoWrites, NoHistory
<1>5. QED
  BY <1>2, <1>3, <1>4, WorkingStep

\* An archive request may be about a name that is fresh; then it finds nothing.
LEMMA FirstQuestionsKeep ==
  ASSUME RInv, TInv', NEW p \in Procs, StatLocal(p) \/ StatArchive(p)
  PROVE  RInv'
<1>1. /\ job \in [Procs -> JobType] /\ job[p] \in JobType /\ Entitled(p)
      /\ condemned \subseteq stored
  BY DEF RInv, TInv, TypeOK, FreshNames
<1>2. PICK o \in Objects : o = job[p].obj
  BY <1>1 DEF JobType
<1>3. NoWrites /\ NoHistory /\ job[p].pc \in {"stat_local", "stat_archive"}
  BY DEF StatLocal, StatArchive, At
<1>4. /\ job' = [job EXCEPT ![p] = job'[p]] /\ job'[p].obj = o
      /\ job'[p].pc \in {"verify", "stat_archive", "done"}
      /\ job'[p].pc = "verify" => Known(o) /\ InScope(o)
  BY <1>1, <1>2 DEF StatLocal, StatArchive, JobType, At, Answers, Known, Size, Absent,
     Error, Entitled, Goto, GotoSized, Finish
<1>5. Touches(p, o) /\ Keeps /\ Entitled(p)'
  BY <1>1, <1>3, <1>4 DEF Touches, Keeps, Known, Entitled, InScope, NoWrites, NoHistory
<1>6. FreshNames'
  <2>1. condemned' \subseteq stored'
    BY <1>1, <1>3 DEF NoHistory
  <2>2. CASE Fresh(o)
    <3>1. Fresh(o)'
      BY <1>1, <1>3, <1>4, <1>5, <2>2 DEF Fresh, Known, Touches, NoWrites, NoHistory
    <3>2. QED
      BY <1>4, <1>5, <2>1, <3>1, FreshStep
  <2>3. CASE ~Fresh(o)
    <3>1. o \in issued' /\ \A q \in Procs \ {p} : At(q, "put_local") => job[q].obj # o
      BY <1>3, <2>3 DEF RInv, FreshNames, NoHistory
    <3>2. QED
      BY <1>4, <1>5, <2>1, <3>1, FreshStep
  <2>4. QED
    BY <2>2, <2>3
<1>7. QED
  BY <1>5, <1>6, EntitledStep DEF RInv

\* A job begins about something that is there, or with a name of its own, or with
\* a question.
LEMMA StartsKeep ==
  ASSUME RInv, TInv', NEW p \in Procs, NEW o \in Objects, NEW b \in BOOLEAN,
         \/ StartUpload(p, o) \/ StartRead(p, o)
         \/ StartArchive(p, o, b) \/ StartBackfill(p, o, b)
         \/ StartSweep(p, o, b) \/ StartRestore(p, o, b)
         \/ StartDelete(p, o, b) \/ Crash(p)
  PROVE  RInv'
<1>1. /\ job \in [Procs -> JobType] /\ condemned \subseteq stored
      /\ stored \subseteq issued /\ FreshNames
  BY DEF RInv, TInv, TypeOK, FreshNames
<1>2. NoWrites /\ stored' = stored /\ issued \subseteq issued'
  BY DEF StartUpload, StartRead, StartArchive, StartBackfill, StartSweep, StartRestore,
     StartDelete, Crash, NoWrites, NoHistory
<1>3. /\ job' = [job EXCEPT ![p] = job'[p]]
      /\ job'[p].obj = o \/ job'[p].pc = "idle"
      /\ condemned' \in {condemned, condemned \cup {o}} /\ condemned' \subseteq stored'
      /\ job'[p].pc \in {"put_local", "read_stat", "stat_local", "verify", "dry_verify",
                         "sweep_verify", "restore_stat", "del_local", "idle"}
      /\ job'[p].pc = "put_local" => o \notin issued
      /\ job'[p].pc \in {"read_stat", "del_local"} => o \in stored
      /\ job'[p].pc \in {"verify", "dry_verify", "sweep_verify", "restore_stat"} => Known(o)
      /\ job'[p].pc \in {"stat_local", "verify", "sweep_verify"} => InScope(o)
      /\ job'[p].pc = "del_local" => o \in condemned'
  <2> USE <1>1 DEF Begin, NewJob, NoHistory, Known
  <2>1. CASE StartUpload(p, o)
    BY <2>1 DEF StartUpload
  <2>2. CASE StartRead(p, o) \/ StartDelete(p, o, b)
    BY <2>2 DEF StartRead, StartDelete
  <2>3. CASE StartArchive(p, o, b)
    BY <2>3 DEF StartArchive
  <2>4. CASE StartBackfill(p, o, b)
    BY <2>4 DEF StartBackfill
  <2>5. CASE StartSweep(p, o, b)
    BY <2>5 DEF StartSweep
  <2>6. CASE StartRestore(p, o, b)
    BY <2>6 DEF StartRestore
  <2>7. CASE Crash(p)
    BY <2>7 DEF Crash, NoJob
  <2>8. QED
    BY <2>1, <2>2, <2>3, <2>4, <2>5, <2>6, <2>7
<1>4. Touches(p, o) /\ Keeps
  BY <1>1, <1>2, <1>3 DEF Touches, Keeps, Known, NoWrites
<1>5. Entitled(p)'
  BY <1>3 DEF Entitled, InScope
<1>6. FreshNames'
  <2>1. CASE Fresh(o)
    <3>1. Fresh(o)'
      BY <1>1, <1>2, <1>3, <2>1 DEF Fresh, Known, NoWrites
    <3>2. job'[p].pc = "put_local" =>
            \A q \in Procs \ {p} : At(q, "put_local") => job[q].obj # o
      BY <1>3 DEF RInv, TInv, UploadIssued
    <3>3. QED
      BY <1>3, <1>4, <3>1, <3>2, FreshStep
  <2>2. CASE ~Fresh(o)
    <3>1. o \in issued /\ \A q \in Procs \ {p} : At(q, "put_local") => job[q].obj # o
      BY <1>1, <2>2 DEF FreshNames
    <3>2. QED
      BY <1>2, <1>3, <1>4, <3>1, FreshStep
  <2>3. QED
    BY <2>1, <2>2
<1>7. QED
  BY <1>4, <1>5, <1>6, EntitledStep DEF RInv

-----------------------------------------------------------------------------
(* The steps that write to a tier.                                         *)

LocalWrite(o, new) ==
  /\ local' \in [Objects -> Copy] /\ archived' = archived
  /\ \A x \in Objects \ {o} : local'[x] = local[x]
  /\ local'[o] \in {local[o]} \cup new

ArchiveWrite(o, new) ==
  /\ archived' \in [Objects -> Copy] /\ local' = local
  /\ \A x \in Objects \ {o} : archived'[x] = archived[x]
  /\ archived'[o] \in {archived[o]} \cup new

\* Which write a job makes is known by where it is.
Writing(p, o) ==
  \/ At(p, "put_local") /\ LocalWrite(o, {Whole})
  \/ job[p].pc \in {"mirror", "copy_put"} /\ ArchiveWrite(o, Size)
  \/ At(p, "remove") /\ LocalWrite(o, {Absent})
  \/ At(p, "restore_put") /\ LocalWrite(o, Size)
  \/ At(p, "del_local") /\ LocalWrite(o, {Absent})
  \/ At(p, "del_archive") /\ ArchiveWrite(o, {Absent})

\* What UploadPut and the others do to the copies and to their job, whatever the
\* store answers.
LEMMA WriteEffect ==
  ASSUME RInv, NEW p \in Procs, NEW o \in Objects, o = job[p].obj,
         \/ UploadPut(p) \/ UploadMirror(p) \/ CopyPut(p) \/ RemoveLocal(p)
         \/ RestorePut(p) \/ DeleteLocal(p) \/ DeleteArchived(p)
  PROVE  /\ Writing(p, o)
         /\ job' = [job EXCEPT ![p] = job'[p]] /\ job'[p].obj = o
         /\ job'[p].pc \in {"mirror", "reverify", "del_archive", "done"}
         /\ job'[p].pc = "mirror" =>
              At(p, "put_local") /\ InScope(o) /\ local'[o] = Whole
         /\ job'[p].pc = "reverify" => At(p, "copy_put")
         /\ job'[p].pc = "del_archive" => At(p, "del_local")
         /\ issued' = issued /\ condemned' = condemned
         /\ stored' \in {stored, stored \cup {o}}
<1>1. /\ job \in [Procs -> JobType] /\ job[p] \in JobType /\ Entitled(p)
      /\ local \in [Objects -> Copy] /\ archived \in [Objects -> Copy]
      /\ Whole \in Size /\ Size \subseteq Copy /\ Absent \in Copy
  BY TieringAssumption DEF RInv, TInv, TypeOK, Whole, Size, Copy
<1>2. \A c \in Copy, ok \in BOOLEAN :
        /\ \A t \in Written(local, o, c, ok) :
             /\ t \in [Objects -> Copy] /\ t[o] \in {local[o], c} /\ (ok => t[o] = c)
             /\ \A x \in Objects \ {o} : t[x] = local[x]
        /\ \A t \in Written(archived, o, c, ok) :
             /\ t \in [Objects -> Copy] /\ t[o] \in {archived[o], c}
             /\ \A x \in Objects \ {o} : t[x] = archived[x]
  BY <1>1, WrittenEffect
<1>3. \A len \in Size : Landed(len) \subseteq Size
  BY TieringAssumption DEF Landed, Size
<1>4. /\ job' = [job EXCEPT ![p] = job'[p]] /\ job'[p].obj = o
      /\ job'[p].pc \in {"mirror", "reverify", "del_archive", "done"}
      /\ job'[p].pc = "mirror" => At(p, "put_local") /\ InScope(o)
      /\ job'[p].pc = "reverify" => At(p, "copy_put")
      /\ job'[p].pc = "del_archive" => At(p, "del_local")
  <2> USE <1>1 DEF At, Goto, Finish, JobType
  <2>1. CASE UploadPut(p)
    <3>1. /\ At(p, "put_local")
          /\ (InScope(o) /\ Goto(p, "mirror")) \/ \E out : Finish(p, out)
      BY <2>1 DEF UploadPut
    <3>2. QED
      BY <3>1
  <2>2. CASE CopyPut(p)
    BY <2>2 DEF CopyPut
  <2>3. CASE UploadMirror(p) \/ RemoveLocal(p) \/ RestorePut(p)
    <3>1. PICK out : Finish(p, out)
      BY <2>3 DEF UploadMirror, RemoveLocal, RestorePut
    <3>2. QED
      BY <3>1
  <2>4. CASE DeleteLocal(p) \/ DeleteArchived(p)
    BY <2>4 DEF DeleteLocal, DeleteArchived
  <2>5. QED
    BY <2>1, <2>2, <2>3, <2>4
<1>5. issued' = issued /\ condemned' = condemned /\ stored' \in {stored, stored \cup {o}}
  BY DEF UploadPut, UploadMirror, CopyPut, RemoveLocal, RestorePut, DeleteLocal,
     DeleteArchived, NoHistory
<1>6. Writing(p, o)
  <2>1. CASE UploadPut(p)
    <3>1. At(p, "put_local") /\ archived' = archived
          /\ \E ok \in BOOLEAN : local' \in Written(local, o, Whole, ok)
      BY <2>1 DEF UploadPut
    <3>2. LocalWrite(o, {Whole})
      BY <1>1, <1>2, <3>1 DEF LocalWrite
    <3>3. QED
      BY <3>1, <3>2 DEF Writing
  <2>2. CASE UploadMirror(p) \/ CopyPut(p)
    <3>1. \E ok \in BOOLEAN, len \in Size : archived' \in Written(archived, o, len, ok)
      <4>1. CASE UploadMirror(p)
        BY <1>1, <1>3, <4>1 DEF UploadMirror
      <4>2. CASE CopyPut(p)
        BY <1>1, <1>3, <4>2 DEF CopyPut, Entitled, At
      <4>3. QED
        BY <2>2, <4>1, <4>2
    <3>2. local' = local /\ job[p].pc \in {"mirror", "copy_put"}
      BY <2>2 DEF UploadMirror, CopyPut, At
    <3>3. ArchiveWrite(o, Size)
      BY <1>1, <1>2, <3>1, <3>2 DEF ArchiveWrite
    <3>4. QED
      BY <3>2, <3>3 DEF Writing
  <2>3. CASE RemoveLocal(p) \/ DeleteLocal(p)
    <3>1. /\ At(p, "remove") \/ At(p, "del_local")
          /\ archived' = archived
          /\ \E ok \in BOOLEAN : local' \in Written(local, o, Absent, ok)
      BY <2>3 DEF RemoveLocal, DeleteLocal
    <3>2. LocalWrite(o, {Absent})
      BY <1>1, <1>2, <3>1 DEF LocalWrite
    <3>3. QED
      BY <3>1, <3>2 DEF Writing
  <2>4. CASE RestorePut(p)
    <3>1. At(p, "restore_put") /\ archived' = archived
          /\ \E ok \in BOOLEAN : local' \in Written(local, o, job[p].body, ok)
      BY <2>4 DEF RestorePut
    <3>2. job[p].body \in Size
      BY <1>1, <3>1 DEF Entitled, At
    <3>3. LocalWrite(o, Size)
      BY <1>1, <1>2, <3>1, <3>2 DEF LocalWrite
    <3>4. QED
      BY <3>1, <3>3 DEF Writing
  <2>5. CASE DeleteArchived(p)
    <3>1. At(p, "del_archive") /\ local' = local
          /\ \E ok \in BOOLEAN :
               archived' \in Written(archived, o, Absent, ok) \cup {archived}
      BY <2>5 DEF DeleteArchived
    <3>2. ArchiveWrite(o, {Absent})
      BY <1>1, <1>2, <3>1 DEF ArchiveWrite
    <3>3. QED
      BY <3>1, <3>2 DEF Writing
  <2>6. QED
    BY <2>1, <2>2, <2>3, <2>4, <2>5
<1>7. job'[p].pc = "mirror" => local'[o] = Whole
  <2> SUFFICES ASSUME job'[p].pc = "mirror"
               PROVE  local'[o] = Whole
    OBVIOUS
  <2>1. UploadPut(p)
    BY <1>4 DEF UploadMirror, CopyPut, RemoveLocal, RestorePut, DeleteLocal,
       DeleteArchived, At
  <2>2. local' \in Written(local, o, Whole, TRUE)
    BY <1>1, <2>1 DEF UploadPut, Finish, JobType
  <2>3. QED
    BY <1>1, <1>2, <2>2
<1>8. QED
  BY <1>4, <1>5, <1>6, <1>7

\* Each of them, by what its job is entitled to, keeps the invariant.
LEMMA WritesKeep ==
  ASSUME RInv, TInv', NEW p \in Procs,
         \/ UploadPut(p) \/ UploadMirror(p) \/ CopyPut(p) \/ RemoveLocal(p)
         \/ RestorePut(p) \/ DeleteLocal(p) \/ DeleteArchived(p)
  PROVE  RInv'
<1>1. /\ job \in [Procs -> JobType] /\ job[p] \in JobType /\ Entitled(p)
      /\ local \in [Objects -> Copy] /\ archived \in [Objects -> Copy]
      /\ condemned \subseteq stored
  BY DEF RInv, TInv, TypeOK, FreshNames
<1>2. PICK o \in Objects : o = job[p].obj
  BY <1>1 DEF JobType
<1>3. /\ Writing(p, o)
      /\ job' = [job EXCEPT ![p] = job'[p]] /\ job'[p].obj = o
      /\ job'[p].pc \in {"mirror", "reverify", "del_archive", "done"}
      /\ job'[p].pc = "mirror" => InScope(o) /\ local'[o] = Whole
      /\ job'[p].pc = "reverify" => At(p, "copy_put")
      /\ job'[p].pc = "del_archive" => At(p, "del_local")
      /\ issued' = issued /\ condemned' = condemned
      /\ stored' \in {stored, stored \cup {o}}
  BY <1>2, WriteEffect
<1>4. Whole # Absent /\ Absent \notin Size
  BY TieringAssumption DEF Whole, Size, Absent
<1>5. Touches(p, o)
  BY <1>1, <1>3 DEF Touches, Writing, LocalWrite, ArchiveWrite
<1>6. Keeps
  <2>1. o \notin condemned =>
          (Known(o) => Known(o)') /\ (archived[o] # Absent => archived'[o] # Absent)
    BY <1>2, <1>1, <1>3, <1>4 DEF Known, Writing, LocalWrite, ArchiveWrite, Entitled, At
  <2>2. QED
    BY <1>3, <1>5, <2>1 DEF Keeps, Touches, Known
<1>7. Entitled(p)'
  BY <1>1, <1>2, <1>3, <1>4 DEF Entitled, InScope, Known, At
<1>8. job[p].pc \notin {"idle", "done", "stat_local", "stat_archive"}
  BY <1>3 DEF Writing, At
<1>9. QED
  BY <1>1, <1>2, <1>3, <1>5, <1>6, <1>7, <1>8, WorkingStep

\* No upload has begun, and what is there was stored before.
LEMMA InitRInv == Init => RInv
<1> SUFFICES ASSUME Init
             PROVE  RInv
  OBVIOUS
<1>1. TInv
  BY InitTInv
<1>2. \A p \in Procs : job[p].pc = "idle"
  BY DEF Init, NoJob, NewJob
<1>3. \A o \in Objects \ issued : ~Known(o) /\ o \notin stored
  BY TieringAssumption DEF Init, Known
<1>4. FreshNames
  BY <1>2, <1>3 DEF FreshNames, Fresh, At, Init
<1>5. \A p \in Procs : Entitled(p)
  BY <1>2 DEF Entitled
<1>6. QED
  BY <1>1, <1>4, <1>5 DEF RInv

\* A step, by what it is: the beginning or the loss of a job, a question, a write.
Beginning(p, o, b) ==
  \/ StartUpload(p, o) \/ StartRead(p, o)
  \/ StartArchive(p, o, b) \/ StartBackfill(p, o, b)
  \/ StartSweep(p, o, b) \/ StartRestore(p, o, b)
  \/ StartDelete(p, o, b) \/ Crash(p)

Question(p) ==
  \/ StatLocal(p) \/ StatArchive(p) \/ Verify(p) \/ CopyOpen(p)
  \/ Reverify(p) \/ DryVerify(p) \/ SweepVerify(p)
  \/ RestoreStat(p) \/ RestoreOpen(p)
  \/ ReadStat(p) \/ ReadGet(p) \/ ReadArchive(p)

Write(p) ==
  \/ UploadPut(p) \/ UploadMirror(p) \/ CopyPut(p) \/ RemoveLocal(p)
  \/ RestorePut(p) \/ DeleteLocal(p) \/ DeleteArchived(p)

\* There are no other steps.
LEMMA StepKinds ==
  ASSUME Next
  PROVE  \E p \in Procs : \/ \E o \in Objects, b \in BOOLEAN : Beginning(p, o, b)
                          \/ Question(p) \/ Write(p)
<1>1. (CHOOSE o \in Objects : TRUE) \in Objects /\ TRUE \in BOOLEAN
  BY TieringAssumption
<1>2. PICK p \in Procs : Start(p) \/ Step(p) \/ Crash(p)
  BY DEF Next
<1>3. CASE Start(p)
  BY <1>1, <1>3 DEF Start, Beginning
<1>4. CASE Crash(p)
  BY <1>1, <1>4 DEF Beginning
<1>5. CASE Step(p)
  BY <1>5 DEF Step, Question, Write
<1>6. QED
  BY <1>2, <1>3, <1>4, <1>5

\* Every step keeps the invariant.
LEMMA NextKeepsRInv == RInv /\ [Next]_vars => RInv'
<1> SUFFICES ASSUME RInv, [Next]_vars
             PROVE  RInv'
  OBVIOUS
<1>1. TInv'
  BY NextKeepsTInv DEF RInv
<1>2. CASE UNCHANGED vars
  BY <1>1, <1>2 DEF vars, RInv, FreshNames, Fresh, Known, Entitled, InScope, At
<1>3. CASE Next
  <2>1. PICK p \in Procs : \/ \E o \in Objects, b \in BOOLEAN : Beginning(p, o, b)
                           \/ Question(p) \/ Write(p)
    BY <1>3, StepKinds
  <2>2. CASE \E o \in Objects, b \in BOOLEAN : Beginning(p, o, b)
    BY <1>1, <2>2, StartsKeep DEF Beginning
  <2>3. CASE Question(p)
    BY <1>1, <2>3, FirstQuestionsKeep, QuestionsKeep DEF Question
  <2>4. CASE Write(p)
    BY <1>1, <2>4, WritesKeep DEF Write
  <2>5. QED
    BY <2>1, <2>2, <2>3, <2>4
<1>4. QED
  BY <1>2, <1>3

-----------------------------------------------------------------------------
(* The refinement.                                                         *)

\* What tiersOf says.
LEMMA TiersOf ==
  /\ tiersOf \in [Objects -> SUBSET {"local", "archive"}]
  /\ \A o \in Objects : /\ "local" \in tiersOf[o] <=> local[o] # Absent
                        /\ "archive" \in tiersOf[o] <=> archived[o] # Absent
BY DEF tiersOf

\* What a step that concerns one object does to it.
LEMMA TiersChange ==
  ASSUME NEW o \in Objects,
         \A x \in Objects \ {o} : local'[x] = local[x] /\ archived'[x] = archived[x]
  PROVE  /\ tiersOf' = [tiersOf EXCEPT ![o] = tiersOf'[o]]
         /\ tiersOf'[o] = (IF local'[o] # Absent THEN {"local"} ELSE {})
                          \cup (IF archived'[o] # Absent THEN {"archive"} ELSE {})
<1>1. \A x \in Objects \ {o} : tiersOf'[x] = tiersOf[x]
  BY DEF tiersOf
<1>2. /\ tiersOf = [x \in Objects |-> tiersOf[x]]
      /\ tiersOf' = [x \in Objects |-> tiersOf'[x]]
  BY DEF tiersOf
<1>3. tiersOf' = [tiersOf EXCEPT ![o] = tiersOf'[o]]
  BY ONLY <1>1, <1>2
<1>4. QED
  BY <1>3 DEF tiersOf

\* An upload leaves uploadsOf, or enters it, with its own job only.
LEMMA UploadsChange ==
  ASSUME RInv, NEW p \in Procs, job' = [job EXCEPT ![p] = job'[p]]
  PROVE  uploadsOf' = (IF At(p, "put_local") THEN uploadsOf \ {job[p].obj} ELSE uploadsOf)
                      \cup (IF At(p, "put_local")' THEN {job'[p].obj} ELSE {})
<1>1. \A q \in Procs \ {p} : job'[q] = job[q]
  BY DEF RInv, TInv, TypeOK
<1>2. \A q \in Procs \ {p} :
        At(p, "put_local") /\ At(q, "put_local") => job[q].obj # job[p].obj
  BY DEF RInv, FreshNames
<1>3. QED
  BY <1>1, <1>2 DEF uploadsOf, At

\* Nothing is uploading, or asked to be deleted.
LEMMA InitRefines == Init => Lifecycle!Init
<1> SUFFICES ASSUME Init
             PROVE  Lifecycle!Init
  OBVIOUS
<1>1. \A p \in Procs : job[p].pc = "idle"
  BY DEF Init, NoJob, NewJob
<1>2. uploadsOf = {}
  BY <1>1 DEF uploadsOf, At
<1>3. QED
  BY <1>2, TiersOf DEF Init, Lifecycle!Init, Lifecycle!Tiers

\* An upload and a delete request begin, an upload is lost; nothing else shows.
LEMMA BeginningRefines ==
  ASSUME RInv, NEW p \in Procs, NEW o \in Objects, NEW b \in BOOLEAN, Beginning(p, o, b)
  PROVE  [Lifecycle!Next]_(Lifecycle!vars)
<1>1. /\ job \in [Procs -> JobType] /\ stored \subseteq issued /\ condemned \subseteq stored
      /\ \A q \in Procs : job[q].obj \in Objects
  BY DEF RInv, TInv, TypeOK, FreshNames, JobType
<1>2. NoWrites
  BY DEF Beginning, StartUpload, StartRead, StartArchive, StartBackfill, StartSweep,
     StartRestore, StartDelete, Crash
<1>3. tiersOf' = tiersOf
  BY <1>2 DEF tiersOf, NoWrites
<1>4. uploadsOf \subseteq Objects /\ \A x \in uploadsOf : x \in issued /\ Fresh(x)
  BY <1>1 DEF uploadsOf, RInv, TInv, UploadIssued, FreshNames
<1>5. CASE StartUpload(p, o)
  <2>1. /\ job' = [job EXCEPT ![p] = job'[p]] /\ ~At(p, "put_local")
        /\ At(p, "put_local")' /\ job'[p].obj = o
        /\ o \notin issued /\ UNCHANGED condemned
    BY <1>1, <1>5 DEF StartUpload, Begin, NewJob, At
  <2>2. uploadsOf' = uploadsOf \cup {o}
    BY <2>1, UploadsChange
  <2>3. tiersOf[o] = {} /\ o \notin uploadsOf \cup condemned
    BY <1>1, <1>4, <2>1, TiersOf DEF RInv, FreshNames, Fresh, Known
  <2>4. Lifecycle!BeginUpload(o)
    BY <1>3, <2>1, <2>2, <2>3 DEF Lifecycle!BeginUpload
  <2>5. QED
    BY <2>4 DEF Lifecycle!Next
<1>6. CASE StartDelete(p, o, b)
  <2>1. /\ job' = [job EXCEPT ![p] = job'[p]]
        /\ ~At(p, "put_local") /\ ~At(p, "put_local")'
        /\ o \in stored /\ condemned' = condemned \cup {o}
    BY <1>1, <1>6 DEF StartDelete, Begin, NewJob, At
  <2>2. uploadsOf' = uploadsOf
    BY <2>1, UploadsChange
  <2>3. o \notin uploadsOf
    BY <1>4, <2>1 DEF Fresh
  <2>4. Lifecycle!Condemn(o)
    BY <1>3, <2>1, <2>2, <2>3 DEF Lifecycle!Condemn
  <2>5. QED
    BY <2>4 DEF Lifecycle!Next
<1>7. CASE Crash(p)
  <2>1. /\ job' = [job EXCEPT ![p] = job'[p]] /\ ~At(p, "put_local")'
        /\ UNCHANGED condemned
    BY <1>1, <1>7 DEF Crash, NoHistory, NoJob, NewJob, At
  <2>2. CASE At(p, "put_local")
    <3>1. uploadsOf' = uploadsOf \ {job[p].obj}
      BY <2>1, <2>2, UploadsChange
    <3>2. Lifecycle!AbandonUpload(job[p].obj)
      BY <1>3, <2>1, <3>1 DEF Lifecycle!AbandonUpload
    <3>3. QED
      BY <1>1, <3>2 DEF Lifecycle!Next
  <2>3. CASE ~At(p, "put_local")
    <3>1. uploadsOf' = uploadsOf
      BY <2>1, <2>3, UploadsChange
    <3>2. QED
      BY <1>3, <2>1, <3>1 DEF Lifecycle!vars
  <2>4. QED
    BY <2>2, <2>3
<1>8. CASE \/ StartRead(p, o) \/ StartArchive(p, o, b) \/ StartBackfill(p, o, b)
           \/ StartSweep(p, o, b) \/ StartRestore(p, o, b)
  <2>1. /\ job' = [job EXCEPT ![p] = job'[p]]
        /\ ~At(p, "put_local") /\ ~At(p, "put_local")' /\ UNCHANGED condemned
    BY <1>1, <1>8 DEF StartRead, StartArchive, StartBackfill, StartSweep, StartRestore,
       Begin, NewJob, NoHistory, At
  <2>2. uploadsOf' = uploadsOf
    BY <2>1, UploadsChange
  <2>3. QED
    BY <1>3, <2>1, <2>2 DEF Lifecycle!vars
<1>9. QED
  BY <1>5, <1>6, <1>7, <1>8 DEF Beginning

\* Questions do not show.
LEMMA QuestionRefines ==
  ASSUME RInv, NEW p \in Procs, Question(p)
  PROVE  UNCHANGED Lifecycle!vars
<1>1. job \in [Procs -> JobType] /\ job[p] \in JobType
  BY DEF RInv, TInv, TypeOK
<1>2. NoWrites /\ NoHistory /\ ~At(p, "put_local")
  BY DEF Question, StatLocal, StatArchive, Verify, CopyOpen, Reverify, DryVerify,
     SweepVerify, RestoreStat, RestoreOpen, ReadStat, ReadGet, ReadArchive, At
<1>3. job' = [job EXCEPT ![p] = job'[p]] /\ ~At(p, "put_local")'
  <2> USE <1>1, <1>2
      DEF JobType, At, Goto, GotoSized, GotoWith, Finish, Serve, Confirmed
  <2>1. CASE StatArchive(p) \/ DryVerify(p)
    <3>1. PICK out : Finish(p, out)
      BY <2>1 DEF StatArchive, DryVerify
    <3>2. QED
      BY <3>1
  <2>2. CASE StatLocal(p) \/ Verify(p) \/ CopyOpen(p) \/ Reverify(p) \/ SweepVerify(p)
    BY <2>2 DEF StatLocal, Verify, CopyOpen, Reverify, SweepVerify
  <2>3. CASE RestoreStat(p) \/ RestoreOpen(p)
    BY <2>3 DEF RestoreStat, RestoreOpen
  <2>4. CASE ReadStat(p) \/ ReadGet(p) \/ ReadArchive(p)
    BY <2>4 DEF ReadStat, ReadGet, ReadArchive
  <2>5. QED
    BY <2>1, <2>2, <2>3, <2>4 DEF Question
<1>4. uploadsOf' = uploadsOf
  BY <1>2, <1>3, UploadsChange
<1>5. QED
  BY <1>2, <1>4 DEF Lifecycle!vars, tiersOf, NoWrites, NoHistory

\* A write is one of ObjectLifecycle's doors, or changes the length of a copy that
\* is there already, or nothing.
LEMMA WriteRefines ==
  ASSUME RInv, NEW p \in Procs, Write(p)
  PROVE  [Lifecycle!Next]_(Lifecycle!vars)
<1>1. /\ job \in [Procs -> JobType] /\ job[p] \in JobType /\ Entitled(p)
  BY DEF RInv, TInv, TypeOK
<1>2. PICK o \in Objects : o = job[p].obj
  BY <1>1 DEF JobType
<1>3. /\ Writing(p, o)
      /\ job' = [job EXCEPT ![p] = job'[p]]
      /\ job'[p].pc \in {"mirror", "reverify", "del_archive", "done"}
      /\ condemned' = condemned
  BY <1>2, WriteEffect DEF Write
<1>4. Whole # Absent /\ Absent \notin Size
  BY TieringAssumption DEF Whole, Size, Absent
<1>5. /\ \A x \in Objects \ {o} : local'[x] = local[x] /\ archived'[x] = archived[x]
      /\ local[o] # Absent <=> "local" \in tiersOf[o]
      /\ archived[o] # Absent <=> "archive" \in tiersOf[o]
      /\ tiersOf \in [Objects -> SUBSET {"local", "archive"}]
  BY <1>3, TiersOf DEF Writing, LocalWrite, ArchiveWrite
<1>6. /\ tiersOf' = [tiersOf EXCEPT ![o] = tiersOf'[o]]
      /\ tiersOf'[o] = (IF local'[o] # Absent THEN {"local"} ELSE {})
                       \cup (IF archived'[o] # Absent THEN {"archive"} ELSE {})
  BY <1>5, TiersChange
<1>7. tiersOf[o] = (IF local[o] # Absent THEN {"local"} ELSE {})
                   \cup (IF archived[o] # Absent THEN {"archive"} ELSE {})
  BY DEF tiersOf
<1>8. CASE At(p, "put_local") /\ LocalWrite(o, {Whole})
  <2>1. Fresh(o) /\ o \in uploadsOf
    BY <1>2, <1>8 DEF RInv, FreshNames, uploadsOf, At
  <2>2. local[o] = Absent /\ archived[o] = Absent /\ archived'[o] = Absent
    BY <1>8, <2>1 DEF Fresh, Known, LocalWrite
  <2>3. uploadsOf' = uploadsOf \ {o}
    BY <1>2, <1>3, <1>8, UploadsChange DEF At
  <2>4. CASE local'[o] = Whole
    <3>1. tiersOf'[o] = {"local"} /\ tiersOf[o] = {}
      BY <1>4, <1>6, <1>7, <2>2, <2>4
    <3>2. Lifecycle!Store(o)
      BY <1>3, <1>6, <2>1, <2>3, <3>1 DEF Lifecycle!Store
    <3>3. QED
      BY <3>2 DEF Lifecycle!Next
  <2>5. CASE local'[o] = local[o]
    <3>1. tiersOf' = tiersOf
      BY <1>5, <1>6, <1>7, <2>2, <2>5
    <3>2. Lifecycle!AbandonUpload(o)
      BY <1>3, <2>3, <3>1 DEF Lifecycle!AbandonUpload
    <3>3. QED
      BY <3>2 DEF Lifecycle!Next
  <2>6. QED
    BY <1>8, <2>4, <2>5 DEF LocalWrite
<1>9. CASE ~At(p, "put_local")
  <2>1. uploadsOf' = uploadsOf
    BY <1>3, <1>9, UploadsChange DEF At
  <2>2. CASE tiersOf'[o] = tiersOf[o]
    <3>1. tiersOf' = tiersOf
      BY ONLY <1>5, <1>6, <2>2
    <3>2. QED
      BY <1>3, <2>1, <3>1 DEF Lifecycle!vars
  <2>3. CASE tiersOf'[o] # tiersOf[o] /\ job[p].pc \in {"mirror", "copy_put"}
                                     /\ ArchiveWrite(o, Size)
    <3>1. local'[o] = local[o] /\ archived[o] = Absent /\ archived'[o] # Absent
      BY <1>4, <1>6, <1>7, <2>3 DEF ArchiveWrite
    <3>2. InScope(o) /\ (local[o] # Absent \/ o \in condemned)
      BY <1>1, <1>2, <2>3, <3>1 DEF Entitled, Known
    <3>3. tiersOf'[o] = tiersOf[o] \cup {"archive"}
      BY <1>6, <1>7, <3>1
    <3>4. Lifecycle!Archive(o)
      BY <1>3, <1>5, <1>6, <2>1, <3>2, <3>3 DEF Lifecycle!Archive, InScope
    <3>5. QED
      BY <3>4 DEF Lifecycle!Next
  <2>4. CASE tiersOf'[o] # tiersOf[o] /\ At(p, "remove") /\ LocalWrite(o, {Absent})
    <3>1. archived'[o] = archived[o] /\ local[o] # Absent /\ local'[o] = Absent
      BY <1>6, <1>7, <2>4 DEF LocalWrite
    <3>2. InScope(o) /\ (archived[o] # Absent \/ o \in condemned)
      BY <1>1, <1>2, <2>4 DEF Entitled, At
    <3>3. CASE archived[o] # Absent
      <4>1. tiersOf'[o] = {"archive"}
        BY <1>6, <3>1, <3>3
      <4>2. Lifecycle!Evict(o)
        BY <1>3, <1>5, <1>6, <2>1, <3>2, <3>3, <4>1 DEF Lifecycle!Evict, InScope
      <4>3. QED
        BY <4>2 DEF Lifecycle!Next
    <3>4. CASE o \in condemned
      <4>1. tiersOf'[o] = tiersOf[o] \ {"local"}
        BY <1>6, <1>7, <3>1
      <4>2. Lifecycle!Delete(o)
        BY <1>3, <1>6, <2>1, <3>4, <4>1 DEF Lifecycle!Delete, Lifecycle!Tiers
      <4>3. QED
        BY <4>2 DEF Lifecycle!Next
    <3>5. QED
      BY <3>2, <3>3, <3>4
  <2>5. CASE tiersOf'[o] # tiersOf[o] /\ At(p, "restore_put") /\ LocalWrite(o, Size)
    <3>1. archived'[o] = archived[o] /\ local[o] = Absent /\ local'[o] # Absent
      BY <1>4, <1>6, <1>7, <2>5 DEF LocalWrite
    <3>2. archived[o] # Absent \/ o \in condemned
      BY <1>1, <1>2, <2>5 DEF Entitled, At
    <3>3. tiersOf'[o] = tiersOf[o] \cup {"local"}
      BY <1>6, <1>7, <3>1
    <3>4. Lifecycle!Restore(o)
      BY <1>3, <1>5, <1>6, <2>1, <3>2, <3>3 DEF Lifecycle!Restore
    <3>5. QED
      BY <3>4 DEF Lifecycle!Next
  <2>6. CASE /\ tiersOf'[o] # tiersOf[o]
             /\ \/ At(p, "del_local") /\ LocalWrite(o, {Absent})
                \/ At(p, "del_archive") /\ ArchiveWrite(o, {Absent})
    <3>1. o \in condemned
      BY <1>1, <1>2, <2>6 DEF Entitled, At
    <3>2. \E t \in {"local", "archive"} : tiersOf'[o] = tiersOf[o] \ {t}
      BY <1>6, <1>7, <2>6 DEF LocalWrite, ArchiveWrite
    <3>3. Lifecycle!Delete(o)
      BY <1>3, <1>6, <2>1, <3>1, <3>2 DEF Lifecycle!Delete, Lifecycle!Tiers
    <3>4. QED
      BY <3>3 DEF Lifecycle!Next
  <2>7. QED
    BY <1>3, <1>9, <2>2, <2>3, <2>4, <2>5, <2>6 DEF Writing
<1>10. QED
  BY <1>3, <1>8, <1>9 DEF Writing, At

\* Every step is one of ObjectLifecycle's, or does not show there.
LEMMA NextRefines == RInv /\ [Next]_vars => [Lifecycle!Next]_(Lifecycle!vars)
<1> SUFFICES ASSUME RInv, [Next]_vars
             PROVE  [Lifecycle!Next]_(Lifecycle!vars)
  OBVIOUS
<1>1. CASE UNCHANGED vars
  BY <1>1 DEF vars, Lifecycle!vars, tiersOf, uploadsOf, At
<1>2. CASE Next
  BY <1>2, StepKinds, BeginningRefines, QuestionRefines, WriteRefines
<1>3. QED
  BY <1>1, <1>2

\* Uploads, archive requests, commands, the sweep, reads and deletes keep what
\* ObjectLifecycle promises, however their calls interleave, fail or go wrong: an
\* object comes into storage once, under a fresh name, is copied only from a tier
\* it is in, and leaves one only once the other has it or for a delete request.
THEOREM LifecycleTheorem == Spec => LifecycleSpec
<1>1. RInv /\ [Next]_vars => RInv'
  BY NextKeepsRInv
<1>2. RInv /\ [Next]_vars => [Lifecycle!Next]_(Lifecycle!vars)
  BY NextRefines
<1>3. QED
  BY <1>1, <1>2, InitRInv, InitRefines, PTL
     DEF Spec, LifecycleSpec, Lifecycle!Spec
=============================================================================
