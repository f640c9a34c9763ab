--------------------------- MODULE Backups_proofs ---------------------------
(* Proofs about Backups, for every set of rows, ticks and downloads, every *)
(* length of a dump, both backends, with and without faults.               *)
EXTENDS Backups, TLAPS

(* The invariant holds before the first backup is asked for.               *)
LEMMA InitIInv == Init => IInv
  BY BackupsAssumption
     DEF Init, IInv, TypeOK, Statuses, HoldInv, FileInv, CompleteIsWhole,
         ServedIsWhole

(* A new row, one more day and a download touch no tick and no file.       *)
LEMMA RowKeeps ==
  ASSUME IInv, UNCHANGED fixed, NEW b \in Backup,
         \/ Trigger(b) \/ Schedule(b) \/ Age(b)
         \/ \E h \in Handler : DownloadOpen(h) \/ DownloadRead(h, b)
  PROVE  IInv'
<1> USE BackupsAssumption DEF IInv, TypeOK, Statuses, fixed, rowVars, dumpVars
<1>1. CASE CreateAdminBackup(b)
  BY <1>1 DEF CreateAdminBackup, HoldInv, FileInv, CompleteIsWhole, ServedIsWhole
<1>2. CASE Age(b)
  BY <1>2 DEF Age, HoldInv, FileInv, CompleteIsWhole, ServedIsWhole
<1>3. ASSUME NEW h \in Handler, DownloadOpen(h) \/ DownloadRead(h, b) PROVE IInv'
  BY <1>3 DEF DownloadOpen, DownloadRead, HoldInv, FileInv, CompleteIsWhole,
              ServedIsWhole
<1> QED
  BY <1>1, <1>2, <1>3 DEF Trigger, Schedule

(* The claim hands a pending row, which nobody holds, to one tick.         *)
LEMMA ClaimKeeps ==
  ASSUME IInv, UNCHANGED fixed, NEW w \in Worker, Claim(w)
  PROVE  IInv'
<1> USE BackupsAssumption DEF IInv, TypeOK, Statuses, fixed, rowVars, dumpVars
<1>1. CASE Claimable = {} /\ wpc' = [wpc EXCEPT ![w] = "prune"]
           /\ UNCHANGED <<status, cur, dumpVars>>
  BY <1>1 DEF Claim, HoldInv, FileInv, CompleteIsWhole, ServedIsWhole
<1>2. ASSUME NEW b \in Claimable,
             status' = [status EXCEPT ![b] = "running"],
             wpc' = [wpc EXCEPT ![w] = "put"],
             cur' = [cur EXCEPT ![w] = b],
             dump' = [dump EXCEPT ![w] = "running"],
             pipe' = [pipe EXCEPT ![w] = "open"],
             taken' = [taken EXCEPT ![w] = 0],
             putErr' = putErr \ {w}
      PROVE  IInv'
  <2> b \in Backup /\ status[b] = "pending"
    BY DEF Claimable
  <2>1. \A x \in Worker : cur[x] # b
    BY DEF HoldInv
  <2>2. TypeOK'
    BY <1>2 DEF Claim
  <2>3. HoldInv'
    BY <1>2, <2>1 DEF Claim, HoldInv
  <2>4. FileInv' /\ CompleteIsWhole' /\ ServedIsWhole'
    BY <1>2 DEF Claim, FileInv, CompleteIsWhole, ServedIsWhole
  <2> QED
    BY <2>2, <2>3, <2>4
<1> QED
  BY <1>1, <1>2 DEF Claim, ClaimPendingAdminBackups

(* Put writes only the file of the row its tick holds, which is running:   *)
(* no complete row and no download is disturbed.                           *)
LEMMA PutKeeps ==
  ASSUME IInv, UNCHANGED fixed, NEW w \in Worker, PutStep(w)
  PROVE  IInv'
<1> USE BackupsAssumption DEF IInv, TypeOK, Statuses, fixed, rowVars, dumpVars
<1>1. /\ cur[w] \in Backup
      /\ status[cur[w]] = "running"
      /\ w \notin putErr
      /\ wpc[w] \in {"put", "copy"}
  BY DEF HoldInv, PutStep, PutBegin, Copy, CopyFails, PutEnd
<1>2. \A x \in Worker : x # w => cur[x] # cur[w]
  BY <1>1 DEF HoldInv
<1>3. /\ \A b \in Backup : b # cur[w] => stored'[b] = stored[b]
      /\ UNCHANGED <<rowVars, cur, wtrash, hrow>>
  BY DEF PutStep, PutBegin, Copy, CopyFails, PutEnd, Abandon
<1>4. FileInv' /\ CompleteIsWhole' /\ ServedIsWhole'
  BY <1>1, <1>3 DEF FileInv, CompleteIsWhole, ServedIsWhole
<1>5. CASE PutBegin(w)
  <2>1. TypeOK'
    BY <1>5, <1>1 DEF PutBegin, PutFails
  <2>2. HoldInv'
    BY <1>5, <1>1, <1>2, <1>3 DEF PutBegin, PutFails, HoldInv
  <2> QED
    BY <2>1, <2>2, <1>4
<1>6. CASE Copy(w)
  <2>1. TypeOK'
    BY <1>6, <1>1 DEF Copy, CanPass
  <2>2. HoldInv'
    BY <1>6, <1>1, <1>2, <1>3 DEF Copy, CanPass, HoldInv
  <2> QED
    BY <2>1, <2>2, <1>4
<1>7. CASE CopyFails(w)
  <2>1. TypeOK'
    BY <1>7, <1>1 DEF CopyFails, CanPass, PutFails, Abandon
  <2>2. HoldInv'
    BY <1>7, <1>1, <1>2, <1>3 DEF CopyFails, CanPass, PutFails, Abandon, HoldInv
  <2> QED
    BY <2>1, <2>2, <1>4
<1>8. CASE PutEnd(w)
  <2>1. TypeOK'
    BY <1>8, <1>1 DEF PutEnd, PutFails, Abandon
  <2>2. HoldInv'
    BY <1>8, <1>1, <1>2, <1>3 DEF PutEnd, PutFails, Abandon, HoldInv
  <2> QED
    BY <2>1, <2>2, <1>4
<1> QED
  BY <1>5, <1>6, <1>7, <1>8 DEF PutStep

(* The two ends of the pipe close it, regularly only after the last chunk. *)
LEMMA PipeKeeps ==
  ASSUME IInv, UNCHANGED fixed, NEW w \in Worker,
         ClosePipe(w) \/ Join(w) \/ DumpDone(w) \/ DumpBreaks(w) \/ DumpDies(w)
  PROVE  IInv'
<1> USE BackupsAssumption DEF IInv, TypeOK, Statuses, fixed, rowVars, dumpVars
<1>1. CASE ClosePipe(w)
  BY <1>1 DEF ClosePipe, HoldInv, FileInv, CompleteIsWhole, ServedIsWhole
<1>2. CASE Join(w)
  BY <1>2 DEF Join, HoldInv, FileInv, CompleteIsWhole, ServedIsWhole
<1>3. CASE DumpDone(w) \/ DumpBreaks(w) \/ DumpDies(w)
  BY <1>3 DEF DumpDone, DumpBreaks, DumpDies, EndDump, HoldInv, FileInv,
              CompleteIsWhole, ServedIsWhole
<1> QED
  BY <1>1, <1>2, <1>3

(* The result is recorded for the row the tick holds.                      *)
LEMMA ResultKeeps ==
  ASSUME IInv, UNCHANGED fixed, NEW w \in Worker, Complete(w) \/ Fail(w)
  PROVE  IInv'
<1> USE BackupsAssumption DEF IInv, TypeOK, Statuses, fixed, rowVars, dumpVars
<1>1. cur[w] \in Backup /\ \A x \in Worker : x # w => cur[x] # cur[w]
  BY DEF HoldInv, Complete, Fail
<1>2. CASE Complete(w)
  <2>1. TypeOK'
    BY <1>1, <1>2 DEF Complete, CompleteRow, LoopDone
  <2>2. HoldInv'
    BY <1>1, <1>2 DEF Complete, CompleteRow, LoopDone, HoldInv
  <2>3. FileInv' /\ CompleteIsWhole' /\ ServedIsWhole'
    BY <1>1, <1>2 DEF Complete, CompleteRow, HoldInv, FileInv, CompleteIsWhole,
                      ServedIsWhole
  <2> QED
    BY <2>1, <2>2, <2>3
<1>3. CASE Fail(w)
  <2>1. TypeOK'
    BY <1>1, <1>3 DEF Fail, FailAdminBackup, LoopDone
  <2>2. HoldInv'
    BY <1>1, <1>3 DEF Fail, FailAdminBackup, LoopDone, HoldInv
  <2>3. FileInv' /\ CompleteIsWhole' /\ ServedIsWhole'
    BY <1>1, <1>3 DEF Fail, FailAdminBackup, HoldInv, FileInv, CompleteIsWhole,
                      ServedIsWhole
  <2> QED
    BY <2>1, <2>2, <2>3
<1> QED
  BY <1>2, <1>3

(* A prune deletes rows before their files, and only files of such rows.   *)
LEMMA PruneKeeps ==
  ASSUME IInv, UNCHANGED fixed, NEW w \in Worker,
         Prune(w) \/ TickDone(w) \/ \E b \in Backup : Unlink(w, b)
  PROVE  IInv'
<1> USE BackupsAssumption DEF IInv, TypeOK, Statuses, fixed, rowVars, dumpVars
<1>1. CASE Prune(w)
  <2>1. TypeOK'
    BY <1>1 DEF Prune, DeleteExpiredAdminBackups, Prunable
  <2>2. HoldInv'
    BY <1>1 DEF Prune, DeleteExpiredAdminBackups, Prunable, HoldInv
  <2>3. FileInv' /\ CompleteIsWhole' /\ ServedIsWhole'
    BY <1>1 DEF Prune, DeleteExpiredAdminBackups, Prunable, FileInv,
                CompleteIsWhole, ServedIsWhole
  <2> QED
    BY <2>1, <2>2, <2>3
<1>2. CASE TickDone(w)
  BY <1>2 DEF TickDone, HoldInv, FileInv, CompleteIsWhole, ServedIsWhole
<1>3. ASSUME NEW b \in Backup, Unlink(w, b) PROVE IInv'
  <2>1. status[b] = "gone"
    BY <1>3 DEF Unlink, FileInv
  <2>2. \A x \in Worker : wpc[x] \in {"close", "wait", "complete"} => cur[x] # b
    BY <2>1 DEF HoldInv
  <2>3. TypeOK'
    BY <1>3 DEF Unlink
  <2>4. HoldInv'
    BY <1>3, <2>2 DEF Unlink, HoldInv
  <2>5. FileInv' /\ CompleteIsWhole' /\ ServedIsWhole'
    BY <1>3, <2>1 DEF Unlink, FileInv, CompleteIsWhole, ServedIsWhole
  <2> QED
    BY <2>3, <2>4, <2>5
<1> QED
  BY <1>1, <1>2, <1>3

(* Every step of the specification, a crash and stuttering included, keeps *)
(* the invariant.                                                          *)
LEMMA StepIInv == IInv /\ [Next]_vars => IInv'
<1> SUFFICES ASSUME IInv, [Next]_vars PROVE IInv'
  OBVIOUS
<1>1. CASE UNCHANGED vars
  BY <1>1 DEF vars, fixed, rowVars, dumpVars, IInv, TypeOK, HoldInv, FileInv,
              CompleteIsWhole, ServedIsWhole
<1>2. CASE Crash /\ UNCHANGED fixed
  BY <1>2, BackupsAssumption
     DEF Crash, fixed, rowVars, IInv, TypeOK, Statuses, HoldInv, FileInv,
         CompleteIsWhole, ServedIsWhole
<1>3. ASSUME NEW w \in Worker, UNCHANGED fixed,
             TickStep(w) \/ DumpDone(w) \/ DumpBreaks(w) \/ DumpDies(w)
      PROVE  IInv'
  BY <1>3, ClaimKeeps, PutKeeps, PipeKeeps, ResultKeeps, PruneKeeps DEF TickStep
<1>4. ASSUME NEW b \in Backup, UNCHANGED fixed, Trigger(b) \/ Schedule(b) \/ Age(b)
      PROVE  IInv'
  BY <1>4, RowKeeps
<1>5. ASSUME NEW h \in Handler, UNCHANGED fixed, DownloadOpen(h)
      PROVE  IInv'
  BY <1>5, BackupsAssumption
     DEF DownloadOpen, fixed, rowVars, dumpVars, IInv, TypeOK, HoldInv, FileInv,
         CompleteIsWhole, ServedIsWhole
<1>6. ASSUME NEW h \in Handler, NEW b \in Backup, UNCHANGED fixed, DownloadRead(h, b)
      PROVE  IInv'
  BY <1>6, RowKeeps
<1> QED
  BY <1>1, <1>2, <1>3, <1>4, <1>5, <1>6 DEF Next

(* The strengthened invariant holds of every behaviour.                    *)
THEOREM Invariance == Spec => []IInv
  BY InitIInv, StepIInv, PTL DEF Spec

(* Every variable keeps its type.                                          *)
THEOREM TypeCorrect == Spec => []TypeOK
<1>1. IInv => TypeOK
  BY DEF IInv
<1> QED
  BY Invariance, <1>1, PTL

(* A complete row never names a truncated or missing dump, whichever of    *)
(* pg_dump, the pipe and the store fails.                                  *)
THEOREM CompleteWhole == Spec => []CompleteIsWhole
<1>1. IInv => CompleteIsWhole
  BY DEF IInv
<1> QED
  BY Invariance, <1>1, PTL

(* A download never opens a part of a dump.                                *)
THEOREM ServedWhole == Spec => []ServedIsWhole
<1>1. IInv => ServedIsWhole
  BY DEF IInv
<1> QED
  BY Invariance, <1>1, PTL

-----------------------------------------------------------------------------
(* No dump leaks                                                           *)

(* The claim, a new row, one more day, a download and the two ends of the  *)
(* pipe write no file and give none up; Join gives a row up only when its  *)
(* Put failed.                                                             *)
LEMMA QuietLeak ==
  ASSUME IInv, LeakInv, UNCHANGED fixed,
         \/ \E b \in Backup : CreateAdminBackup(b) \/ Age(b)
         \/ \E h \in Handler : DownloadOpen(h) \/ \E b \in Backup : DownloadRead(h, b)
         \/ \E w \in Worker : \/ Claim(w) \/ ClosePipe(w) \/ Join(w) \/ TickDone(w)
                              \/ DumpDone(w) \/ DumpBreaks(w) \/ DumpDies(w)
  PROVE  LeakInv'
<1> USE BackupsAssumption DEF IInv, TypeOK, Statuses, fixed, rowVars, dumpVars,
              LeakInv, NoDumpLeaks, Accounted
<1>1. ASSUME NEW b \in Backup, CreateAdminBackup(b) PROVE LeakInv'
  BY <1>1 DEF CreateAdminBackup, HoldInv
<1>2. ASSUME NEW b \in Backup, Age(b) PROVE LeakInv'
  BY <1>2 DEF Age
<1>3. ASSUME NEW h \in Handler, DownloadOpen(h) \/ \E b \in Backup : DownloadRead(h, b)
      PROVE  LeakInv'
  BY <1>3 DEF DownloadOpen, DownloadRead
<1>4. ASSUME NEW w \in Worker, Claim(w) PROVE LeakInv'
  BY <1>4 DEF Claim, ClaimPendingAdminBackups, Claimable, HoldInv
<1>5. ASSUME NEW w \in Worker, ClosePipe(w) PROVE LeakInv'
  BY <1>5 DEF ClosePipe
<1>6. ASSUME NEW w \in Worker, Join(w) PROVE LeakInv'
  BY <1>6 DEF Join, HoldInv
<1>7. ASSUME NEW w \in Worker, TickDone(w) PROVE LeakInv'
  BY <1>7 DEF TickDone
<1>8. ASSUME NEW w \in Worker, DumpDone(w) \/ DumpBreaks(w) \/ DumpDies(w) PROVE LeakInv'
  BY <1>8 DEF DumpDone, DumpBreaks, DumpDies, EndDump
<1> QED
  BY <1>1, <1>2, <1>3, <1>4, <1>5, <1>6, <1>7, <1>8

(* Put accounts for the file it writes until it returns: with an error the *)
(* file is gone, without one it has read to the end of the pipe.           *)
LEMMA PutLeak ==
  ASSUME IInv, LeakInv, UNCHANGED fixed, NEW w \in Worker, PutStep(w)
  PROVE  LeakInv'
<1> USE BackupsAssumption DEF IInv, TypeOK, Statuses, fixed, rowVars, dumpVars,
              LeakInv, NoDumpLeaks, Accounted
<1>1. CASE PutBegin(w)
  BY <1>1 DEF PutBegin, PutFails, HoldInv
<1>2. CASE Copy(w)
  BY <1>2 DEF Copy, CanPass, HoldInv
<1>3. CASE CopyFails(w)
  BY <1>3 DEF CopyFails, CanPass, PutFails, Abandon, HoldInv
<1>4. CASE PutEnd(w)
  BY <1>4 DEF PutEnd, PutFails, Abandon, HoldInv
<1> QED
  BY <1>1, <1>2, <1>3, <1>4 DEF PutStep

(* A completed row takes its file over, and a prune takes it from the row  *)
(* it deletes.                                                             *)
LEMMA RowLeak ==
  ASSUME IInv, LeakInv, UNCHANGED fixed, NEW w \in Worker,
         Complete(w) \/ Fail(w) \/ Prune(w) \/ \E b \in Backup : Unlink(w, b)
  PROVE  LeakInv'
<1> USE BackupsAssumption DEF IInv, TypeOK, Statuses, fixed, rowVars, dumpVars,
              LeakInv, NoDumpLeaks, Accounted
<1>1. CASE Complete(w)
  BY <1>1 DEF Complete, CompleteRow, LoopDone, HoldInv
<1>2. CASE Fail(w)
  BY <1>2 DEF Fail, FailAdminBackup, LoopDone, HoldInv, FileInv
<1>3. CASE Prune(w)
  <2>1. /\ \A b \in Backup : status'[b] # status[b] =>
             status[b] \in {"complete", "failed"} /\ status'[b] = "gone"
        /\ \A x \in Worker : x # w => wpc'[x] = wpc[x] /\ wtrash'[x] = wtrash[x]
        /\ wpc[w] = "prune" /\ wpc'[w] \in {"unlink", "idle"} /\ wtrash[w] = {}
        /\ wpc'[w] # "unlink" => wtrash'[w] = {}
        /\ UNCHANGED <<hasPath, stored, cur, dump, pipe, putErr>>
    BY <1>3 DEF Prune, DeleteExpiredAdminBackups, Prunable
  <2>2. ASSUME ~faults, NEW b \in Backup, status[b] = "complete", status'[b] # "complete"
        PROVE  b \in wtrash'[w]
    BY <1>3, <2>2 DEF Prune, DeleteExpiredAdminBackups, Prunable
  <2>3. ASSUME ~faults, NEW b \in Backup, stored'[b] # None
        PROVE  Accounted(b)'
    BY <2>1, <2>2, <2>3
  <2>4. ASSUME ~faults, NEW x \in Worker, wpc'[x] = "fail"
        PROVE  status'[cur'[x]] = "running"
    BY <2>1, <2>4 DEF HoldInv
  <2> QED
    BY <2>1, <2>3, <2>4
<1>4. ASSUME NEW b \in Backup, Unlink(w, b) PROVE LeakInv'
  BY <1>4 DEF Unlink
<1> QED
  BY <1>1, <1>2, <1>3, <1>4

(* Every step keeps LeakInv.                                               *)
LEMMA StepLeak == IInv /\ LeakInv /\ [Next]_vars => LeakInv'
<1> SUFFICES ASSUME IInv, LeakInv, [Next]_vars PROVE LeakInv'
  OBVIOUS
<1>1. CASE UNCHANGED vars
  BY <1>1 DEF vars, fixed, rowVars, dumpVars, LeakInv, NoDumpLeaks, Accounted
<1>2. CASE Crash /\ UNCHANGED fixed
  BY <1>2 DEF Crash, fixed, rowVars, LeakInv, NoDumpLeaks
<1> QED
  BY <1>1, <1>2, QuietLeak, PutLeak, RowLeak DEF Next, TickStep, Trigger, Schedule

(* While nothing but pg_dump and the store's writes fails, every file in   *)
(* the store belongs to a complete row, to a tick that is writing or       *)
(* recording it, or to one that is about to delete it.                     *)
THEOREM NoLeaks == Spec => []NoDumpLeaks
<1>1. Init => LeakInv
  BY BackupsAssumption DEF Init, LeakInv, NoDumpLeaks
<1>2. LeakInv => NoDumpLeaks
  BY DEF LeakInv
<1> QED
  BY Invariance, StepLeak, <1>1, <1>2, PTL DEF Spec

-----------------------------------------------------------------------------
(* Backups implements Artifacts                                            *)

\* What a step may do to the row and the file of b.
Whole(b) == stored[b] = Chunks
Moves(b) ==
  \/ status[b] = "absent" /\ status'[b] = "pending"
  \/ status[b] = "pending" /\ status'[b] = "running"
  \/ status[b] = "running" /\ Whole(b) /\ status'[b] = "complete"
  \/ status[b] # "absent" /\ status'[b] \in {"failed", "gone"}
Allowed(b) ==
  \/ stored'[b] = stored[b] /\ (status'[b] = status[b] \/ Moves(b))
  \/ status'[b] = status[b] /\ status[b] \in {"running", "gone"}

(* Such a change is a step of Artifacts.                                   *)
LEMMA AllowedMaps ==
  ASSUME IInv, IInv', UNCHANGED fixed, NEW b \in Backup, Allowed(b)
  PROVE  Abstract!Step(b)
<1> USE DEF Abstract!Step, Abstract!Becomes, IInv, TypeOK, Statuses, PhaseOf
<1>1. CASE status'[b] = status[b] /\ status[b] = "running"
  BY <1>1 DEF Abstract!Same, Abstract!Store, Abstract!Remove
<1>2. CASE status'[b] = status[b] /\ status[b] = "gone"
  BY <1>2 DEF Abstract!Same, Abstract!Store, Abstract!Remove
<1>3. CASE stored'[b] = stored[b] /\ status'[b] = status[b]
  BY <1>3 DEF Abstract!Same
<1>4. CASE stored'[b] = stored[b] /\ Moves(b)
  BY <1>4 DEF Moves, Whole, Abstract!Request, Abstract!Start, Abstract!Offer,
              Abstract!Withdraw, Abstract!Same
<1> QED
  BY <1>1, <1>2, <1>3, <1>4 DEF Allowed

(* Every step changes a row and its file in one of these ways: HoldInv     *)
(* says which rows a tick writes the file of and completes, FileInv which  *)
(* files a prune deletes.                                                  *)
LEMMA StepAllowed ==
  ASSUME IInv, [Next]_vars, NEW b \in Backup
  PROVE  Allowed(b)
<1> USE DEF IInv, TypeOK, Statuses, Allowed, Moves, Whole, rowVars
<1>1. ASSUME NEW c \in Backup, CreateAdminBackup(c) PROVE Allowed(b)
  BY <1>1 DEF CreateAdminBackup
<1>2. ASSUME NEW w \in Worker, Claim(w) PROVE Allowed(b)
  BY <1>2 DEF Claim, ClaimPendingAdminBackups, Claimable
<1>3. ASSUME NEW w \in Worker, PutStep(w) PROVE Allowed(b)
  BY <1>3 DEF PutStep, PutBegin, Copy, CopyFails, PutEnd, Abandon, HoldInv
<1>4. ASSUME NEW w \in Worker, Complete(w) PROVE Allowed(b)
  BY <1>4 DEF Complete, CompleteRow, HoldInv
<1>5. ASSUME NEW w \in Worker, Fail(w) PROVE Allowed(b)
  BY <1>5 DEF Fail, FailAdminBackup, HoldInv
<1>6. ASSUME NEW w \in Worker, Prune(w) PROVE Allowed(b)
  BY <1>6 DEF Prune, DeleteExpiredAdminBackups, Prunable
<1>7. ASSUME NEW w \in Worker, NEW c \in Backup, Unlink(w, c) PROVE Allowed(b)
  BY <1>7 DEF Unlink, FileInv
<1>8. \/ status' = status /\ stored' = stored
      \/ \E c \in Backup : CreateAdminBackup(c)
      \/ \E w \in Worker : \/ Claim(w) \/ PutStep(w) \/ Complete(w) \/ Fail(w)
                           \/ Prune(w) \/ \E c \in Backup : Unlink(w, c)
  BY DEF Next, TickStep, Trigger, Schedule, Age, ClosePipe, Join, TickDone,
         DumpDone, DumpBreaks, DumpDies, EndDump, DownloadOpen, DownloadRead,
         Crash, vars
<1> QED
  BY <1>1, <1>2, <1>3, <1>4, <1>5, <1>6, <1>7, <1>8

(* The backup pipeline implements Artifacts: worked on once, offered only  *)
(* when stored, whole while offered, never offered again.                  *)
THEOREM Refines == Spec => ImplementsArtifacts
<1>1. Init => Abstract!Init
  BY BackupsAssumption DEF Init, Abstract!Init, PhaseOf
<1>2. IInv /\ IInv' /\ [Next]_vars =>
        [Abstract!Next]_<<[b \in Backup |-> PhaseOf(status[b])],
                          {b \in Backup : stored[b] = Chunks}>>
  <2> SUFFICES ASSUME IInv, IInv', [Next]_vars PROVE Abstract!Next
    OBVIOUS
  <2>1. UNCHANGED fixed
    BY DEF Next, vars
  <2>2. \A b \in Backup : Abstract!Step(b)
    BY <2>1, StepAllowed, AllowedMaps
  <2>3. [b \in Backup |-> PhaseOf(status[b])]' \in [Backup -> Abstract!Phases]
    BY DEF Abstract!Phases, PhaseOf, IInv, TypeOK, Statuses
  <2> QED
    BY <2>2, <2>3 DEF Abstract!Next
<1> QED
  BY Invariance, <1>1, <1>2, PTL DEF Spec, ImplementsArtifacts, Abstract!Spec

=============================================================================
