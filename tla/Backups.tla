------------------------------ MODULE Backups ------------------------------
(***************************************************************************)
(* Admin backups: the rows of admin_backups, the dumps in the backup       *)
(* store, the daily and the requested insert of a row, the River ticks     *)
(* that claim a row, run pg_dump into the store and prune what is past     *)
(* its retention, and the download.                                        *)
(*                                                                         *)
(* In a tick pg_dump's output runs through a synchronous pipe into         *)
(* store.Put, in two goroutines: each chunk passes when one writes and the *)
(* other reads, and either may fail while the other waits for it.          *)
(*                                                                         *)
(* Every query and every call of the store may fail on its own (faults).   *)
(* This covers a cancelled job context, after which they all fail.         *)
(*                                                                         *)
(* An operator Mut... is the definition below it with a plausible mistake. *)
(* No action uses it; putting it in place shows that a property notices.   *)
(***************************************************************************)
EXTENDS Integers

CONSTANTS
  Backup,   \* ids of admin_backups rows; bounds how many are ever created
  Worker,   \* River jobs running adminBackupDispatchWorker.Work
  Handler,  \* goroutines serving a download
  Chunks,   \* how many writes a dump takes
  None      \* no row, no file

ASSUME BackupsAssumption ==
  /\ None \notin Backup \cup Int
  /\ Chunks \in Nat \ {0}

VARIABLES
  store,    \* the backend of the store, fixed by the configuration
  faults,   \* whether the process may crash and a query or a removal may fail,
            \* in this behaviour
  status,   \* admin_backups.status, "absent" before the INSERT, "gone" after the DELETE
  hasPath,  \* rows whose file_path is not NULL
  old,      \* rows whose completed_at is past the retention
  stored,   \* how many chunks are in the file under the row's key
  wpc,      \* where a tick stands
  cur,      \* the row it backs up
  dump,     \* its pg_dump, and cmdErr once it ended
  pipe,     \* the pipe: open, closed by the writer (eof, broken) or the reader
  taken,    \* how many chunks Put has read from it
  putErr,   \* the ticks whose Put returned an error
  wtrash,   \* paths pruneExpired has still to delete
  hrow      \* the row a download read as complete, and has yet to open

fixed    == <<store, faults>>
rowVars  == <<status, hasPath, old>>
dumpVars == <<dump, pipe, taken, putErr>>
vars == <<fixed, rowVars, stored, wpc, cur, dumpVars, wtrash, hrow>>

Statuses == {"absent", "pending", "running", "complete", "failed", "gone"}

(* The whole state is well formed. *)
TypeOK ==
  /\ store \in {"local", "s3"}
  /\ faults \in BOOLEAN
  /\ status \in [Backup -> Statuses]
  /\ hasPath \subseteq Backup
  /\ old \subseteq Backup
  /\ stored \in [Backup -> 0..Chunks \cup {None}]
  /\ wpc \in [Worker -> {"idle", "put", "copy", "close", "wait", "complete",
                         "fail", "prune", "unlink"}]
  /\ cur \in [Worker -> Backup \cup {None}]
  /\ dump \in [Worker -> {"none", "running", "done", "failed"}]
  /\ pipe \in [Worker -> {"open", "eof", "broken", "closed"}]
  /\ taken \in [Worker -> 0..Chunks]
  /\ putErr \subseteq Worker
  /\ wtrash \in [Worker -> SUBSET Backup]
  /\ hrow \in [Handler -> Backup \cup {None}]

Init ==
  /\ store \in {"local", "s3"}
  /\ faults \in BOOLEAN
  /\ status = [b \in Backup |-> "absent"]
  /\ hasPath = {}
  /\ old = {}
  /\ stored = [b \in Backup |-> None]
  /\ wpc = [w \in Worker |-> "idle"]
  /\ cur = [w \in Worker |-> None]
  /\ dump = [w \in Worker |-> "none"]
  /\ pipe = [w \in Worker |-> "closed"]
  /\ taken = [w \in Worker |-> 0]
  /\ putErr = {}
  /\ wtrash = [w \in Worker |-> {}]
  /\ hrow = [h \in Handler |-> None]

-----------------------------------------------------------------------------
(* New rows                                                                *)

CreateAdminBackup(b) ==
  /\ status[b] = "absent"
  /\ status' = [status EXCEPT ![b] = "pending"]
  /\ UNCHANGED <<hasPath, old, stored, wpc, cur, dumpVars, wtrash, hrow>>

(* handleTriggerAdminBackup, and adminBackupScheduleWorker once a day. *)
Trigger(b)  == CreateAdminBackup(b)
Schedule(b) == CreateAdminBackup(b)

-----------------------------------------------------------------------------
(* adminBackupDispatchWorker.Work: claim, then processBackup               *)

Claimable == {b \in Backup : status[b] = "pending"}

(* LIMIT 1 FOR UPDATE SKIP LOCKED.  Which row (ORDER BY created_at) is     *)
(* left open.                                                              *)
ClaimPendingAdminBackups(b) ==
  /\ b \in Claimable
  /\ status' = [status EXCEPT ![b] = "running"]

(* With no pending row the tick goes on to prune.  With one it starts      *)
(* pg_dump in its goroutine and calls Put.                                 *)
MutClaimUnknownStatus(w) ==
  /\ wpc[w] = "idle"
  /\ \E b \in Claimable : status' = [status EXCEPT ![b] = "claimed"]
  /\ UNCHANGED <<hasPath, old, stored, wpc, cur, dumpVars, wtrash, hrow>>
Claim(w) ==
  /\ wpc[w] = "idle"
  /\ \/ \E b \in Backup :
          /\ ClaimPendingAdminBackups(b)
          /\ wpc' = [wpc EXCEPT ![w] = "put"]
          /\ cur' = [cur EXCEPT ![w] = b]
          /\ dump' = [dump EXCEPT ![w] = "running"]
          /\ pipe' = [pipe EXCEPT ![w] = "open"]
          /\ taken' = [taken EXCEPT ![w] = 0]
          /\ putErr' = putErr \ {w}
     \/ /\ Claimable = {}
        /\ wpc' = [wpc EXCEPT ![w] = "prune"]
        /\ UNCHANGED <<status, cur, dumpVars>>
  /\ UNCHANGED <<hasPath, old, stored, wtrash, hrow>>

PutFails(w) ==
  /\ putErr' = putErr \cup {w}
  /\ wpc' = [wpc EXCEPT ![w] = "close"]

(* localStore.Put creates the file, or fails; S3 shows no object yet. *)
PutBegin(w) ==
  /\ wpc[w] = "put"
  /\ \/ /\ stored' = IF store = "local" THEN [stored EXCEPT ![cur[w]] = 0] ELSE stored
        /\ wpc' = [wpc EXCEPT ![w] = "copy"]
        /\ UNCHANGED putErr
     \/ PutFails(w) /\ UNCHANGED stored
  /\ UNCHANGED <<rowVars, cur, dump, pipe, taken, wtrash, hrow>>

(* One chunk goes from pg_dump through the pipe. *)
CanPass(w) == dump[w] = "running" /\ pipe[w] = "open" /\ taken[w] < Chunks

(* It reaches the store. *)
Copy(w) ==
  /\ wpc[w] = "copy"
  /\ CanPass(w)
  /\ taken' = [taken EXCEPT ![w] = @ + 1]
  /\ stored' = IF store = "local" THEN [stored EXCEPT ![cur[w]] = taken[w] + 1] ELSE stored
  /\ UNCHANGED <<rowVars, wpc, cur, dump, pipe, putErr, wtrash, hrow>>

(* What is left of a Put that failed: localStore removes the file, which   *)
(* may fail in turn; S3 never had an object.                               *)
Abandon(w) ==
  \/ stored' = [stored EXCEPT ![cur[w]] = None]
  \/ faults /\ UNCHANGED stored

(* The store fails, with or without the chunk at hand. *)
MutCopyFailsKeepsFile(w) ==
  /\ wpc[w] = "copy"
  /\ PutFails(w)
  /\ UNCHANGED <<rowVars, stored, cur, dump, pipe, taken, wtrash, hrow>>
CopyFails(w) ==
  /\ wpc[w] = "copy"
  /\ PutFails(w)
  /\ Abandon(w)
  /\ \/ CanPass(w) /\ taken' = [taken EXCEPT ![w] = @ + 1]
     \/ UNCHANGED taken
  /\ UNCHANGED <<rowVars, cur, dump, pipe, wtrash, hrow>>

(* The end of the pipe: all was read, or pg_dump's failure comes through. *)
PutEnd(w) ==
  /\ wpc[w] = "copy"
  /\ \/ /\ pipe[w] = "eof"
        /\ stored' = [stored EXCEPT ![cur[w]] = taken[w]]
        /\ wpc' = [wpc EXCEPT ![w] = "close"]
        /\ UNCHANGED putErr
     \/ pipe[w] = "broken" /\ PutFails(w) /\ Abandon(w)
  /\ UNCHANGED <<rowVars, cur, dump, pipe, taken, wtrash, hrow>>

(* pr.Close(): a pg_dump still writing gets an error. *)
MutNoClose(w) ==
  /\ wpc[w] = "close"
  /\ wpc' = [wpc EXCEPT ![w] = "wait"]
  /\ UNCHANGED <<rowVars, stored, cur, dumpVars, wtrash, hrow>>
ClosePipe(w) ==
  /\ wpc[w] = "close"
  /\ pipe' = [pipe EXCEPT ![w] = "closed"]
  /\ wpc' = [wpc EXCEPT ![w] = "wait"]
  /\ UNCHANGED <<rowVars, stored, cur, dump, taken, putErr, wtrash, hrow>>

(* <-done, then the two errors are looked at. *)
MutJoinDumpErrorOnly(w) ==
  /\ wpc[w] = "wait"
  /\ dump[w] \in {"done", "failed"}
  /\ wpc' = [wpc EXCEPT ![w] = IF dump[w] = "done" THEN "complete" ELSE "fail"]
  /\ UNCHANGED <<rowVars, stored, cur, dumpVars, wtrash, hrow>>
Join(w) ==
  /\ wpc[w] = "wait"
  /\ dump[w] \in {"done", "failed"}
  /\ wpc' = [wpc EXCEPT ![w] = IF dump[w] = "done" /\ w \notin putErr
                               THEN "complete" ELSE "fail"]
  /\ UNCHANGED <<rowVars, stored, cur, dumpVars, wtrash, hrow>>

-----------------------------------------------------------------------------
(* The goroutine around pg_dump                                            *)

EndDump(w, d, p) ==
  /\ dump' = [dump EXCEPT ![w] = d]
  /\ pipe' = [pipe EXCEPT ![w] = IF @ = "open" THEN p ELSE @]
  /\ UNCHANGED <<rowVars, stored, wpc, cur, taken, putErr, wtrash, hrow>>

(* All is written: cmd.Run returns nil, pw.Close(). *)
DumpDone(w) == dump[w] = "running" /\ taken[w] = Chunks /\ EndDump(w, "done", "eof")

(* It writes to a pipe whose reader is gone. *)
DumpBreaks(w) ==
  /\ dump[w] = "running"
  /\ pipe[w] = "closed"
  /\ taken[w] < Chunks
  /\ EndDump(w, "failed", "broken")

(* It fails by itself, or is killed with the job's context:                *)
(* pw.CloseWithError.                                                      *)
DumpDies(w) == dump[w] = "running" /\ EndDump(w, "failed", "broken")

-----------------------------------------------------------------------------
(* The result, and pruneExpired                                            *)

(* CompleteAdminBackup (WHERE id = $1 only).  A reply lost after the commit *)
(* leaves the row complete and still goes to FailAdminBackup.               *)
CompleteRow(w) ==
  /\ status' = [status EXCEPT ![cur[w]] = "complete"]
  /\ hasPath' = hasPath \cup {cur[w]}
  /\ old' = old \ {cur[w]}

LoopDone(w) ==
  /\ wpc' = [wpc EXCEPT ![w] = "prune"]
  /\ cur' = [cur EXCEPT ![w] = None]
  /\ dump' = [dump EXCEPT ![w] = "none"]
  /\ taken' = [taken EXCEPT ![w] = 0]
  /\ putErr' = putErr \ {w}
  /\ UNCHANGED pipe

Complete(w) ==
  /\ wpc[w] = "complete"
  /\ \/ CompleteRow(w) /\ LoopDone(w)
     \/ /\ faults
        /\ CompleteRow(w) \/ UNCHANGED rowVars
        /\ wpc' = [wpc EXCEPT ![w] = "fail"]
        /\ UNCHANGED <<cur, dumpVars>>
  /\ UNCHANGED <<stored, wtrash, hrow>>

(* WHERE id = $1, whatever the status is *)
FailAdminBackup(b) ==
  /\ status' = [status EXCEPT ![b] = "failed"]
  /\ old' = old \ {b}

(* The error of FailAdminBackup itself is discarded. *)
MutFailRequeues(w) ==
  /\ wpc[w] = "fail"
  /\ status' = [status EXCEPT ![cur[w]] = "pending"]
  /\ LoopDone(w)
  /\ UNCHANGED <<hasPath, old, stored, wtrash, hrow>>
Fail(w) ==
  /\ wpc[w] = "fail"
  /\ \/ /\ status[cur[w]] # "gone"
        /\ FailAdminBackup(cur[w])
     \/ /\ status[cur[w]] = "gone" \/ faults
        /\ UNCHANGED <<status, old>>
  /\ LoopDone(w)
  /\ UNCHANGED <<hasPath, stored, wtrash, hrow>>

(* completed_at < now() - retention AND status IN ('complete', 'failed') *)
MutPruneOnlyFailed == {b \in old : status[b] = "failed"}
Prunable == {b \in old : status[b] \in {"complete", "failed"}}

DeleteExpiredAdminBackups ==
  status' = [b \in Backup |-> IF b \in Prunable THEN "gone" ELSE status[b]]

(* The rows go, their paths are returned; an error ends the tick. *)
Prune(w) ==
  /\ wpc[w] = "prune"
  /\ \/ /\ DeleteExpiredAdminBackups
        /\ wtrash' = [wtrash EXCEPT ![w] = Prunable \cap hasPath]
        /\ wpc' = [wpc EXCEPT ![w] = "unlink"]
     \/ /\ faults
        /\ wpc' = [wpc EXCEPT ![w] = "idle"]
        /\ UNCHANGED <<status, wtrash>>
  /\ UNCHANGED <<hasPath, old, stored, cur, dumpVars, hrow>>

Unlink(w, b) ==
  /\ wpc[w] = "unlink"
  /\ b \in wtrash[w]
  /\ stored' = [stored EXCEPT ![b] = None] \/ (faults /\ UNCHANGED stored)
  /\ wtrash' = [wtrash EXCEPT ![w] = @ \ {b}]
  /\ UNCHANGED <<rowVars, wpc, cur, dumpVars, hrow>>

TickDone(w) ==
  /\ wpc[w] = "unlink"
  /\ wtrash[w] = {}
  /\ wpc' = [wpc EXCEPT ![w] = "idle"]
  /\ UNCHANGED <<rowVars, stored, cur, dumpVars, wtrash, hrow>>

-----------------------------------------------------------------------------
(* handleDownloadAdminBackup                                               *)

(* GetAdminBackup found the row complete; any other status answers 409. *)
MutDownloadRunningToo(h, b) ==
  /\ hrow[h] = None
  /\ status[b] \in {"running", "complete"}
  /\ hrow' = [hrow EXCEPT ![h] = b]
  /\ UNCHANGED <<rowVars, stored, wpc, cur, dumpVars, wtrash>>
DownloadRead(h, b) ==
  /\ hrow[h] = None
  /\ status[b] = "complete"
  /\ hrow' = [hrow EXCEPT ![h] = b]
  /\ UNCHANGED <<rowVars, stored, wpc, cur, dumpVars, wtrash>>

(* serveStorageFile opens the file (its bytes outlive an unlink), or       *)
(* redirects the client to S3; a missing one is an error to the client.    *)
DownloadOpen(h) ==
  /\ hrow[h] # None
  /\ hrow' = [hrow EXCEPT ![h] = None]
  /\ UNCHANGED <<rowVars, stored, wpc, cur, dumpVars, wtrash>>

-----------------------------------------------------------------------------
(* The environment                                                         *)

(* The retention passes since completed_at. *)
Age(b) ==
  /\ status[b] \in {"complete", "failed"}
  /\ old' = old \cup {b}
  /\ UNCHANGED <<status, hasPath, stored, wpc, cur, dumpVars, wtrash, hrow>>

(* The one process dies, its pg_dump children with it. *)
Crash ==
  /\ faults
  /\ wpc' = [w \in Worker |-> "idle"]
  /\ cur' = [w \in Worker |-> None]
  /\ dump' = [w \in Worker |-> "none"]
  /\ pipe' = [w \in Worker |-> "closed"]
  /\ taken' = [w \in Worker |-> 0]
  /\ putErr' = {}
  /\ wtrash' = [w \in Worker |-> {}]
  /\ hrow' = [h \in Handler |-> None]
  /\ UNCHANGED <<rowVars, stored>>

PutStep(w) == PutBegin(w) \/ Copy(w) \/ CopyFails(w) \/ PutEnd(w)

TickStep(w) ==
  \/ Claim(w)
  \/ PutStep(w)
  \/ ClosePipe(w)
  \/ Join(w)
  \/ Complete(w)
  \/ Fail(w)
  \/ Prune(w)
  \/ \E b \in Backup : Unlink(w, b)
  \/ TickDone(w)

(* The store and whether things fail are settled at the start. *)
Next ==
  /\ UNCHANGED fixed
  /\ \/ \E b \in Backup : Trigger(b) \/ Schedule(b) \/ Age(b)
     \/ \E w \in Worker : TickStep(w) \/ DumpDone(w) \/ DumpBreaks(w) \/ DumpDies(w)
     \/ \E h \in Handler : DownloadOpen(h) \/ \E b \in Backup : DownloadRead(h, b)
     \/ Crash

(* River starts a tick every minute and runs it; a pg_dump that is not     *)
(* blocked goes on, and one whose pipe is closed notices.  Nothing has to  *)
(* fail, and nobody has to ask for anything.                               *)
Fairness ==
  /\ \A w \in Worker : /\ WF_vars(TickStep(w) /\ UNCHANGED fixed)
                       /\ WF_vars((DumpDone(w) \/ DumpBreaks(w)) /\ UNCHANGED fixed)
  /\ \A b \in Backup : WF_vars(Age(b) /\ UNCHANGED fixed)

Spec == Init /\ [][Next]_vars
FairSpec == Spec /\ Fairness

-----------------------------------------------------------------------------
(* Properties                                                              *)

(* A complete row has its whole dump in the store: never a truncated one,  *)
(* whichever of pg_dump, the pipe and the store failed, and never one that *)
(* a prune removed.                                                        *)
CompleteIsWhole == \A b \in Backup : status[b] = "complete" => stored[b] = Chunks

(* A download that has read its row finds the whole dump, or none when a   *)
(* prune was faster; never a part of one.                                  *)
ServedIsWhole ==
  \A h \in Handler : hrow[h] # None => stored[hrow[h]] \in {Chunks, None}

\* A file somebody still answers for.
Accounted(b) ==
  \/ status[b] = "complete"
  \/ \E w \in Worker : /\ cur[w] = b
                       /\ wpc[w] \in {"copy", "close", "wait", "complete"}
                       /\ w \notin putErr
  \/ \E w \in Worker : b \in wtrash[w]

(* While nothing but pg_dump and the store's writes fails, no file is left *)
(* behind: it belongs to a complete row, a tick is writing it or about to  *)
(* record it, or a tick is about to delete it.                             *)
NoDumpLeaks ==
  ~faults => \A b \in Backup : stored[b] # None => Accounted(b)

(* Neither side of the pipe waits for the other for ever: every backup     *)
(* that was asked for ends, complete or failed, though pg_dump or the      *)
(* store's writes fail at any point.  Only a crash or a failed query may   *)
(* leave a row running.                                                    *)
BackupEnds ==
  \A b \in Backup :
    ~faults /\ status[b] = "pending" ~> status[b] \notin {"pending", "running"}

(* While no query fails, every dump is removed from the store once its     *)
(* retention has passed.                                                   *)
DumpIsRemoved ==
  \A b \in Backup : ~faults /\ status[b] = "complete" ~> stored[b] = None

\* How the rows and files appear to a client.
PhaseOf(s) ==
  CASE s = "absent"   -> "absent"
    [] s = "pending"  -> "queued"
    [] s = "running"  -> "working"
    [] s = "complete" -> "offered"
    [] OTHER          -> "over"
Abstract == INSTANCE Artifacts WITH
  Job   <- Backup,
  phase <- [b \in Backup |-> PhaseOf(status[b])],
  whole <- {b \in Backup : stored[b] = Chunks}

(* The backups keep the promise of Artifacts: worked on once, offered only *)
(* when stored, whole while offered, never offered again.                  *)
ImplementsArtifacts == Abstract!Spec

-----------------------------------------------------------------------------
(* The inductive invariant behind the safety properties                    *)

(* A tick past its claim holds a running row alone; once Put returned      *)
(* without error, all of the dump is in the store, because the pipe ends   *)
(* regularly only after the last chunk.                                    *)
HoldInv ==
  \A w \in Worker :
    /\ wpc[w] \in {"put", "copy", "close", "wait", "complete", "fail"} <=> cur[w] # None
    /\ wpc[w] \in {"put", "copy", "close", "wait", "complete"} => status[cur[w]] = "running"
    /\ wpc[w] = "fail" => status[cur[w]] \in {"running", "complete", "gone"}
    /\ wpc[w] \in {"put", "copy"} => w \notin putErr
    /\ wpc[w] \in {"close", "wait"} /\ w \notin putErr => stored[cur[w]] = Chunks
    /\ wpc[w] = "complete" => stored[cur[w]] = Chunks
    /\ wpc[w] \notin {"put", "copy", "close"} => pipe[w] = "closed"
    /\ pipe[w] = "eof" => taken[w] = Chunks
    /\ \A x \in Worker : x # w /\ cur[x] # None => cur[x] # cur[w]

(* What is being deleted is no row's any more, and what is being           *)
(* downloaded is written by nobody.                                        *)
FileInv ==
  /\ \A w \in Worker : \A b \in wtrash[w] : status[b] = "gone"
  /\ \A h \in Handler : hrow[h] # None =>
       status[hrow[h]] \in {"complete", "failed", "gone"}

(* The conjunction that every step preserves.                              *)
IInv == TypeOK /\ HoldInv /\ FileInv /\ CompleteIsWhole /\ ServedIsWhole

(* Preserved with IInv.  A prune lists the path of every row it deletes,   *)
(* and lists none while the last ones are not deleted.  A Put that         *)
(* succeeded read to the end, so its pg_dump succeeded too and the tick    *)
(* goes on to complete the row.  Without faults a row given up is still    *)
(* running.                                                                *)
LeakInv ==
  /\ \A b \in Backup : status[b] = "complete" => b \in hasPath
  /\ \A w \in Worker :
       /\ wpc[w] # "unlink" => wtrash[w] = {}
       /\ pipe[w] = "eof" => dump[w] = "done"
       /\ wpc[w] \in {"close", "wait"} /\ w \notin putErr => dump[w] = "done"
       /\ ~faults /\ wpc[w] = "fail" => status[cur[w]] = "running"
  /\ NoDumpLeaks

=============================================================================
