------------------------------ MODULE Exports ------------------------------
(***************************************************************************)
(* The user data export pipeline: the rows of user_exports, the archives   *)
(* in the local export store, the River ticks that claim, build, store and *)
(* prune them, the HTTP handlers that trigger and download them, and the   *)
(* account anonymization that removes them.                                *)
(*                                                                         *)
(* Every SQL statement is one action (the queries run outside a            *)
(* transaction, each autocommitted), and so is every call of the store;    *)
(* between two of them any other actor may run.  Anonymization is the one  *)
(* transaction: its DELETE locks the rows, which disappear on commit.      *)
(*                                                                         *)
(* An archive's key is tmp/exports/<user>/<row id>, so the archive of a    *)
(* row is identified by the row.                                           *)
(*                                                                         *)
(* An operator Mut... is the definition below it with a plausible mistake. *)
(* No action uses it; putting it in place shows that a property notices.   *)
(***************************************************************************)
EXTENDS FiniteSets, Integers

CONSTANTS
  User,        \* accounts
  Export,      \* ids of user_exports rows; bounds how many are ever created
  Worker,      \* River jobs running userExportDispatchWorker.Work
  Handler,     \* goroutines serving an export request
  ClaimLimit,  \* LIMIT of ClaimPendingUserExports (5 in the code)
  Faults,      \* TRUE: the process may crash, a tick may run out of time,
               \* a database or store call may fail
  None         \* no export, no user

ASSUME ExportsAssumption ==
  /\ None \notin Export \cup User
  /\ ClaimLimit \in Nat \ {0}
  /\ Faults \in BOOLEAN
  /\ IsFiniteSet(Export)

VARIABLES
  status,    \* user_exports.status, "absent" before the INSERT, "gone" after the DELETE
  owner,     \* user_exports.user_id
  hasPath,   \* rows whose file_path is not NULL
  ttl,       \* rows whose expires_at has passed
  blob,      \* the archive under the row's key: none, partial or whole
  deleted,   \* users whose deleted_at is set
  wpc,       \* where a tick stands
  todo,      \* the claimed rows a tick has not started on
  cur,       \* the row a tick is processing
  wtrash,    \* paths pruneExpiredExports has still to delete
  hpc,       \* where a request stands
  huser,     \* the user a trigger request serves
  hexp,      \* the row a download request serves
  apc,       \* where the anonymization of a user stands
  paths,     \* the file paths that anonymization listed
  locked,    \* the rows its uncommitted DELETE holds
  streamed   \* history: rows whose archive was written to a client without error

rowVars     == <<status, owner, hasPath, ttl>>
workerVars  == <<wpc, todo, cur, wtrash>>
handlerVars == <<hpc, huser, hexp>>
anonVars    == <<apc, paths, locked, deleted>>
vars == <<rowVars, blob, workerVars, handlerVars, anonVars, streamed>>

Statuses == {"absent", "pending", "running", "complete", "failed",
             "expired", "gone"}

(* The whole state is well formed. *)
TypeOK ==
  /\ status \in [Export -> Statuses]
  /\ owner \in [Export -> User \cup {None}]
  /\ hasPath \subseteq Export
  /\ ttl \subseteq Export
  /\ blob \in [Export -> {"none", "partial", "whole"}]
  /\ deleted \subseteq User
  /\ wpc \in [Worker -> {"idle", "work", "put", "putting", "complete",
                         "fail", "unlink"}]
  /\ todo \in [Worker -> SUBSET Export]
  /\ cur \in [Worker -> Export \cup {None}]
  /\ wtrash \in [Worker -> SUBSET Export]
  /\ hpc \in [Handler -> {"idle", "create", "open", "stream", "retire",
                          "unlink"}]
  /\ huser \in [Handler -> User \cup {None}]
  /\ hexp \in [Handler -> Export \cup {None}]
  /\ apc \in [User -> {"idle", "delete", "commit", "unlink"}]
  /\ paths \in [User -> SUBSET Export]
  /\ locked \in [User -> SUBSET Export]
  /\ streamed \subseteq Export

Init ==
  /\ status = [e \in Export |-> "absent"]
  /\ owner = [e \in Export |-> None]
  /\ hasPath = {}
  /\ ttl = {}
  /\ blob = [e \in Export |-> "none"]
  /\ deleted = {}
  /\ wpc = [w \in Worker |-> "idle"]
  /\ todo = [w \in Worker |-> {}]
  /\ cur = [w \in Worker |-> None]
  /\ wtrash = [w \in Worker |-> {}]
  /\ hpc = [h \in Handler |-> "idle"]
  /\ huser = [h \in Handler |-> None]
  /\ hexp = [h \in Handler |-> None]
  /\ apc = [u \in User |-> "idle"]
  /\ paths = [u \in User |-> {}]
  /\ locked = [u \in User |-> {}]
  /\ streamed = {}

-----------------------------------------------------------------------------
(* Rows                                                                    *)

(* A row whose lock an uncommitted DELETE holds: an UPDATE of it waits. *)
Locked(e) == \E u \in User : e \in locked[u]

(* WHERE user_id = $1: what DeleteUserExportsForUser deletes *)
RowsOf(u) == {e \in Export : owner[e] = u /\ status[e] \notin {"absent", "gone"}}

(* Of these, file_path IS NOT NULL. *)
ListUserExportFilePathsForUser(u) == RowsOf(u) \cap hasPath

CreateUserExport(e, u) ==
  /\ status[e] = "absent"
  /\ status' = [status EXCEPT ![e] = "pending"]
  /\ owner' = [owner EXCEPT ![e] = u]

(* GetPendingUserExport: the user has a row that is pending or running. *)
MutHasActivePendingOnly(u) == \E e \in RowsOf(u) : status[e] = "pending"
HasActive(u) == \E e \in RowsOf(u) : status[e] \in {"pending", "running"}

(* SELECT ... WHERE status = 'pending' ... FOR UPDATE SKIP LOCKED *)
MutClaimRunningToo == {e \in Export : status[e] \in {"pending", "running"} /\ ~Locked(e)}
Claimable == {e \in Export : status[e] = "pending" /\ ~Locked(e)}

(* The rows go to running in the statement that returns them.  Which       *)
(* ClaimLimit of them (ORDER BY created_at) is left open.                  *)
ClaimPendingUserExports(S) ==
  /\ IF Cardinality(Claimable) <= ClaimLimit
     THEN S = Claimable
     ELSE Cardinality(S) = ClaimLimit
  /\ status' = [e \in Export |-> IF e \in S THEN "running" ELSE status[e]]

(* WHERE id = $1, whatever the status is *)
FailUserExport(e) == status' = [status EXCEPT ![e] = "failed"]

(* WHERE id = $1 AND user_id = $2 AND status = 'complete' *)
MutRetireAnyRow(e) == status[e] \notin {"absent", "gone"}
Retirable(e) == status[e] = "complete"
ExpireUserExportByID(e) ==
  /\ Retirable(e)
  /\ status' = [status EXCEPT ![e] = "expired"]

(* WHERE expires_at < now() AND status = 'complete' *)
MutPruneOnlyDownloaded == {e \in Export : status[e] = "complete" /\ e \in ttl \cap streamed}
Prunable == {e \in Export : status[e] = "complete" /\ e \in ttl}
ExpireUserExports ==
  /\ \A e \in Prunable : ~Locked(e)
  /\ status' = [e \in Export |-> IF e \in Prunable THEN "expired" ELSE status[e]]

-----------------------------------------------------------------------------
(* handleTriggerExport                                                     *)

(* The session middleware loaded a live user, and the check found no       *)
(* active export.  Finding one answers 409 and changes nothing.            *)
TriggerCheck(h, u) ==
  /\ hpc[h] = "idle"
  /\ u \notin deleted
  /\ ~HasActive(u)
  /\ hpc' = [hpc EXCEPT ![h] = "create"]
  /\ huser' = [huser EXCEPT ![h] = u]
  /\ UNCHANGED <<rowVars, blob, workerVars, hexp, anonVars, streamed>>

(* CreateUserExport, without looking again. *)
TriggerCreate(h) ==
  /\ hpc[h] = "create"
  /\ \E e \in Export : CreateUserExport(e, huser[h])
  /\ hpc' = [hpc EXCEPT ![h] = "idle"]
  /\ huser' = [huser EXCEPT ![h] = None]
  /\ UNCHANGED <<hasPath, ttl, blob, workerVars, hexp, anonVars, streamed>>

-----------------------------------------------------------------------------
(* userExportDispatchWorker.Work                                           *)

Claim(w) ==
  /\ wpc[w] = "idle"
  /\ \E S \in SUBSET Claimable :
       /\ ClaimPendingUserExports(S)
       /\ todo' = [todo EXCEPT ![w] = S]
  /\ wpc' = [wpc EXCEPT ![w] = "work"]
  /\ UNCHANGED <<owner, hasPath, ttl, blob, cur, wtrash, handlerVars,
                 anonVars, streamed>>

(* The next claimed row: buildArchive writes the temporary file, or fails, *)
(* as it does when GetUserByID finds the user deleted.                     *)
MutBuildErrorSkipsFail(w, e) ==
  /\ wpc[w] = "work"
  /\ e \in todo[w]
  /\ todo' = [todo EXCEPT ![w] = @ \ {e}]
  /\ \/ /\ owner[e] \notin deleted
        /\ wpc' = [wpc EXCEPT ![w] = "put"]
        /\ cur' = [cur EXCEPT ![w] = e]
     \/ UNCHANGED <<wpc, cur>>
  /\ UNCHANGED <<rowVars, blob, wtrash, handlerVars, anonVars, streamed>>
Build(w, e) ==
  /\ wpc[w] = "work"
  /\ e \in todo[w]
  /\ todo' = [todo EXCEPT ![w] = @ \ {e}]
  /\ cur' = [cur EXCEPT ![w] = e]
  /\ \/ /\ owner[e] \notin deleted
        /\ wpc' = [wpc EXCEPT ![w] = "put"]
     \/ wpc' = [wpc EXCEPT ![w] = "fail"]
  /\ UNCHANGED <<rowVars, blob, wtrash, handlerVars, anonVars, streamed>>

(* localStore.Put creates the file before it copies the bytes. *)
PutBegin(w) ==
  /\ wpc[w] = "put"
  /\ blob' = [blob EXCEPT ![cur[w]] = "partial"]
  /\ wpc' = [wpc EXCEPT ![w] = "putting"]
  /\ UNCHANGED <<rowVars, todo, cur, wtrash, handlerVars, anonVars, streamed>>

(* The copy ends, or fails and the file is removed. *)
MutPutErrorIgnored(w) ==
  /\ wpc[w] = "putting"
  /\ \/ blob' = [blob EXCEPT ![cur[w]] = "whole"]
     \/ blob' = [blob EXCEPT ![cur[w]] = "none"]
  /\ wpc' = [wpc EXCEPT ![w] = "complete"]
  /\ UNCHANGED <<rowVars, todo, cur, wtrash, handlerVars, anonVars, streamed>>
PutEnd(w) ==
  /\ wpc[w] = "putting"
  /\ \/ /\ blob' = [blob EXCEPT ![cur[w]] = "whole"]
        /\ wpc' = [wpc EXCEPT ![w] = "complete"]
     \/ /\ blob' = [blob EXCEPT ![cur[w]] = "none"]
        /\ wpc' = [wpc EXCEPT ![w] = "fail"]
  /\ UNCHANGED <<rowVars, todo, cur, wtrash, handlerVars, anonVars, streamed>>

(* CompleteUserExport (WHERE id = $1 only).  No row, or an error, goes to  *)
(* FailUserExport; a reply lost after the commit does so too, with the row *)
(* complete.                                                               *)
CompleteRow(w) ==
  /\ status' = [status EXCEPT ![cur[w]] = "complete"]
  /\ hasPath' = hasPath \cup {cur[w]}
  /\ ttl' = ttl \ {cur[w]}
  /\ UNCHANGED owner

Complete(w) ==
  /\ wpc[w] = "complete"
  /\ ~Locked(cur[w])
  /\ \/ /\ status[cur[w]] # "gone"
        /\ CompleteRow(w)
        /\ wpc' = [wpc EXCEPT ![w] = "work"]
        /\ cur' = [cur EXCEPT ![w] = None]
     \/ /\ status[cur[w]] # "gone"
        /\ Faults
        /\ CompleteRow(w)
        /\ wpc' = [wpc EXCEPT ![w] = "fail"]
        /\ UNCHANGED cur
     \/ /\ status[cur[w]] = "gone" \/ Faults
        /\ wpc' = [wpc EXCEPT ![w] = "fail"]
        /\ UNCHANGED <<rowVars, cur>>
  /\ UNCHANGED <<blob, todo, wtrash, handlerVars, anonVars, streamed>>

(* FailUserExport (WHERE id = $1 only); its own error is discarded. *)
MutFailRequeues(w) ==
  /\ wpc[w] = "fail"
  /\ ~Locked(cur[w])
  /\ status' = IF status[cur[w]] = "gone" THEN status
               ELSE [status EXCEPT ![cur[w]] = "pending"]
  /\ wpc' = [wpc EXCEPT ![w] = "work"]
  /\ cur' = [cur EXCEPT ![w] = None]
  /\ UNCHANGED <<owner, hasPath, ttl, blob, todo, wtrash, handlerVars,
                 anonVars, streamed>>
Fail(w) ==
  /\ wpc[w] = "fail"
  /\ ~Locked(cur[w])
  /\ \/ /\ status[cur[w]] # "gone"
        /\ FailUserExport(cur[w])
     \/ /\ status[cur[w]] = "gone" \/ Faults
        /\ UNCHANGED status
  /\ wpc' = [wpc EXCEPT ![w] = "work"]
  /\ cur' = [cur EXCEPT ![w] = None]
  /\ UNCHANGED <<owner, hasPath, ttl, blob, todo, wtrash, handlerVars,
                 anonVars, streamed>>

(* pruneExpiredExports: ExpireUserExports flips every complete row past    *)
(* its expires_at and returns the paths; an error ends the tick.           *)
MutPruneKeepsFiles(w) ==
  /\ wpc[w] = "work"
  /\ todo[w] = {}
  /\ ExpireUserExports
  /\ wpc' = [wpc EXCEPT ![w] = "idle"]
  /\ UNCHANGED <<owner, hasPath, ttl, blob, todo, cur, wtrash, handlerVars,
                 anonVars, streamed>>
Prune(w) ==
  /\ wpc[w] = "work"
  /\ todo[w] = {}
  /\ \/ /\ ExpireUserExports
        /\ wtrash' = [wtrash EXCEPT ![w] = Prunable \cap hasPath]
        /\ wpc' = [wpc EXCEPT ![w] = "unlink"]
     \/ /\ Faults
        /\ wpc' = [wpc EXCEPT ![w] = "idle"]
        /\ UNCHANGED <<status, wtrash>>
  /\ UNCHANGED <<owner, hasPath, ttl, blob, todo, cur, handlerVars, anonVars,
                 streamed>>

(* A store Delete, which may fail and is then only logged. *)
Remove(e) ==
  \/ blob' = [blob EXCEPT ![e] = "none"]
  \/ Faults /\ UNCHANGED blob

PruneUnlink(w, e) ==
  /\ wpc[w] = "unlink"
  /\ e \in wtrash[w]
  /\ Remove(e)
  /\ wtrash' = [wtrash EXCEPT ![w] = @ \ {e}]
  /\ UNCHANGED <<rowVars, wpc, todo, cur, handlerVars, anonVars, streamed>>

TickDone(w) ==
  /\ wpc[w] = "unlink"
  /\ wtrash[w] = {}
  /\ wpc' = [wpc EXCEPT ![w] = "idle"]
  /\ UNCHANGED <<rowVars, blob, todo, cur, wtrash, handlerVars, anonVars,
                 streamed>>

(* River cancels the tick's context when the job runs out of time or the   *)
(* server stops.  Every later query of the tick fails, FailUserExport      *)
(* included, so the rows it claimed stay as they are; the local store      *)
(* ignores the context, so deletions already listed still happen.          *)
Timeout(w) ==
  /\ Faults
  /\ wpc[w] \in {"work", "put", "complete", "fail"}
  /\ wpc' = [wpc EXCEPT ![w] = "idle"]
  /\ todo' = [todo EXCEPT ![w] = {}]
  /\ cur' = [cur EXCEPT ![w] = None]
  /\ UNCHANGED <<rowVars, blob, wtrash, handlerVars, anonVars, streamed>>

-----------------------------------------------------------------------------
(* handleDownloadExport                                                    *)

(* GetUserExport found the row complete; any other status answers 409. *)
DownloadRead(h, e) ==
  /\ hpc[h] = "idle"
  /\ status[e] = "complete"
  /\ owner[e] \notin deleted
  /\ hpc' = [hpc EXCEPT ![h] = "open"]
  /\ hexp' = [hexp EXCEPT ![h] = e]
  /\ UNCHANGED <<rowVars, blob, workerVars, huser, anonVars, streamed>>

(* exportStore.Get opens the file, whose bytes then outlive an unlink; a   *)
(* missing file answers 500.                                               *)
DownloadOpen(h) ==
  /\ hpc[h] = "open"
  /\ \/ /\ blob[hexp[h]] # "none"
        /\ hpc' = [hpc EXCEPT ![h] = "stream"]
        /\ UNCHANGED hexp
     \/ /\ blob[hexp[h]] = "none" \/ Faults
        /\ hpc' = [hpc EXCEPT ![h] = "idle"]
        /\ hexp' = [hexp EXCEPT ![h] = None]
  /\ UNCHANGED <<rowVars, blob, workerVars, huser, anonVars, streamed>>

(* io.Copy writes it all to the client, or fails and the row is left for a *)
(* retry.                                                                  *)
MutStreamAlwaysRetires(h) ==
  /\ hpc[h] = "stream"
  /\ \/ streamed' = streamed \cup {hexp[h]}
     \/ UNCHANGED streamed
  /\ hpc' = [hpc EXCEPT ![h] = "retire"]
  /\ UNCHANGED <<rowVars, blob, workerVars, huser, hexp, anonVars>>
DownloadStream(h) ==
  /\ hpc[h] = "stream"
  /\ \/ /\ streamed' = streamed \cup {hexp[h]}
        /\ hpc' = [hpc EXCEPT ![h] = "retire"]
        /\ UNCHANGED hexp
     \/ /\ hpc' = [hpc EXCEPT ![h] = "idle"]
        /\ hexp' = [hexp EXCEPT ![h] = None]
        /\ UNCHANGED streamed
  /\ UNCHANGED <<rowVars, blob, workerVars, huser, anonVars>>

(* ExpireUserExportByID: the winner goes on to delete the file; a loser    *)
(* (no row returned) or an error ends the request.                         *)
MutRetireToUnknownStatus(h) ==
  /\ hpc[h] = "retire"
  /\ ~Locked(hexp[h])
  /\ Retirable(hexp[h])
  /\ status' = [status EXCEPT ![hexp[h]] = "downloaded"]
  /\ hpc' = [hpc EXCEPT ![h] = "unlink"]
  /\ UNCHANGED <<owner, hasPath, ttl, blob, workerVars, huser, hexp, anonVars,
                 streamed>>
DownloadRetire(h) ==
  /\ hpc[h] = "retire"
  /\ ~Locked(hexp[h])
  /\ \/ /\ ExpireUserExportByID(hexp[h])
        /\ hpc' = [hpc EXCEPT ![h] = "unlink"]
        /\ UNCHANGED hexp
     \/ /\ ~Retirable(hexp[h]) \/ Faults
        /\ hpc' = [hpc EXCEPT ![h] = "idle"]
        /\ hexp' = [hexp EXCEPT ![h] = None]
        /\ UNCHANGED status
  /\ UNCHANGED <<owner, hasPath, ttl, blob, workerVars, huser, anonVars,
                 streamed>>

DownloadUnlink(h) ==
  /\ hpc[h] = "unlink"
  /\ Remove(hexp[h])
  /\ hpc' = [hpc EXCEPT ![h] = "idle"]
  /\ hexp' = [hexp EXCEPT ![h] = None]
  /\ UNCHANGED <<rowVars, workerVars, huser, anonVars, streamed>>

(* The client goes away, or a query of the request fails: it ends with no  *)
(* further effect.                                                         *)
RequestAbort(h) ==
  /\ Faults
  /\ hpc[h] = "create"
  /\ hpc' = [hpc EXCEPT ![h] = "idle"]
  /\ huser' = [huser EXCEPT ![h] = None]
  /\ UNCHANGED <<rowVars, blob, workerVars, hexp, anonVars, streamed>>

-----------------------------------------------------------------------------
(* account.Anonymize, run by handleDeleteAccount and reprocess-deletions.  *)
(* One run per user at a time; it may run again.                           *)

AnonList(u) ==
  /\ apc[u] = "idle"
  /\ apc' = [apc EXCEPT ![u] = "delete"]
  /\ paths' = [paths EXCEPT ![u] = ListUserExportFilePathsForUser(u)]
  /\ UNCHANGED <<rowVars, blob, workerVars, handlerVars, locked, deleted,
                 streamed>>

(* DeleteUserExportsForUser sees the rows committed by now. *)
AnonDelete(u) ==
  /\ apc[u] = "delete"
  /\ apc' = [apc EXCEPT ![u] = "commit"]
  /\ locked' = [locked EXCEPT ![u] = RowsOf(u)]
  /\ UNCHANGED <<rowVars, blob, workerVars, handlerVars, paths, deleted,
                 streamed>>

AnonCommit(u) ==
  /\ apc[u] = "commit"
  /\ apc' = [apc EXCEPT ![u] = "unlink"]
  /\ status' = [e \in Export |-> IF e \in locked[u] THEN "gone" ELSE status[e]]
  /\ locked' = [locked EXCEPT ![u] = {}]
  /\ deleted' = deleted \cup {u}
  /\ UNCHANGED <<owner, hasPath, ttl, blob, workerVars, handlerVars, paths,
                 streamed>>

(* A statement of the transaction fails: it rolls back. *)
AnonAbort(u) ==
  /\ Faults
  /\ apc[u] \in {"delete", "commit"}
  /\ apc' = [apc EXCEPT ![u] = "idle"]
  /\ paths' = [paths EXCEPT ![u] = {}]
  /\ locked' = [locked EXCEPT ![u] = {}]
  /\ UNCHANGED <<rowVars, blob, workerVars, handlerVars, deleted, streamed>>

AnonUnlink(u, e) ==
  /\ apc[u] = "unlink"
  /\ e \in paths[u]
  /\ Remove(e)
  /\ paths' = [paths EXCEPT ![u] = @ \ {e}]
  /\ UNCHANGED <<rowVars, workerVars, handlerVars, apc, locked, deleted,
                 streamed>>

AnonDone(u) ==
  /\ apc[u] = "unlink"
  /\ paths[u] = {}
  /\ apc' = [apc EXCEPT ![u] = "idle"]
  /\ UNCHANGED <<rowVars, blob, workerVars, handlerVars, paths, locked,
                 deleted, streamed>>

-----------------------------------------------------------------------------
(* The environment                                                         *)

(* An hour passes since CompleteUserExport. *)
TtlElapses(e) ==
  /\ status[e] = "complete"
  /\ ttl' = ttl \cup {e}
  /\ UNCHANGED <<status, owner, hasPath, blob, workerVars, handlerVars,
                 anonVars, streamed>>

(* The one process dies: ticks, requests and open transactions with it. *)
Crash ==
  /\ Faults
  /\ wpc' = [w \in Worker |-> "idle"]
  /\ todo' = [w \in Worker |-> {}]
  /\ cur' = [w \in Worker |-> None]
  /\ wtrash' = [w \in Worker |-> {}]
  /\ hpc' = [h \in Handler |-> "idle"]
  /\ huser' = [h \in Handler |-> None]
  /\ hexp' = [h \in Handler |-> None]
  /\ apc' = [u \in User |-> "idle"]
  /\ paths' = [u \in User |-> {}]
  /\ locked' = [u \in User |-> {}]
  /\ UNCHANGED <<rowVars, blob, deleted, streamed>>

TickStep(w) ==
  \/ Claim(w)
  \/ \E e \in Export : Build(w, e)
  \/ PutBegin(w)
  \/ PutEnd(w)
  \/ Complete(w)
  \/ Fail(w)
  \/ Prune(w)
  \/ \E e \in Export : PruneUnlink(w, e)
  \/ TickDone(w)

RequestStep(h) ==
  \/ TriggerCreate(h)
  \/ DownloadOpen(h)
  \/ DownloadStream(h)
  \/ DownloadRetire(h)
  \/ DownloadUnlink(h)

AnonStep(u) ==
  \/ AnonDelete(u)
  \/ AnonCommit(u)
  \/ \E e \in Export : AnonUnlink(u, e)
  \/ AnonDone(u)

Next ==
  \/ \E w \in Worker : TickStep(w) \/ Timeout(w)
  \/ \E h \in Handler : \/ RequestStep(h)
                        \/ RequestAbort(h)
                        \/ \E u \in User : TriggerCheck(h, u)
                        \/ \E e \in Export : DownloadRead(h, e)
  \/ \E u \in User : AnonStep(u) \/ AnonList(u) \/ AnonAbort(u)
  \/ \E e \in Export : TtlElapses(e)
  \/ Crash

(* River starts a tick every minute and runs it; a started request or      *)
(* anonymization runs on; time passes.  Nobody has to send a request.      *)
Fairness ==
  /\ \A w \in Worker : WF_vars(TickStep(w))
  /\ \A h \in Handler : WF_vars(RequestStep(h))
  /\ \A u \in User : WF_vars(AnonStep(u))
  /\ \A e \in Export : WF_vars(TtlElapses(e))

Spec == Init /\ [][Next]_vars
FairSpec == Spec /\ Fairness

-----------------------------------------------------------------------------
(* Properties                                                              *)

\* The rows a tick has claimed and not finished with.
Held(w) == todo[w] \cup ({cur[w]} \ {None})

(* Two ticks never work on the same export: the claiming UPDATE with SKIP  *)
(* LOCKED hands each pending row to one tick, so no archive is written by  *)
(* two builders at once and no row is completed twice.                     *)
ClaimedByOne ==
  \A w1, w2 \in Worker : w1 # w2 => Held(w1) \cap Held(w2) = {}

(* A complete row always has its whole archive in the store, whatever      *)
(* crashes, failed calls, racing downloads, prunes and anonymizations      *)
(* happen: Put precedes CompleteUserExport, and the row is flipped or      *)
(* deleted before the file is.                                             *)
CompleteHasArchive ==
  \A e \in Export : status[e] = "complete" => blob[e] = "whole"

(* An export is retired only after all of it was written to a client, or   *)
(* its TTL passed: a download that breaks off leaves it for a retry.       *)
RetiredOnlyAfterUse ==
  \A e \in Export : status[e] = "expired" => e \in streamed \cup ttl

\* The request has flipped the row of e and is about to delete its archive.
Unlinking(h, e) == hpc[h] = "unlink" /\ hexp[h] = e

(* Of all downloads and prunes that race to retire an export one wins the  *)
(* flip and performs the delete.                                           *)
OneUnlinker ==
  \A e \in Export :
    /\ \A w1, w2 \in Worker : e \in wtrash[w1] \cap wtrash[w2] => w1 = w2
    /\ \A h1, h2 \in Handler : Unlinking(h1, e) /\ Unlinking(h2, e) => h1 = h2
    /\ \A w \in Worker, h \in Handler : ~(e \in wtrash[w] /\ Unlinking(h, e))

(* A row never returns to an earlier state: an export that was retired,    *)
(* failed or removed is never offered or worked on again.                  *)
Rank == [absent |-> 0, pending |-> 1, running |-> 2, complete |-> 3,
         expired |-> 4, failed |-> 5, gone |-> 6]
NeverGoesBack ==
  [][\A e \in Export : Rank[status[e]] <= Rank[status'[e]]]_vars

\* An archive somebody still answers for.
Accounted(e) ==
  \/ status[e] = "complete"
  \/ \E w \in Worker : cur[w] = e /\ wpc[w] \in {"putting", "complete"}
  \/ \E w \in Worker : e \in wtrash[w]
  \/ \E h \in Handler : Unlinking(h, e)

(* While nothing fails and no account is deleted, no archive is left       *)
(* behind: it belongs to a complete row, or a tick is still writing it, or *)
(* somebody is about to delete it.                                         *)
NoArchiveLeaks ==
  (~Faults /\ deleted = {}) =>
     \A e \in Export : blob[e] # "none" => Accounted(e)

\* Requests never overlap: one goroutine serves them all.
Serial == \A g, h \in Handler : g = h

\* The exports HasActive looks for.
InFlight(u) == {e \in RowsOf(u) : status[e] \in {"pending", "running"}}

(* "one in-flight per user" (docs/design-reference.md): while requests do  *)
(* not overlap, no user has two exports that are pending or running.  Two  *)
(* that do overlap may both pass TriggerCheck.                             *)
OneInFlightPerUser ==
  Serial => \A u \in User : Cardinality(InFlight(u)) <= 1

(* While nothing fails, every export that was asked for reaches an end:    *)
(* the user's next request is not blocked for good.                        *)
RequestedEnds ==
  \A e \in Export :
    status[e] = "pending" ~> status[e] \notin {"pending", "running"}

(* While nothing fails, an archive nobody downloads is removed from the    *)
(* store once its TTL has passed, unless the account goes first.           *)
ArchiveIsRemoved ==
  \A e \in Export : status[e] = "complete" ~> (blob[e] = "none" \/ status[e] = "gone")

\* How the rows and archives appear to a client.
PhaseOf(s) ==
  CASE s = "absent"   -> "absent"
    [] s = "pending"  -> "queued"
    [] s = "running"  -> "working"
    [] s = "complete" -> "offered"
    [] OTHER          -> "over"
Abstract == INSTANCE Artifacts WITH
  Job   <- Export,
  phase <- [e \in Export |-> PhaseOf(status[e])],
  whole <- {e \in Export : blob[e] = "whole"}

(* The exports keep the promise of Artifacts: built once, offered only     *)
(* when stored, whole while offered, never offered again.                  *)
ImplementsArtifacts == Abstract!Spec

-----------------------------------------------------------------------------
(* The inductive invariant behind the safety properties                    *)

(* A row somebody processes has been claimed, and the tick that is about   *)
(* to complete it has written the whole archive.                           *)
HoldInv ==
  \A w \in Worker :
    /\ \A e \in todo[w] : status[e] \in {"running", "gone"}
    /\ wpc[w] \in {"put", "putting", "complete", "fail"} <=> cur[w] # None
    /\ cur[w] \notin todo[w]
    /\ cur[w] # None => status[cur[w]] \notin {"absent", "pending"}
    /\ wpc[w] \in {"put", "putting", "complete"} =>
         status[cur[w]] \in {"running", "gone"}
    /\ wpc[w] = "complete" =>
         status[cur[w]] = "gone" \/ blob[cur[w]] = "whole"

(* Nobody deletes the archive of a row that is or can become complete.     *)
Dead == {"expired", "failed", "gone"}
TrashInv ==
  /\ \A e \in hasPath : status[e] \in Dead \cup {"complete"}
  /\ \A w \in Worker : \A e \in wtrash[w] : status[e] \in Dead
  /\ \A h \in Handler : hpc[h] = "unlink" => status[hexp[h]] \in Dead
  /\ \A u \in User : \A e \in locked[u] : status[e] # "absent"
  /\ \A u \in User : \A e \in paths[u] :
       /\ e \in hasPath
       /\ owner[e] = u
       /\ apc[u] = "commit" => e \in locked[u] \/ status[e] = "gone"
       /\ apc[u] = "unlink" => status[e] = "gone"

(* A request in the middle of its work serves a user or an export, and it  *)
(* retires only what it streamed.                                          *)
RequestInv ==
  \A h \in Handler :
    /\ hpc[h] = "create" => huser[h] \in User
    /\ hpc[h] \in {"open", "stream", "retire", "unlink"} => hexp[h] \in Export
    /\ hpc[h] = "retire" => hexp[h] \in streamed

(* The conjunction that every step preserves.                              *)
SafeInv ==
  /\ HoldInv
  /\ TrashInv
  /\ RequestInv
  /\ ClaimedByOne
  /\ CompleteHasArchive
  /\ RetiredOnlyAfterUse
  /\ OneUnlinker
IInv == TypeOK /\ SafeInv

(* Preserved with IInv.  A prune lists the path of every row it flips, and *)
(* lists none while the last ones are not deleted.  Without faults and     *)
(* deletions every row a tick gives up is still running, so the tick has   *)
(* left no archive of it.                                                  *)
LeakInv ==
  /\ \A e \in Export : status[e] = "complete" => e \in hasPath
  /\ \A w \in Worker : wpc[w] # "unlink" => wtrash[w] = {}
  /\ (~Faults /\ deleted = {}) =>
       /\ \A e \in Export : status[e] # "gone"
       /\ \A w \in Worker : wpc[w] = "fail" => status[cur[w]] = "running"
  /\ NoArchiveLeaks

(* Preserved with IInv: while requests are serial, a trigger that passed   *)
(* the check still finds nothing in flight when it inserts the row.        *)
InFlightInv ==
  Serial =>
    /\ \A h \in Handler : hpc[h] = "create" => ~HasActive(huser[h])
    /\ \A u \in User : \A e, f \in InFlight(u) : e = f

-----------------------------------------------------------------------------
(* What the documentation says and the code does not do                    *)

(* "Export already in progress", the 409 of a trigger: a running row is    *)
(* in progress in some tick.                                               *)
RunningIsInProgress ==
  \A e \in Export : status[e] = "running" => \E w \in Worker : e \in Held(w)

=============================================================================
