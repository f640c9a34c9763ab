--------------------------- MODULE Exports_proofs ---------------------------
(* Proofs about Exports, for every set of users, exports, ticks and        *)
(* requests, with and without faults.                                      *)
EXTENDS Exports, FiniteSetTheorems, TLAPS

(* The state stays well formed: every variable keeps the type the columns  *)
(* and program counters it models have.                                    *)
LEMMA TypeInit == Init => TypeOK
  BY ExportsAssumption DEF Init, TypeOK, Statuses

(* A tick keeps the state well formed: it works on a row only while cur    *)
(* names one.                                                              *)
LEMMA TypeTick ==
  ASSUME TypeOK, HoldInv, NEW w \in Worker, TickStep(w) \/ Timeout(w)
  PROVE  TypeOK'
<1> USE ExportsAssumption DEF TypeOK, Statuses, rowVars, handlerVars, anonVars
<1>1. CASE Claim(w)
  BY <1>1 DEF Claim, ClaimPendingUserExports, Claimable
<1>2. ASSUME NEW e \in Export, Build(w, e) PROVE TypeOK'
  BY <1>2 DEF Build
<1>3. CASE PutBegin(w)
  BY <1>3 DEF PutBegin, HoldInv
<1>4. CASE PutEnd(w)
  BY <1>4 DEF PutEnd, HoldInv
<1>5. CASE Complete(w)
  BY <1>5 DEF Complete, CompleteRow, HoldInv
<1>6. CASE Fail(w)
  BY <1>6 DEF Fail, FailUserExport, HoldInv
<1>7. CASE Prune(w)
  BY <1>7 DEF Prune, ExpireUserExports, Prunable
<1>8. ASSUME NEW e \in Export, PruneUnlink(w, e) PROVE TypeOK'
  BY <1>8 DEF PruneUnlink, Remove
<1>9. CASE TickDone(w)
  BY <1>9 DEF TickDone
<1>10. CASE Timeout(w)
  BY <1>10 DEF Timeout
<1> QED
  BY <1>1, <1>2, <1>3, <1>4, <1>5, <1>6, <1>7, <1>8, <1>9, <1>10 DEF TickStep

(* So does a request, which streams and retires only the row it read.      *)
LEMMA TypeRequest ==
  ASSUME TypeOK, RequestInv, NEW h \in Handler,
         \/ RequestStep(h) \/ RequestAbort(h)
         \/ \E u \in User : TriggerCheck(h, u)
         \/ \E e \in Export : DownloadRead(h, e)
  PROVE  TypeOK'
<1> USE ExportsAssumption DEF TypeOK, Statuses, rowVars, workerVars, anonVars
<1>1. CASE TriggerCreate(h)
  BY <1>1 DEF TriggerCreate, CreateUserExport
<1>2. CASE DownloadOpen(h)
  BY <1>2 DEF DownloadOpen
<1>3. CASE DownloadStream(h)
  BY <1>3 DEF DownloadStream, RequestInv
<1>4. CASE DownloadRetire(h)
  BY <1>4 DEF DownloadRetire, ExpireUserExportByID
<1>5. CASE DownloadUnlink(h)
  BY <1>5 DEF DownloadUnlink, Remove
<1>6. CASE RequestAbort(h)
  BY <1>6 DEF RequestAbort
<1>7. ASSUME NEW u \in User, TriggerCheck(h, u) PROVE TypeOK'
  BY <1>7 DEF TriggerCheck
<1>8. ASSUME NEW e \in Export, DownloadRead(h, e) PROVE TypeOK'
  BY <1>8 DEF DownloadRead
<1> QED
  BY <1>1, <1>2, <1>3, <1>4, <1>5, <1>6, <1>7, <1>8 DEF RequestStep

(* So does an anonymization.                                               *)
LEMMA TypeAnon ==
  ASSUME TypeOK, NEW u \in User, AnonStep(u) \/ AnonList(u) \/ AnonAbort(u)
  PROVE  TypeOK'
<1> USE DEF TypeOK, Statuses, rowVars, workerVars, handlerVars
<1>1. CASE AnonList(u)
  BY <1>1 DEF AnonList, ListUserExportFilePathsForUser, RowsOf
<1>2. CASE AnonDelete(u)
  BY <1>2 DEF AnonDelete, RowsOf
<1>3. CASE AnonCommit(u)
  BY <1>3 DEF AnonCommit
<1>4. CASE AnonAbort(u)
  BY <1>4 DEF AnonAbort
<1>5. ASSUME NEW e \in Export, AnonUnlink(u, e) PROVE TypeOK'
  BY <1>5 DEF AnonUnlink, Remove
<1>6. CASE AnonDone(u)
  BY <1>6 DEF AnonDone
<1> QED
  BY <1>1, <1>2, <1>3, <1>4, <1>5, <1>6 DEF AnonStep

(* A step of a tick keeps the safety invariants.                           *)
LEMMA TickKeeps ==
  ASSUME IInv, NEW w \in Worker, TickStep(w) \/ Timeout(w)
  PROVE  SafeInv'
<1> USE ExportsAssumption DEF IInv, SafeInv, TypeOK, Statuses, rowVars,
              workerVars, handlerVars, anonVars
<1>1. CASE Claim(w)
  <2>1. HoldInv'
    BY <1>1 DEF Claim, ClaimPendingUserExports, Claimable, HoldInv, ClaimedByOne,
                Held, TrashInv, Dead
  <2>2. TrashInv'
    BY <1>1 DEF Claim, ClaimPendingUserExports, Claimable, TrashInv, Dead,
                HoldInv, RequestInv
  <2>3. ClaimedByOne'
    BY <1>1 DEF Claim, ClaimPendingUserExports, Claimable, ClaimedByOne, Held,
                HoldInv
  <2>4. CompleteHasArchive'
    BY <1>1 DEF Claim, ClaimPendingUserExports, Claimable, CompleteHasArchive,
                HoldInv, TrashInv, Dead
  <2>5. RetiredOnlyAfterUse'
    BY <1>1 DEF Claim, ClaimPendingUserExports, Claimable, RetiredOnlyAfterUse,
                RequestInv, HoldInv
  <2>6. RequestInv' /\ OneUnlinker'
    BY <1>1 DEF Claim, ClaimPendingUserExports, Claimable, RequestInv,
                OneUnlinker, Unlinking
  <2> QED
    BY <2>1, <2>2, <2>3, <2>4, <2>5, <2>6
<1>2. ASSUME NEW e \in Export, Build(w, e) PROVE SafeInv'
  <2>1. HoldInv'
    BY <1>2 DEF Build, HoldInv, ClaimedByOne, Held, TrashInv, Dead
  <2>2. ClaimedByOne'
    BY <1>2 DEF Build, ClaimedByOne, Held, HoldInv
  <2>3. TrashInv' /\ RequestInv' /\ CompleteHasArchive' /\
       RetiredOnlyAfterUse' /\ OneUnlinker'
    BY <1>2 DEF Build, TrashInv, Dead, RequestInv, CompleteHasArchive,
           RetiredOnlyAfterUse, OneUnlinker, Unlinking
  <2> QED
    BY <2>1, <2>2, <2>3
<1>3. CASE PutBegin(w)
  <2>1. HoldInv'
    BY <1>3 DEF PutBegin, HoldInv, ClaimedByOne, Held, TrashInv, Dead
  <2>2. CompleteHasArchive'
    BY <1>3 DEF PutBegin, CompleteHasArchive, HoldInv, TrashInv, Dead
  <2>3. TrashInv' /\ RequestInv'
    BY <1>3 DEF PutBegin, TrashInv, Dead, RequestInv
  <2>4. ClaimedByOne' /\ RetiredOnlyAfterUse' /\ OneUnlinker'
    BY <1>3 DEF PutBegin, ClaimedByOne, Held, RetiredOnlyAfterUse, OneUnlinker,
       Unlinking
  <2> QED
    BY <2>1, <2>2, <2>3, <2>4
<1>4. CASE PutEnd(w)
  <2>1. HoldInv'
    BY <1>4 DEF PutEnd, HoldInv, ClaimedByOne, Held, TrashInv, Dead
  <2>2. CompleteHasArchive'
    BY <1>4 DEF PutEnd, CompleteHasArchive, HoldInv, TrashInv, Dead
  <2>3. TrashInv' /\ RequestInv'
    BY <1>4 DEF PutEnd, TrashInv, Dead, RequestInv
  <2>4. ClaimedByOne' /\ RetiredOnlyAfterUse' /\ OneUnlinker'
    BY <1>4 DEF PutEnd, ClaimedByOne, Held, RetiredOnlyAfterUse, OneUnlinker,
       Unlinking
  <2> QED
    BY <2>1, <2>2, <2>3, <2>4
<1>5. CASE Complete(w)
  <2>1. HoldInv'
    <3>1. cur[w] \in Export /\ cur[w] \notin todo[w]
      BY <1>5 DEF Complete, HoldInv
    <3>2. \A x \in Worker : x # w => cur[w] \notin todo[x] /\ cur[x] # cur[w]
      BY <3>1 DEF ClaimedByOne, Held
    <3> QED
      BY <1>5, <3>1, <3>2 DEF Complete, CompleteRow, HoldInv
  <2>2. TrashInv'
    BY <1>5 DEF Complete, CompleteRow, TrashInv, Dead, HoldInv, RequestInv
  <2>3. ClaimedByOne'
    BY <1>5 DEF Complete, CompleteRow, ClaimedByOne, Held, HoldInv
  <2>4. CompleteHasArchive'
    BY <1>5 DEF Complete, CompleteRow, CompleteHasArchive, HoldInv, TrashInv,
           Dead
  <2>5. RetiredOnlyAfterUse'
    BY <1>5 DEF Complete, CompleteRow, RetiredOnlyAfterUse, RequestInv,
           HoldInv
  <2>6. RequestInv' /\ OneUnlinker'
    BY <1>5 DEF Complete, CompleteRow, RequestInv, OneUnlinker, Unlinking
  <2> QED
    BY <2>1, <2>2, <2>3, <2>4, <2>5, <2>6
<1>6. CASE Fail(w)
  <2>1. HoldInv'
    <3>1. cur[w] \in Export /\ cur[w] \notin todo[w]
      BY <1>6 DEF Fail, FailUserExport, HoldInv
    <3>2. \A x \in Worker : x # w => cur[w] \notin todo[x] /\ cur[x] # cur[w]
      BY <3>1 DEF ClaimedByOne, Held
    <3> QED
      BY <1>6, <3>1, <3>2 DEF Fail, FailUserExport, HoldInv
  <2>2. TrashInv'
    BY <1>6 DEF Fail, FailUserExport, TrashInv, Dead, HoldInv, RequestInv
  <2>3. ClaimedByOne'
    BY <1>6 DEF Fail, FailUserExport, ClaimedByOne, Held, HoldInv
  <2>4. CompleteHasArchive'
    BY <1>6 DEF Fail, FailUserExport, CompleteHasArchive, HoldInv, TrashInv, Dead
  <2>5. RetiredOnlyAfterUse'
    BY <1>6 DEF Fail, FailUserExport, RetiredOnlyAfterUse, RequestInv, HoldInv
  <2>6. RequestInv' /\ OneUnlinker'
    BY <1>6 DEF Fail, FailUserExport, RequestInv, OneUnlinker, Unlinking
  <2> QED
    BY <2>1, <2>2, <2>3, <2>4, <2>5, <2>6
<1>7. CASE Prune(w)
  <2>1. HoldInv'
    BY <1>7 DEF Prune, ExpireUserExports, Prunable, HoldInv, ClaimedByOne, Held,
                TrashInv, Dead
  <2>2. TrashInv'
    BY <1>7 DEF Prune, ExpireUserExports, Prunable, TrashInv, Dead, HoldInv,
                RequestInv
  <2>3. CompleteHasArchive'
    BY <1>7 DEF Prune, ExpireUserExports, Prunable, CompleteHasArchive, HoldInv,
                TrashInv, Dead
  <2>4. RetiredOnlyAfterUse'
    BY <1>7 DEF Prune, ExpireUserExports, Prunable, RetiredOnlyAfterUse,
                RequestInv, HoldInv
  <2>5. OneUnlinker'
    <3>1. /\ \A x \in Handler, e \in Export : Unlinking(x, e) => status[e] \in Dead
          /\ \A x \in Worker : \A e \in wtrash[x] : status[e] \in Dead
      BY DEF TrashInv, Unlinking
    <3>2. \A x \in Worker : \A e \in wtrash'[x] :
             e \in wtrash[x] \/ (x = w /\ status[e] = "complete")
      BY <1>7 DEF Prune, ExpireUserExports, Prunable
    <3>3. \A x \in Handler, e \in Export : Unlinking(x, e)' <=> Unlinking(x, e)
      BY <1>7 DEF Prune, ExpireUserExports, Unlinking
    <3> HIDE DEF TypeOK
    <3> QED
      BY <3>1, <3>2, <3>3 DEF OneUnlinker, Dead
  <2>6. RequestInv' /\ ClaimedByOne'
    BY <1>7 DEF Prune, ExpireUserExports, Prunable, RequestInv, ClaimedByOne, Held
  <2> QED
    BY <2>1, <2>2, <2>3, <2>4, <2>5, <2>6
<1>8. ASSUME NEW e \in Export, PruneUnlink(w, e) PROVE SafeInv'
  <2>1. HoldInv'
    BY <1>8 DEF PruneUnlink, Remove, HoldInv, ClaimedByOne, Held, TrashInv,
           Dead
  <2>2. TrashInv'
    BY <1>8 DEF PruneUnlink, Remove, TrashInv, Dead, HoldInv, RequestInv
  <2>3. CompleteHasArchive'
    BY <1>8 DEF PruneUnlink, Remove, CompleteHasArchive, HoldInv, TrashInv,
           Dead
  <2>4. OneUnlinker'
    BY <1>8 DEF PruneUnlink, Remove, OneUnlinker, Unlinking, TrashInv, Dead,
           RequestInv
  <2>5. RequestInv' /\ ClaimedByOne' /\ RetiredOnlyAfterUse'
    BY <1>8 DEF PruneUnlink, Remove, RequestInv, ClaimedByOne, Held,
           RetiredOnlyAfterUse
  <2> QED
    BY <2>1, <2>2, <2>3, <2>4, <2>5
<1>9. CASE TickDone(w)
  BY <1>9 DEF TickDone, HoldInv, TrashInv, Dead, RequestInv, ClaimedByOne,
         Held, CompleteHasArchive, RetiredOnlyAfterUse, OneUnlinker, Unlinking
<1>10. CASE Timeout(w)
  <2>1. HoldInv'
    BY <1>10 DEF Timeout, HoldInv, ClaimedByOne, Held, TrashInv, Dead
  <2>2. ClaimedByOne'
    BY <1>10 DEF Timeout, ClaimedByOne, Held, HoldInv
  <2>3. TrashInv' /\ RequestInv' /\ CompleteHasArchive' /\
       RetiredOnlyAfterUse' /\ OneUnlinker'
    BY <1>10 DEF Timeout, TrashInv, Dead, RequestInv, CompleteHasArchive,
           RetiredOnlyAfterUse, OneUnlinker, Unlinking
  <2> QED
    BY <2>1, <2>2, <2>3
<1> QED
  BY <1>1, <1>2, <1>3, <1>4, <1>5, <1>6, <1>7, <1>8, <1>9, <1>10 DEF TickStep

(* A step of a request keeps the safety invariants.                        *)
LEMMA RequestKeeps ==
  ASSUME IInv, NEW h \in Handler,
         \/ RequestStep(h) \/ RequestAbort(h)
         \/ \E u \in User : TriggerCheck(h, u)
         \/ \E e \in Export : DownloadRead(h, e)
  PROVE  SafeInv'
<1> USE ExportsAssumption DEF IInv, SafeInv, TypeOK, Statuses, rowVars,
              workerVars, handlerVars, anonVars
<1>1. CASE TriggerCreate(h)
  <2>1. HoldInv'
    BY <1>1 DEF TriggerCreate, CreateUserExport, HoldInv, ClaimedByOne, Held,
                TrashInv, Dead
  <2>2. TrashInv'
    BY <1>1 DEF TriggerCreate, CreateUserExport, TrashInv, Dead, HoldInv,
                RequestInv
  <2>3. RequestInv'
    BY <1>1 DEF TriggerCreate, CreateUserExport, RequestInv
  <2>4. CompleteHasArchive'
    BY <1>1 DEF TriggerCreate, CreateUserExport, CompleteHasArchive, HoldInv,
                TrashInv, Dead
  <2>5. RetiredOnlyAfterUse'
    BY <1>1 DEF TriggerCreate, CreateUserExport, RetiredOnlyAfterUse, RequestInv,
                HoldInv
  <2>6. ClaimedByOne' /\ OneUnlinker'
    BY <1>1 DEF TriggerCreate, CreateUserExport, ClaimedByOne, Held, OneUnlinker,
                Unlinking
  <2> QED
    BY <2>1, <2>2, <2>3, <2>4, <2>5, <2>6
<1>2. CASE DownloadOpen(h)
  <2>1. TrashInv'
    BY <1>2 DEF DownloadOpen, TrashInv, Dead, HoldInv, RequestInv
  <2>2. RequestInv'
    BY <1>2 DEF DownloadOpen, RequestInv
  <2>3. OneUnlinker'
    <3>1. \A x \in Handler, e \in Export : Unlinking(x, e)' => Unlinking(x, e)
      BY <1>2 DEF DownloadOpen, Unlinking
    <3> QED
      BY <1>2, <3>1 DEF DownloadOpen, OneUnlinker
  <2>4. HoldInv' /\ ClaimedByOne' /\ CompleteHasArchive' /\
       RetiredOnlyAfterUse'
    BY <1>2 DEF DownloadOpen, HoldInv, ClaimedByOne, Held, CompleteHasArchive,
           RetiredOnlyAfterUse
  <2> QED
    BY <2>1, <2>2, <2>3, <2>4
<1>3. CASE DownloadStream(h)
  <2>1. TrashInv'
    BY <1>3 DEF DownloadStream, TrashInv, Dead, HoldInv, RequestInv
  <2>2. RequestInv'
    BY <1>3 DEF DownloadStream, RequestInv
  <2>3. RetiredOnlyAfterUse'
    BY <1>3 DEF DownloadStream, RetiredOnlyAfterUse, RequestInv, HoldInv
  <2>4. OneUnlinker'
    <3>1. \A x \in Handler, e \in Export : Unlinking(x, e)' => Unlinking(x, e)
      BY <1>3 DEF DownloadStream, Unlinking
    <3> QED
      BY <1>3, <3>1 DEF DownloadStream, OneUnlinker
  <2>5. HoldInv' /\ ClaimedByOne' /\ CompleteHasArchive'
    BY <1>3 DEF DownloadStream, HoldInv, ClaimedByOne, Held,
           CompleteHasArchive
  <2> QED
    BY <2>1, <2>2, <2>3, <2>4, <2>5
<1>4. CASE DownloadRetire(h)
  <2>1. HoldInv'
    BY <1>4 DEF DownloadRetire, ExpireUserExportByID, Retirable, HoldInv,
                ClaimedByOne, Held,
           TrashInv, Dead
  <2>2. TrashInv'
    <3>1. /\ \A e \in Export :
               \/ status'[e] = status[e]
               \/ status[e] = "complete" /\ status'[e] = "expired"
          /\ \A x \in Handler : hpc'[x] = "unlink" =>
               /\ hexp'[x] = hexp[x] /\ hexp[x] \in Export
               /\ hpc[x] = "unlink" \/ status'[hexp[x]] = "expired"
          /\ UNCHANGED <<hasPath, owner, wtrash, apc, paths, locked>>
      BY <1>4 DEF DownloadRetire, ExpireUserExportByID, Retirable, RequestInv
    <3> QED
      BY <3>1 DEF TrashInv, Dead
  <2>3. RequestInv'
    BY <1>4 DEF DownloadRetire, ExpireUserExportByID, Retirable, RequestInv
  <2>4. CompleteHasArchive'
    BY <1>4 DEF DownloadRetire, ExpireUserExportByID, Retirable,
                CompleteHasArchive, HoldInv,
           TrashInv, Dead
  <2>5. RetiredOnlyAfterUse'
    BY <1>4 DEF DownloadRetire, ExpireUserExportByID, Retirable,
                RetiredOnlyAfterUse, RequestInv,
           HoldInv
  <2>6. OneUnlinker'
    <3>1. /\ \A x \in Handler, e \in Export : Unlinking(x, e) => status[e] \in Dead
          /\ \A x \in Worker : \A e \in wtrash[x] : status[e] \in Dead
      BY DEF TrashInv, Unlinking
    <3>2. \A x \in Handler, e \in Export :
             Unlinking(x, e)' => \/ Unlinking(x, e)
                                 \/ x = h /\ e = hexp[h] /\ status[e] = "complete"
      BY <1>4 DEF DownloadRetire, ExpireUserExportByID, Retirable, Unlinking
    <3>3. wtrash' = wtrash
      BY <1>4 DEF DownloadRetire, ExpireUserExportByID
    <3> HIDE DEF TypeOK
    <3> QED
      BY <3>1, <3>2, <3>3 DEF OneUnlinker, Dead
  <2>7. ClaimedByOne'
    BY <1>4 DEF DownloadRetire, ExpireUserExportByID, Retirable, ClaimedByOne,
                Held
  <2> QED
    BY <2>1, <2>2, <2>3, <2>4, <2>5, <2>6, <2>7
<1>5. CASE DownloadUnlink(h)
  <2>1. HoldInv'
    BY <1>5 DEF DownloadUnlink, Remove, HoldInv, ClaimedByOne, Held, TrashInv,
           Dead
  <2>2. TrashInv'
    BY <1>5 DEF DownloadUnlink, Remove, TrashInv, Dead, HoldInv, RequestInv
  <2>3. RequestInv'
    BY <1>5 DEF DownloadUnlink, Remove, RequestInv
  <2>4. CompleteHasArchive'
    BY <1>5 DEF DownloadUnlink, Remove, CompleteHasArchive, HoldInv, TrashInv,
           Dead
  <2>5. OneUnlinker'
    BY <1>5 DEF DownloadUnlink, Remove, OneUnlinker, Unlinking, TrashInv,
           Dead, RequestInv
  <2>6. ClaimedByOne' /\ RetiredOnlyAfterUse'
    BY <1>5 DEF DownloadUnlink, Remove, ClaimedByOne, Held,
           RetiredOnlyAfterUse
  <2> QED
    BY <2>1, <2>2, <2>3, <2>4, <2>5, <2>6
<1>6. CASE RequestAbort(h)
  <2>1. RequestInv'
    BY <1>6 DEF RequestAbort, RequestInv
  <2>2. HoldInv' /\ TrashInv' /\ ClaimedByOne' /\ CompleteHasArchive' /\
       RetiredOnlyAfterUse' /\ OneUnlinker'
    BY <1>6 DEF RequestAbort, HoldInv, TrashInv, Dead, ClaimedByOne, Held,
           CompleteHasArchive, RetiredOnlyAfterUse, OneUnlinker, Unlinking
  <2> QED
    BY <2>1, <2>2
<1>7. ASSUME NEW u \in User, TriggerCheck(h, u) PROVE SafeInv'
  <2>1. RequestInv'
    BY <1>7 DEF TriggerCheck, RequestInv
  <2>2. HoldInv' /\ TrashInv' /\ ClaimedByOne' /\ CompleteHasArchive' /\
       RetiredOnlyAfterUse' /\ OneUnlinker'
    BY <1>7 DEF TriggerCheck, HoldInv, TrashInv, Dead, ClaimedByOne, Held,
           CompleteHasArchive, RetiredOnlyAfterUse, OneUnlinker, Unlinking
  <2> QED
    BY <2>1, <2>2
<1>8. ASSUME NEW e \in Export, DownloadRead(h, e) PROVE SafeInv'
  <2>1. RequestInv'
    BY <1>8 DEF DownloadRead, RequestInv
  <2>2. HoldInv' /\ TrashInv' /\ ClaimedByOne' /\ CompleteHasArchive' /\
       RetiredOnlyAfterUse' /\ OneUnlinker'
    BY <1>8 DEF DownloadRead, HoldInv, TrashInv, Dead, ClaimedByOne, Held,
           CompleteHasArchive, RetiredOnlyAfterUse, OneUnlinker, Unlinking
  <2> QED
    BY <2>1, <2>2
<1> QED
  BY <1>1, <1>2, <1>3, <1>4, <1>5, <1>6, <1>7, <1>8 DEF RequestStep

(* A step of an anonymization keeps the safety invariants.                 *)
LEMMA AnonKeeps ==
  ASSUME IInv, NEW u \in User, AnonStep(u) \/ AnonList(u) \/ AnonAbort(u)
  PROVE  SafeInv'
<1> USE ExportsAssumption DEF IInv, SafeInv, TypeOK, Statuses, rowVars,
              workerVars, handlerVars, anonVars
<1>1. CASE AnonList(u)
  <2>1. TrashInv'
    BY <1>1 DEF AnonList, ListUserExportFilePathsForUser, RowsOf, TrashInv, Dead,
                HoldInv, RequestInv
  <2>2. HoldInv' /\ RequestInv' /\ ClaimedByOne' /\ CompleteHasArchive' /\
       RetiredOnlyAfterUse' /\ OneUnlinker'
    BY <1>1 DEF AnonList, ListUserExportFilePathsForUser, RowsOf, HoldInv,
                RequestInv, ClaimedByOne, Held,
           CompleteHasArchive, RetiredOnlyAfterUse, OneUnlinker, Unlinking
  <2> QED
    BY <2>1, <2>2
<1>2. CASE AnonDelete(u)
  <2>1. TrashInv'
    BY <1>2 DEF AnonDelete, RowsOf, TrashInv, Dead, HoldInv, RequestInv
  <2>2. HoldInv' /\ RequestInv' /\ ClaimedByOne' /\ CompleteHasArchive' /\
       RetiredOnlyAfterUse' /\ OneUnlinker'
    BY <1>2 DEF AnonDelete, RowsOf, HoldInv, RequestInv, ClaimedByOne, Held,
           CompleteHasArchive, RetiredOnlyAfterUse, OneUnlinker, Unlinking
  <2> QED
    BY <2>1, <2>2
<1>3. CASE AnonCommit(u)
  <2>1. HoldInv'
    BY <1>3 DEF AnonCommit, HoldInv, ClaimedByOne, Held, TrashInv, Dead
  <2>2. TrashInv'
    BY <1>3 DEF AnonCommit, TrashInv, Dead, HoldInv, RequestInv
  <2>3. CompleteHasArchive'
    BY <1>3 DEF AnonCommit, CompleteHasArchive, HoldInv, TrashInv, Dead
  <2>4. RetiredOnlyAfterUse'
    BY <1>3 DEF AnonCommit, RetiredOnlyAfterUse, RequestInv, HoldInv
  <2>5. RequestInv' /\ ClaimedByOne' /\ OneUnlinker'
    BY <1>3 DEF AnonCommit, RequestInv, ClaimedByOne, Held, OneUnlinker,
           Unlinking
  <2> QED
    BY <2>1, <2>2, <2>3, <2>4, <2>5
<1>4. CASE AnonAbort(u)
  <2>1. TrashInv'
    BY <1>4 DEF AnonAbort, TrashInv, Dead, HoldInv, RequestInv
  <2>2. HoldInv' /\ RequestInv' /\ ClaimedByOne' /\ CompleteHasArchive' /\
       RetiredOnlyAfterUse' /\ OneUnlinker'
    BY <1>4 DEF AnonAbort, HoldInv, RequestInv, ClaimedByOne, Held,
           CompleteHasArchive, RetiredOnlyAfterUse, OneUnlinker, Unlinking
  <2> QED
    BY <2>1, <2>2
<1>5. ASSUME NEW e \in Export, AnonUnlink(u, e) PROVE SafeInv'
  <2>1. HoldInv'
    BY <1>5 DEF AnonUnlink, Remove, HoldInv, ClaimedByOne, Held, TrashInv,
           Dead
  <2>2. TrashInv'
    BY <1>5 DEF AnonUnlink, Remove, TrashInv, Dead, HoldInv, RequestInv
  <2>3. CompleteHasArchive'
    BY <1>5 DEF AnonUnlink, Remove, CompleteHasArchive, HoldInv, TrashInv,
           Dead
  <2>4. RequestInv' /\ ClaimedByOne' /\ RetiredOnlyAfterUse' /\ OneUnlinker'
    BY <1>5 DEF AnonUnlink, Remove, RequestInv, ClaimedByOne, Held,
           RetiredOnlyAfterUse, OneUnlinker, Unlinking
  <2> QED
    BY <2>1, <2>2, <2>3, <2>4
<1>6. CASE AnonDone(u)
  BY <1>6 DEF AnonDone, HoldInv, TrashInv, Dead, RequestInv, ClaimedByOne,
         Held, CompleteHasArchive, RetiredOnlyAfterUse, OneUnlinker, Unlinking
<1> QED
  BY <1>1, <1>2, <1>3, <1>4, <1>5, <1>6 DEF AnonStep

(* The clock and a crash keep all of it.                                   *)
LEMMA EnvironmentKeeps ==
  ASSUME IInv, Crash \/ \E e \in Export : TtlElapses(e)
  PROVE  IInv'
<1> USE ExportsAssumption DEF IInv, SafeInv, TypeOK, Statuses, rowVars,
              workerVars, handlerVars, anonVars
<1>1. CASE Crash
  BY <1>1 DEF Crash, HoldInv, TrashInv, RequestInv, ClaimedByOne, Held,
              CompleteHasArchive, RetiredOnlyAfterUse, OneUnlinker, Unlinking
<1>2. ASSUME NEW e \in Export, TtlElapses(e) PROVE IInv'
  BY <1>2 DEF TtlElapses, HoldInv, TrashInv, Dead, RequestInv, ClaimedByOne,
              Held, CompleteHasArchive, RetiredOnlyAfterUse, OneUnlinker,
              Unlinking
<1> QED
  BY <1>1, <1>2

(* The inductive invariant holds before the first request.                 *)
LEMMA InitIInv == Init => IInv
<1> SUFFICES ASSUME Init PROVE SafeInv
  BY TypeInit DEF IInv
<1> QED
  BY ExportsAssumption
     DEF Init, SafeInv, HoldInv, TrashInv, RequestInv, ClaimedByOne, Held,
         CompleteHasArchive, RetiredOnlyAfterUse, OneUnlinker, Unlinking

(* Every step of the specification, and stuttering, keeps it.              *)
LEMMA StepIInv == IInv /\ [Next]_vars => IInv'
<1> SUFFICES ASSUME IInv, [Next]_vars PROVE IInv'
  OBVIOUS
<1>1. ASSUME NEW w \in Worker, TickStep(w) \/ Timeout(w) PROVE IInv'
  BY <1>1, TypeTick, TickKeeps DEF IInv, SafeInv
<1>2. ASSUME NEW h \in Handler,
             \/ RequestStep(h) \/ RequestAbort(h)
             \/ \E u \in User : TriggerCheck(h, u)
             \/ \E e \in Export : DownloadRead(h, e)
      PROVE  IInv'
  BY <1>2, TypeRequest, RequestKeeps DEF IInv, SafeInv
<1>3. ASSUME NEW u \in User, AnonStep(u) \/ AnonList(u) \/ AnonAbort(u)
      PROVE  IInv'
  BY <1>3, TypeAnon, AnonKeeps DEF IInv
<1>4. CASE Crash \/ \E e \in Export : TtlElapses(e)
  BY <1>4, EnvironmentKeeps
<1>5. CASE UNCHANGED vars
  BY <1>5 DEF vars, rowVars, workerVars, handlerVars, anonVars, IInv, TypeOK,
              SafeInv, HoldInv, TrashInv, RequestInv, ClaimedByOne, Held,
              CompleteHasArchive, RetiredOnlyAfterUse, OneUnlinker, Unlinking
<1> QED
  BY <1>1, <1>2, <1>3, <1>4, <1>5 DEF Next

(* The strengthened invariant holds of every behaviour of the pipeline.    *)
THEOREM Invariance == Spec => []IInv
  BY InitIInv, StepIInv, PTL DEF Spec

(* Every variable keeps its type.                                          *)
THEOREM TypeCorrect == Spec => []TypeOK
<1>1. IInv => TypeOK
  BY DEF IInv
<1> QED
  BY Invariance, <1>1, PTL

(* No two ticks ever process the same export, however many run at once.    *)
THEOREM ClaimExclusion == Spec => []ClaimedByOne
<1>1. IInv => ClaimedByOne
  BY DEF IInv, SafeInv
<1> QED
  BY Invariance, <1>1, PTL

(* A complete row never points at a missing or half-written archive.       *)
THEOREM ArchivePresent == Spec => []CompleteHasArchive
<1>1. IInv => CompleteHasArchive
  BY DEF IInv, SafeInv
<1> QED
  BY Invariance, <1>1, PTL

(* An export expires only when it was received in full or its TTL passed.  *)
THEOREM SingleUse == Spec => []RetiredOnlyAfterUse
<1>1. IInv => RetiredOnlyAfterUse
  BY DEF IInv, SafeInv
<1> QED
  BY Invariance, <1>1, PTL

(* Of all who race to retire an export exactly the winner deletes it.      *)
THEOREM OneDeleter == Spec => []OneUnlinker
<1>1. IInv => OneUnlinker
  BY DEF IInv, SafeInv
<1> QED
  BY Invariance, <1>1, PTL

(* What a step may do to the status of a row.                              *)
LEMMA StepForward ==
  ASSUME IInv, [Next]_vars, NEW e \in Export
  PROVE  Rank[status[e]] <= Rank[status'[e]]
<1> USE DEF IInv, SafeInv, TypeOK, Statuses, Rank
<1>1. CASE status'[e] = status[e]
  BY <1>1
<1>2. ASSUME NEW w \in Worker, Claim(w)
      PROVE  status'[e] = status[e] \/ (status[e] = "pending" /\ status'[e] = "running")
  BY <1>2 DEF Claim, ClaimPendingUserExports, Claimable
<1>3. ASSUME NEW w \in Worker, Complete(w)
      PROVE  \/ status'[e] = status[e]
             \/ status[e] = "running" /\ status'[e] = "complete"
  BY <1>3 DEF Complete, CompleteRow, HoldInv, rowVars
<1>4. ASSUME NEW w \in Worker, Fail(w)
      PROVE  \/ status'[e] = status[e]
             \/ /\ status[e] \in {"running", "complete", "expired", "failed"}
                /\ status'[e] = "failed"
  BY <1>4 DEF Fail, FailUserExport, HoldInv
<1>5. ASSUME NEW w \in Worker, Prune(w)
      PROVE  \/ status'[e] = status[e]
             \/ status[e] = "complete" /\ status'[e] = "expired"
  BY <1>5 DEF Prune, ExpireUserExports, Prunable
<1>6. ASSUME NEW h \in Handler, TriggerCreate(h)
      PROVE  status'[e] = status[e] \/ (status[e] = "absent" /\ status'[e] = "pending")
  BY <1>6 DEF TriggerCreate, CreateUserExport
<1>7. ASSUME NEW h \in Handler, DownloadRetire(h)
      PROVE  \/ status'[e] = status[e]
             \/ status[e] = "complete" /\ status'[e] = "expired"
  BY <1>7 DEF DownloadRetire, ExpireUserExportByID, Retirable
<1>8. ASSUME NEW u \in User, AnonCommit(u)
      PROVE  status'[e] = status[e] \/ status'[e] = "gone"
  BY <1>8 DEF AnonCommit
<1>9. \/ status'[e] = status[e]
      \/ \E w \in Worker : Claim(w) \/ Complete(w) \/ Fail(w) \/ Prune(w)
      \/ \E h \in Handler : TriggerCreate(h) \/ DownloadRetire(h)
      \/ \E u \in User : AnonCommit(u)
  BY DEF Next, TickStep, RequestStep, AnonStep, Build, PutBegin, PutEnd,
         PruneUnlink, TickDone, Timeout, DownloadOpen, DownloadStream,
         DownloadUnlink, RequestAbort, TriggerCheck, DownloadRead, AnonList,
         AnonDelete, AnonAbort, AnonUnlink, AnonDone, TtlElapses, Crash,
         rowVars, vars
<1> QED
  BY <1>1, <1>2, <1>3, <1>4, <1>5, <1>6, <1>7, <1>8, <1>9

(* A row's status only moves forward: what was retired, failed or removed  *)
(* is never offered or processed again.                                    *)
THEOREM Forward == Spec => NeverGoesBack
<1>1. IInv /\ [Next]_vars =>
        [\A e \in Export : Rank[status[e]] <= Rank[status'[e]]]_vars
  BY StepForward
<1> QED
  BY Invariance, <1>1, PTL DEF Spec, NeverGoesBack

-----------------------------------------------------------------------------
(* No archive leaks                                                        *)

(* A step of a tick keeps LeakInv: an archive passes from the tick that    *)
(* writes it to the row it completes, from the row to the prune that       *)
(* retires it, and a tick that gives a row up has none.                    *)
LEMMA LeakTick ==
  ASSUME IInv, LeakInv, NEW w \in Worker, TickStep(w) \/ Timeout(w)
  PROVE  LeakInv'
<1> USE ExportsAssumption DEF IInv, SafeInv, TypeOK, Statuses, rowVars,
              workerVars, handlerVars, anonVars, LeakInv, NoArchiveLeaks,
              Accounted, Unlinking
<1>1. CASE Claim(w)
  BY <1>1 DEF Claim, ClaimPendingUserExports, Claimable, HoldInv
<1>2. ASSUME NEW e \in Export, Build(w, e) PROVE LeakInv'
  BY <1>2 DEF Build, HoldInv
<1>3. CASE PutBegin(w)
  BY <1>3 DEF PutBegin, HoldInv
<1>4. CASE PutEnd(w)
  BY <1>4 DEF PutEnd, HoldInv
<1>5. CASE Complete(w)
  <2>1. cur[w] \in Export
    BY <1>5 DEF Complete, HoldInv
  <2>2. \A e \in Export : status'[e] = "complete" => e \in hasPath'
    BY <1>5, <2>1 DEF Complete, CompleteRow
  <2>3. \A x \in Worker : wpc'[x] # "unlink" => wtrash'[x] = {}
    BY <1>5 DEF Complete
  <2>4. ASSUME ~Faults, deleted = {}
        PROVE  /\ status[cur[w]] = "running"
               /\ status' = [status EXCEPT ![cur[w]] = "complete"]
               /\ wpc' = [wpc EXCEPT ![w] = "work"]
               /\ cur' = [cur EXCEPT ![w] = None]
    BY <1>5, <2>1, <2>4 DEF Complete, CompleteRow, HoldInv
  <2>5. ASSUME ~Faults, deleted = {}
        PROVE  /\ \A e \in Export : status'[e] # "gone"
               /\ \A x \in Worker : wpc'[x] = "fail" => status'[cur'[x]] = "running"
    <3>1. ASSUME NEW x \in Worker, wpc'[x] = "fail" PROVE status'[cur'[x]] = "running"
      <4>1. x # w
        BY <2>4, <2>5, <3>1
      <4>2. wpc[x] = "fail" /\ cur'[x] = cur[x]
        BY <2>4, <2>5, <3>1, <4>1
      <4>3. cur[x] \in Export
        BY <4>2 DEF HoldInv
      <4>4. cur[x] # cur[w]
        <5>1. Held(x) \cap Held(w) = {}
          BY <4>1 DEF ClaimedByOne
        <5>2. cur[x] \in Held(x) /\ cur[w] \in Held(w)
          BY <2>1, <4>3 DEF Held
        <5> QED
          BY <5>1, <5>2
      <4> QED
        BY <2>1, <2>4, <2>5, <4>2, <4>3, <4>4
    <3> QED
      BY <2>1, <2>4, <2>5, <3>1
  <2>6. ASSUME ~Faults, deleted = {}, NEW e \in Export, blob'[e] # "none"
        PROVE  Accounted(e)'
    <3>1. CASE e = cur[w]
      BY <2>4, <2>6, <3>1
    <3>2. CASE e # cur[w]
      BY <1>5, <2>4, <2>6, <3>2 DEF Complete
    <3> QED
      BY <3>1, <3>2
  <2>7. deleted' = deleted
    BY <1>5 DEF Complete
  <2> QED
    BY <2>2, <2>3, <2>5, <2>6, <2>7
<1>6. CASE Fail(w)
  <2>1. cur[w] \in Export /\ cur[w] \notin todo[w]
    BY <1>6 DEF Fail, HoldInv
  <2>2. /\ \A e \in Export : status'[e] = "complete" => e \in hasPath'
        /\ \A x \in Worker : wpc'[x] # "unlink" => wtrash'[x] = {}
        /\ deleted' = deleted
    BY <1>6 DEF Fail, FailUserExport
  <2>3. ASSUME NEW x \in Worker, x # w, cur[x] # None PROVE cur[x] # cur[w]
    BY <2>1, <2>3 DEF ClaimedByOne, Held
  <2>4. ASSUME ~Faults, deleted = {}
        PROVE  /\ status[cur[w]] = "running"
               /\ status' = [status EXCEPT ![cur[w]] = "failed"]
               /\ wpc' = [wpc EXCEPT ![w] = "work"]
               /\ cur' = [cur EXCEPT ![w] = None]
    BY <1>6, <2>1, <2>4 DEF Fail, FailUserExport
  <2>5. ASSUME ~Faults, deleted = {}
        PROVE  /\ \A e \in Export : status'[e] # "gone"
               /\ \A x \in Worker : wpc'[x] = "fail" => status'[cur'[x]] = "running"
    <3>1. ASSUME NEW x \in Worker, wpc'[x] = "fail" PROVE status'[cur'[x]] = "running"
      <4>1. x # w /\ wpc[x] = "fail" /\ cur'[x] = cur[x] /\ cur[x] \in Export
        BY <2>4, <2>5, <3>1 DEF HoldInv
      <4> QED
        BY <2>1, <2>3, <2>4, <2>5, <4>1
    <3> QED
      BY <2>1, <2>4, <2>5, <3>1
  <2>6. ASSUME ~Faults, deleted = {}, NEW e \in Export, blob'[e] # "none"
        PROVE  Accounted(e)'
    <3>1. blob' = blob /\ wtrash' = wtrash /\ hpc' = hpc /\ hexp' = hexp
      BY <1>6 DEF Fail
    <3>2. Accounted(e)
      BY <2>6, <3>1
    <3>3. wpc[w] = "fail"
      BY <1>6 DEF Fail
    <3>4. e # cur[w]
      <4>1. ASSUME NEW x \in Worker, cur[x] = cur[w], wpc[x] \in {"putting", "complete"}
            PROVE  FALSE
        BY <2>1, <2>3, <3>3, <4>1
      <4>2. ASSUME NEW x \in Worker, cur[w] \in wtrash[x] PROVE FALSE
        BY <2>4, <2>6, <4>2 DEF TrashInv, Dead
      <4>3. ASSUME NEW x \in Handler, hpc[x] = "unlink", hexp[x] = cur[w] PROVE FALSE
        BY <2>4, <2>6, <4>3 DEF TrashInv, Dead
      <4> QED
        BY <2>4, <2>6, <3>2, <4>1, <4>2, <4>3
    <3> QED
      BY <2>1, <2>4, <2>6, <3>1, <3>2, <3>3, <3>4
  <2> QED
    BY <2>2, <2>5, <2>6
<1>7. CASE Prune(w)
  <2>1. /\ wpc[w] = "work"
        /\ \A e \in Export :
             status'[e] # status[e] => status[e] = "complete" /\ status'[e] = "expired"
        /\ \A x \in Worker : x # w => wpc'[x] = wpc[x] /\ wtrash'[x] = wtrash[x]
        /\ UNCHANGED <<hasPath, blob, cur, hpc, hexp, deleted>>
    <3>1. \A e \in Export :
            status'[e] # status[e] => status[e] = "complete" /\ status'[e] = "expired"
      BY <1>7 DEF Prune, ExpireUserExports, Prunable
    <3>2. \A x \in Worker : x # w => wpc'[x] = wpc[x] /\ wtrash'[x] = wtrash[x]
      BY <1>7 DEF Prune
    <3> QED
      BY <1>7, <3>1, <3>2 DEF Prune
  <2>2. /\ wpc'[w] \in {"unlink", "idle"}
        /\ wpc'[w] # "unlink" => wtrash'[w] = {}
    BY <1>7 DEF Prune
  <2>3. ASSUME ~Faults, NEW e \in Export, status[e] = "complete", status'[e] # "complete"
        PROVE  e \in wtrash'[w]
    BY <1>7, <2>3 DEF Prune, ExpireUserExports, Prunable
  <2>4. wtrash[w] = {}
    BY <2>1
  <2>5. ASSUME ~Faults, deleted = {}, NEW e \in Export, blob'[e] # "none"
        PROVE  Accounted(e)'
    <3>1. Accounted(e)
      BY <2>1, <2>5
    <3>2. CASE status[e] = "complete"
      BY <2>3, <2>5, <3>2
    <3>3. CASE \E x \in Worker : cur[x] = e /\ wpc[x] \in {"putting", "complete"}
      BY <2>1, <3>3
    <3>4. CASE \E x \in Worker : e \in wtrash[x]
      BY <2>1, <2>4, <3>4
    <3>5. CASE \E x \in Handler : Unlinking(x, e)
      BY <2>1, <3>5
    <3> QED
      BY <3>1, <3>2, <3>3, <3>4, <3>5
  <2>6. ASSUME ~Faults, deleted = {}
        PROVE  /\ \A e \in Export : status'[e] # "gone"
               /\ \A x \in Worker : wpc'[x] = "fail" => status'[cur'[x]] = "running"
    <3>1. ASSUME NEW x \in Worker, wpc'[x] = "fail" PROVE status'[cur'[x]] = "running"
      <4>1. wpc[x] = "fail" /\ cur[x] \in Export
        BY <2>1, <2>2, <3>1 DEF HoldInv
      <4> QED
        BY <2>1, <2>6, <4>1
    <3> QED
      BY <2>1, <2>6, <3>1
  <2> QED
    BY <2>1, <2>2, <2>5, <2>6
<1>8. ASSUME NEW e \in Export, PruneUnlink(w, e) PROVE LeakInv'
  BY <1>8 DEF PruneUnlink, Remove
<1>9. CASE TickDone(w)
  BY <1>9 DEF TickDone
<1>10. CASE Timeout(w)
  BY <1>10 DEF Timeout
<1> QED
  BY <1>1, <1>2, <1>3, <1>4, <1>5, <1>6, <1>7, <1>8, <1>9, <1>10 DEF TickStep

(* So does a step of a request: the download that retires a row deletes    *)
(* its archive.                                                            *)
LEMMA LeakRequest ==
  ASSUME IInv, LeakInv, NEW h \in Handler,
         \/ RequestStep(h) \/ RequestAbort(h)
         \/ \E u \in User : TriggerCheck(h, u)
         \/ \E e \in Export : DownloadRead(h, e)
  PROVE  LeakInv'
<1> USE ExportsAssumption DEF IInv, SafeInv, TypeOK, Statuses, rowVars,
              workerVars, handlerVars, anonVars, LeakInv, NoArchiveLeaks,
              Accounted, Unlinking
<1>1. CASE TriggerCreate(h)
  BY <1>1 DEF TriggerCreate, CreateUserExport
<1>2. CASE DownloadOpen(h)
  BY <1>2 DEF DownloadOpen
<1>3. CASE DownloadStream(h)
  BY <1>3 DEF DownloadStream
<1>4. CASE DownloadRetire(h)
  <2>1. /\ hexp[h] \in Export
        /\ hpc[h] = "retire"
        /\ \A e \in Export :
             status'[e] # status[e] =>
                /\ status[e] = "complete" /\ status'[e] = "expired"
                /\ hpc'[h] = "unlink" /\ hexp'[h] = e
        /\ \A x \in Handler : x # h => hpc'[x] = hpc[x] /\ hexp'[x] = hexp[x]
        /\ UNCHANGED <<hasPath, blob, wpc, cur, wtrash, deleted>>
    BY <1>4 DEF DownloadRetire, ExpireUserExportByID, Retirable, RequestInv
  <2>2. ASSUME ~Faults, deleted = {}, NEW e \in Export, blob'[e] # "none"
        PROVE  Accounted(e)'
    BY <2>1, <2>2
  <2>3. ASSUME NEW x \in Worker, wpc[x] = "fail", status[cur[x]] = "running"
        PROVE  status'[cur[x]] = "running"
    BY <2>1, <2>3 DEF HoldInv
  <2> QED
    BY <2>1, <2>2, <2>3
<1>5. CASE DownloadUnlink(h)
  BY <1>5 DEF DownloadUnlink, Remove, RequestInv
<1>6. CASE RequestAbort(h)
  BY <1>6 DEF RequestAbort
<1>7. ASSUME NEW u \in User, TriggerCheck(h, u) PROVE LeakInv'
  BY <1>7 DEF TriggerCheck
<1>8. ASSUME NEW e \in Export, DownloadRead(h, e) PROVE LeakInv'
  BY <1>8 DEF DownloadRead
<1> QED
  BY <1>1, <1>2, <1>3, <1>4, <1>5, <1>6, <1>7, <1>8 DEF RequestStep

(* So does an anonymization, whose commit ends the promise of              *)
(* NoArchiveLeaks.                                                         *)
LEMMA LeakAnon ==
  ASSUME IInv, LeakInv, NEW u \in User, AnonStep(u) \/ AnonList(u) \/ AnonAbort(u)
  PROVE  LeakInv'
<1> USE DEF IInv, SafeInv, TypeOK, Statuses, rowVars, workerVars,
              handlerVars, anonVars, LeakInv, NoArchiveLeaks, Accounted, Unlinking
<1>1. CASE AnonList(u)
  BY <1>1 DEF AnonList
<1>2. CASE AnonDelete(u)
  BY <1>2 DEF AnonDelete
<1>3. CASE AnonCommit(u)
  BY <1>3 DEF AnonCommit
<1>4. CASE AnonAbort(u)
  BY <1>4 DEF AnonAbort
<1>5. ASSUME NEW e \in Export, AnonUnlink(u, e) PROVE LeakInv'
  BY <1>5 DEF AnonUnlink, Remove
<1>6. CASE AnonDone(u)
  BY <1>6 DEF AnonDone
<1> QED
  BY <1>1, <1>2, <1>3, <1>4, <1>5, <1>6 DEF AnonStep

(* Every step keeps LeakInv.                                               *)
LEMMA StepLeak == IInv /\ LeakInv /\ [Next]_vars => LeakInv'
<1> SUFFICES ASSUME IInv, LeakInv, [Next]_vars PROVE LeakInv'
  OBVIOUS
<1>1. CASE Crash
  BY <1>1 DEF Crash, LeakInv, NoArchiveLeaks, rowVars
<1>2. ASSUME NEW e \in Export, TtlElapses(e) PROVE LeakInv'
  BY <1>2 DEF TtlElapses, LeakInv, NoArchiveLeaks, Accounted, Unlinking,
              workerVars, handlerVars, anonVars
<1>3. CASE UNCHANGED vars
  BY <1>3 DEF vars, rowVars, workerVars, handlerVars, anonVars, LeakInv,
              NoArchiveLeaks, Accounted, Unlinking
<1> QED
  BY <1>1, <1>2, <1>3, LeakTick, LeakRequest, LeakAnon DEF Next

(* While nothing fails and no account is deleted, every archive in the     *)
(* store is offered, being written or about to be deleted.                 *)
THEOREM NoLeaks == Spec => []NoArchiveLeaks
<1>1. Init => LeakInv
  BY ExportsAssumption DEF Init, LeakInv, NoArchiveLeaks
<1>2. LeakInv => NoArchiveLeaks
  BY DEF LeakInv
<1> QED
  BY Invariance, StepLeak, <1>1, <1>2, PTL DEF Spec

-----------------------------------------------------------------------------
(* One export in flight per user                                           *)

(* A row in flight after a step was so before it, for the same user,       *)
(* unless a trigger has just created it.                                   *)
LEMMA InFlightStep ==
  ASSUME IInv, [Next]_vars, NEW u \in User,
         ~ \E h \in Handler : TriggerCreate(h)
  PROVE  InFlight(u)' \subseteq InFlight(u)
<1> SUFFICES ASSUME NEW e \in Export,
                    owner'[e] = u, status'[e] \in {"pending", "running"}
             PROVE  owner[e] = u /\ status[e] \in {"pending", "running"}
  BY DEF InFlight, RowsOf
<1> USE DEF IInv, SafeInv, TypeOK, Statuses
<1>1. owner' = owner
  BY DEF Next, TickStep, RequestStep, AnonStep, Claim, Build, PutBegin, PutEnd,
         Complete, CompleteRow, Fail, Prune, PruneUnlink, TickDone, Timeout,
         DownloadOpen, DownloadStream, DownloadRetire, DownloadUnlink,
         RequestAbort, TriggerCheck, DownloadRead, AnonList, AnonDelete,
         AnonCommit, AnonAbort, AnonUnlink, AnonDone, TtlElapses, Crash,
         rowVars, vars
<1>2. ASSUME status[e] \notin {"pending", "running"} PROVE FALSE
  <2>1. Rank[status[e]] <= Rank[status'[e]]
    BY StepForward
  <2>2. status[e] = "absent" /\ status'[e] # "absent"
    BY <1>2, <2>1 DEF Rank
  <2>3. \/ \E w \in Worker : Claim(w) \/ Complete(w) \/ Fail(w) \/ Prune(w)
        \/ \E h \in Handler : DownloadRetire(h)
        \/ \E x \in User : AnonCommit(x)
    BY <2>2 DEF Next, TickStep, RequestStep, AnonStep, Build, PutBegin, PutEnd,
         PruneUnlink, TickDone, Timeout, DownloadOpen, DownloadStream,
         DownloadUnlink, RequestAbort, TriggerCheck, DownloadRead, AnonList,
         AnonDelete, AnonAbort, AnonUnlink, AnonDone, TtlElapses, Crash,
         rowVars, vars
  <2>4. ASSUME NEW w \in Worker, Claim(w) \/ Prune(w) PROVE FALSE
    <3>1. CASE Claim(w)
      BY <2>2, <3>1 DEF Claim, ClaimPendingUserExports, Claimable
    <3>2. CASE Prune(w)
      BY <2>2, <3>2 DEF Prune, ExpireUserExports, Prunable
    <3> QED
      BY <2>4, <3>1, <3>2
  <2>5. ASSUME NEW w \in Worker, Complete(w) \/ Fail(w) PROVE FALSE
    BY <2>2, <2>5 DEF Complete, CompleteRow, Fail, FailUserExport, HoldInv, rowVars
  <2>6. ASSUME NEW h \in Handler, DownloadRetire(h) PROVE FALSE
    BY <2>2, <2>6 DEF DownloadRetire, ExpireUserExportByID, Retirable
  <2>7. ASSUME NEW x \in User, AnonCommit(x) PROVE FALSE
    BY <1>2, <2>2, <2>7 DEF AnonCommit
  <2> QED
    BY <2>3, <2>4, <2>5, <2>6, <2>7
<1> QED
  BY <1>1, <1>2

(* Every step keeps InFlightInv: only a trigger adds a row in flight, and  *)
(* the check it passed is still true when no other request runs.           *)
LEMMA StepInFlight == IInv /\ InFlightInv /\ [Next]_vars => InFlightInv'
<1> SUFFICES ASSUME IInv, InFlightInv, [Next]_vars, Serial PROVE InFlightInv'
  BY DEF InFlightInv, Serial
<1> USE DEF IInv, TypeOK, Statuses
<1>1. ASSUME NEW u \in User PROVE HasActive(u) <=> InFlight(u) # {}
  BY DEF HasActive, InFlight
<1>2. (\A u \in User : HasActive(u) <=> InFlight(u) # {})'
  BY DEF HasActive, InFlight
<1>3. ASSUME NEW h \in Handler, TriggerCreate(h) PROVE InFlightInv'
  <2>1. /\ huser[h] \in User
        /\ InFlight(huser[h]) = {}
    BY <1>1, <1>3 DEF TriggerCreate, SafeInv, RequestInv, InFlightInv
  <2>2. PICK e \in Export : CreateUserExport(e, huser[h])
    BY <1>3 DEF TriggerCreate
  <2>3. ASSUME NEW u \in User
        PROVE  \/ InFlight(u)' \subseteq InFlight(u)
               \/ InFlight(u) = {} /\ InFlight(u)' \subseteq {e}
    BY <2>1, <2>2 DEF CreateUserExport, InFlight, RowsOf
  <2>4. \A x \in Handler : hpc'[x] # "create"
    BY <1>3 DEF TriggerCreate, Serial
  <2> QED
    BY <2>3, <2>4 DEF InFlightInv
<1>4. CASE ~ \E h \in Handler : TriggerCreate(h)
  <2>1. \A u \in User : InFlight(u)' \subseteq InFlight(u)
    BY <1>4, InFlightStep
  <2>2. ASSUME NEW h \in Handler, hpc'[h] = "create" PROVE ~HasActive(huser[h])'
    <3>1. CASE \E u \in User : TriggerCheck(h, u)
      BY <1>1, <1>2, <2>1, <3>1 DEF TriggerCheck
    <3>2. CASE ~ \E u \in User : TriggerCheck(h, u)
      <4>1. hpc[h] = "create" /\ huser'[h] = huser[h]
        BY <1>4, <2>2, <3>2
           DEF Serial, Next, TickStep, RequestStep, AnonStep, Claim, Build,
           PutBegin, PutEnd, Complete, Fail, Prune, PruneUnlink, TickDone,
           Timeout, DownloadOpen, DownloadStream, DownloadRetire,
           DownloadUnlink, RequestAbort, DownloadRead, AnonList, AnonDelete,
           AnonCommit, AnonAbort, AnonUnlink, AnonDone, TtlElapses, Crash,
           handlerVars, vars
      <4>2. huser[h] \in User
        BY <4>1 DEF SafeInv, RequestInv
      <4> QED
        BY <1>1, <1>2, <2>1, <4>1, <4>2 DEF InFlightInv
    <3> QED
      BY <3>1, <3>2
  <2> QED
    BY <2>1, <2>2 DEF InFlightInv
<1> QED
  BY <1>3, <1>4

(* While requests do not overlap, a user has at most one export pending or *)
(* running.                                                                *)
THEOREM OneInFlight == Spec => []OneInFlightPerUser
<1>1. Init => InFlightInv
  BY ExportsAssumption DEF Init, InFlightInv, InFlight, RowsOf
<1>2. InFlightInv => OneInFlightPerUser
  <2> SUFFICES ASSUME InFlightInv, Serial, NEW u \in User
               PROVE  Cardinality(InFlight(u)) <= 1
    BY DEF OneInFlightPerUser
  <2>1. CASE InFlight(u) = {}
    BY <2>1, FS_EmptySet
  <2>2. ASSUME NEW e \in InFlight(u) PROVE Cardinality(InFlight(u)) <= 1
    <3>1. InFlight(u) = {e}
      BY DEF InFlightInv
    <3>2. Cardinality({e}) = 1
      BY FS_Singleton
    <3> QED
      BY <3>1, <3>2
  <2> QED
    BY <2>1, <2>2
<1> QED
  BY Invariance, StepInFlight, <1>1, <1>2, PTL DEF Spec

-----------------------------------------------------------------------------
(* Exports implements Artifacts                                            *)

\* What a step may do to the row and the archive of e.
SameArchive(e) == blob'[e] = "whole" <=> blob[e] = "whole"
Advanced(e) ==
  /\ SameArchive(e)
  /\ \/ status'[e] = status[e]
     \/ status[e] = "absent" /\ status'[e] = "pending"
     \/ status[e] = "pending" /\ status'[e] = "running"
     \/ status[e] = "running" /\ status'[e] = "complete" /\ blob[e] = "whole"
     \/ status[e] # "absent" /\ status'[e] \in {"expired", "failed", "gone"}
Filled(e) ==
  /\ status'[e] = status[e]
  /\ status[e] \in {"running", "gone"}
  /\ blob'[e] = "whole"
Emptied(e) ==
  /\ status'[e] = status[e]
  /\ status[e] # "complete"
  /\ blob'[e] # "whole"
Allowed(e) == Advanced(e) \/ Filled(e) \/ Emptied(e)

(* Such a change is a step of Artifacts.                                   *)
LEMMA AllowedMaps ==
  ASSUME TypeOK, TypeOK', NEW e \in Export, Allowed(e)
  PROVE  Abstract!Step(e)
<1> USE DEF Abstract!Step, Abstract!Becomes, TypeOK, Statuses, PhaseOf
<1>1. CASE Filled(e)
  BY <1>1 DEF Filled, Abstract!Store
<1>2. CASE Emptied(e)
  BY <1>2 DEF Emptied, Abstract!Remove
<1>3. CASE Advanced(e)
  <2> USE <1>3 DEF Advanced, SameArchive
  <2>1. CASE status'[e] = status[e]
    BY <2>1 DEF Abstract!Same
  <2>2. CASE status[e] = "absent" /\ status'[e] = "pending"
    BY <2>2 DEF Abstract!Request
  <2>3. CASE status[e] = "pending" /\ status'[e] = "running"
    BY <2>3 DEF Abstract!Start
  <2>4. CASE status[e] = "running" /\ status'[e] = "complete" /\ blob[e] = "whole"
    BY <2>4 DEF Abstract!Offer
  <2>5. CASE status[e] # "absent" /\ status'[e] \in {"expired", "failed", "gone"}
    BY <2>5 DEF Abstract!Withdraw, Abstract!Same
  <2> QED
    BY <2>1, <2>2, <2>3, <2>4, <2>5
<1> QED
  BY <1>1, <1>2, <1>3 DEF Allowed

(* Every step of the pipeline changes a row and its archive in one of      *)
(* these ways: HoldInv says when an archive is written and a row           *)
(* completed, TrashInv when an archive is deleted.                         *)
LEMMA StepAllowed ==
  ASSUME IInv, [Next]_vars, NEW e \in Export
  PROVE  Allowed(e)
<1> USE DEF IInv, SafeInv, TypeOK, Statuses, Allowed, Advanced, SameArchive
<1>1. ASSUME NEW w \in Worker, Claim(w) PROVE Allowed(e)
  BY <1>1 DEF Claim, ClaimPendingUserExports, Claimable
<1>2. ASSUME NEW w \in Worker, PutBegin(w) PROVE Allowed(e)
  BY <1>2 DEF PutBegin, HoldInv, Emptied, rowVars
<1>3. ASSUME NEW w \in Worker, PutEnd(w) PROVE Allowed(e)
  BY <1>3 DEF PutEnd, HoldInv, Filled, Emptied, rowVars
<1>4. ASSUME NEW w \in Worker, Complete(w) PROVE Allowed(e)
  BY <1>4 DEF Complete, CompleteRow, HoldInv, rowVars
<1>5. ASSUME NEW w \in Worker, Fail(w) PROVE Allowed(e)
  BY <1>5 DEF Fail, FailUserExport, HoldInv
<1>6. ASSUME NEW w \in Worker, Prune(w) PROVE Allowed(e)
  BY <1>6 DEF Prune, ExpireUserExports, Prunable
<1>7. ASSUME NEW w \in Worker, NEW f \in Export, PruneUnlink(w, f) PROVE Allowed(e)
  BY <1>7 DEF PruneUnlink, Remove, TrashInv, Dead, Emptied, rowVars
<1>8. ASSUME NEW h \in Handler, TriggerCreate(h) PROVE Allowed(e)
  BY <1>8 DEF TriggerCreate, CreateUserExport
<1>9. ASSUME NEW h \in Handler, DownloadRetire(h) PROVE Allowed(e)
  BY <1>9 DEF DownloadRetire, ExpireUserExportByID, Retirable
<1>10. ASSUME NEW h \in Handler, DownloadUnlink(h) PROVE Allowed(e)
  BY <1>10 DEF DownloadUnlink, Remove, TrashInv, Dead, Emptied, rowVars
<1>11. ASSUME NEW u \in User, AnonCommit(u) PROVE Allowed(e)
  <2>1. e \in locked[u] => status[e] # "absent"
    BY DEF TrashInv
  <2> QED
    BY <1>11, <2>1 DEF AnonCommit
<1>12. ASSUME NEW u \in User, NEW f \in Export, AnonUnlink(u, f) PROVE Allowed(e)
  BY <1>12 DEF AnonUnlink, Remove, TrashInv, Emptied, rowVars
<1>13. \/ status' = status /\ blob' = blob
       \/ \E w \in Worker : \/ Claim(w) \/ PutBegin(w) \/ PutEnd(w) \/ Complete(w)
                            \/ Fail(w) \/ Prune(w)
                            \/ \E f \in Export : PruneUnlink(w, f)
       \/ \E h \in Handler : TriggerCreate(h) \/ DownloadRetire(h) \/ DownloadUnlink(h)
       \/ \E u \in User : AnonCommit(u) \/ \E f \in Export : AnonUnlink(u, f)
  BY DEF Next, TickStep, RequestStep, AnonStep, Build, TickDone, Timeout,
         DownloadOpen, DownloadStream, RequestAbort, TriggerCheck, DownloadRead,
         AnonList, AnonDelete, AnonAbort, AnonDone, TtlElapses, Crash, rowVars, vars
<1> QED
  BY <1>1, <1>2, <1>3, <1>4, <1>5, <1>6, <1>7, <1>8, <1>9, <1>10, <1>11, <1>12, <1>13

(* The export pipeline implements Artifacts: worked on once, offered only  *)
(* when stored, whole while offered, never offered again.                  *)
THEOREM Refines == Spec => ImplementsArtifacts
<1>1. Init => Abstract!Init
  BY DEF Init, Abstract!Init, PhaseOf
<1>2. IInv /\ IInv' /\ [Next]_vars =>
        [Abstract!Next]_<<[e \in Export |-> PhaseOf(status[e])],
                          {e \in Export : blob[e] = "whole"}>>
  <2> SUFFICES ASSUME IInv, IInv', [Next]_vars PROVE Abstract!Next
    OBVIOUS
  <2>1. \A e \in Export : Abstract!Step(e)
    BY StepAllowed, AllowedMaps DEF IInv
  <2>2. [e \in Export |-> PhaseOf(status[e])]' \in [Export -> Abstract!Phases]
    BY DEF Abstract!Phases, PhaseOf, IInv, TypeOK, Statuses
  <2> QED
    BY <2>1, <2>2 DEF Abstract!Next
<1> QED
  BY Invariance, <1>1, <1>2, PTL DEF Spec, ImplementsArtifacts, Abstract!Spec

=============================================================================
