------------------------- MODULE EmailChange_proofs -------------------------
(* Proofs about EmailChange, for every set of accounts, addresses and      *)
(* handlers, any number of requests, with and without faults.              *)
EXTENDS EmailChange, TLAPS

(* What a request stands on at each of its steps.                          *)
RequestInv ==
  \A h \in Handler :
    /\ pc[h] \in {"clear", "create"} => who[h] \in User /\ addr[h] \in Email
    /\ pc[h] \in {"mail", "rollback", "cleanup", "cancel"} => row[h] \in Request
    /\ pc[h] = "apply" => who[h] \in User /\ addr[h] \in Email /\ row[h] \in Request
    /\ pc[h] \in {"create", "apply"} => seen[h] <= created

(* A row that is there is its asker's, and no request that asked later     *)
(* than its creation has created another: that one would have cleared it.  *)
RowInv ==
  /\ \A r \in Request : r > created => asker[r] = None
  /\ \A r \in Request : owner[r] # None => owner[r] = asker[r]
  /\ \A q, r \in Request : owner[q] # None /\ r > q /\ asker[r] = owner[q] => base[r] < q

(* A request about to create its row has cleared those it saw.             *)
ClearedInv ==
  \A h \in Handler, q \in Request : pc[h] = "create" /\ owner[q] = who[h] => seen[h] < q

IInv ==
  /\ TypeOK
  /\ RequestInv
  /\ RowInv
  /\ ClearedInv
  /\ OnlyNewestLinkWorks

(* No row has been created yet.                                            *)
LEMMA InitIInv == Init => IInv
  BY EmailChangeAssumption
     DEF Init, IInv, TypeOK, Request, RequestInv, RowInv, ClearedInv, OnlyNewestLinkWorks

(* A DELETE leaves the other rows as they are.                             *)
LEMMA DeleteFacts ==
  ASSUME TypeOK, NEW R \in SUBSET Request, Delete(R)
  PROVE  /\ owner' \in [Request -> User \cup {None}]
         /\ new' \in [Request -> Email \cup {None}]
         /\ expired' \subseteq Request /\ links' \subseteq Request /\ notices' \subseteq Request
         /\ created' = created
         /\ \A r \in Request : owner'[r] # None => owner'[r] = owner[r] /\ new'[r] = new[r]
         /\ \A r \in expired' \cup links' \cup notices' : owner'[r] # None
<1> USE EmailChangeAssumption DEF TypeOK, Delete
<1>1. owner' \in [Request -> User \cup {None}]
  <2>1. \A r \in Request : owner[r] \in User \cup {None}
    OBVIOUS
  <2> QED
    BY <2>1
<1>2. new' \in [Request -> Email \cup {None}]
  <2>1. \A r \in Request : new[r] \in Email \cup {None}
    OBVIOUS
  <2> QED
    BY <2>1
<1>3. expired' \subseteq Request /\ links' \subseteq Request /\ notices' \subseteq Request
  OBVIOUS
<1>4. \A r \in Request : owner'[r] # None => owner'[r] = owner[r] /\ new'[r] = new[r]
  OBVIOUS
<1>5. \A r \in expired' \cup links' \cup notices' : owner'[r] # None
  OBVIOUS
<1> QED
  BY <1>1, <1>2, <1>3, <1>4, <1>5

(* Requests end or stay where they are.                                    *)
Idling ==
  /\ pc' \in [Handler -> {"idle", "clear", "create", "mail", "rollback", "apply",
                         "cleanup", "cancel"}]
  /\ who' \in [Handler -> User \cup {None}]
  /\ addr' \in [Handler -> Email \cup {None}]
  /\ row' \in [Handler -> 0..MaxRequest]
  /\ seen' \in [Handler -> 0..MaxRequest]
  /\ \A h \in Handler :
       \/ pc'[h] = "idle"
       \/ /\ pc'[h] = pc[h] /\ who'[h] = who[h] /\ addr'[h] = addr[h]
          /\ row'[h] = row[h] /\ seen'[h] = seen[h]

(* One of them returns.                                                    *)
LEMMA FinishIdles ==
  ASSUME TypeOK, (\E h \in Handler : Finish(h)) \/ UNCHANGED request
  PROVE  Idling
<1> USE EmailChangeAssumption DEF TypeOK, Idling
<1>1. CASE UNCHANGED request
  BY <1>1 DEF request
<1>2. ASSUME NEW h \in Handler, Finish(h) PROVE Idling
  BY <1>2 DEF Finish
<1> QED
  BY <1>1, <1>2

(* Rows go: nothing that holds of the rows that are there is disturbed.    *)
LEMMA DeleteKeeps ==
  ASSUME IInv, NEW R \in SUBSET Request, Delete(R), UNCHANGED history,
         email' \in [User -> Email \cup {None}],
         (\E h \in Handler : Finish(h)) \/ UNCHANGED request
  PROVE  IInv'
<1> USE EmailChangeAssumption DEF IInv, history, request
<1>1. /\ owner' \in [Request -> User \cup {None}]
      /\ new' \in [Request -> Email \cup {None}]
      /\ expired' \subseteq Request /\ links' \subseteq Request /\ notices' \subseteq Request
      /\ created' = created
      /\ \A r \in Request : owner'[r] # None => owner'[r] = owner[r] /\ new'[r] = new[r]
      /\ \A r \in expired' \cup links' \cup notices' : owner'[r] # None
  BY DeleteFacts
<1>2. Idling
  BY FinishIdles
<1>3. TypeOK'
  BY <1>1, <1>2 DEF TypeOK, Idling
<1>4. RequestInv' /\ OnlyNewestLinkWorks'
  BY <1>1, <1>2 DEF RequestInv, OnlyNewestLinkWorks, Idling
<1>5. RowInv'
  BY <1>1 DEF RowInv
<1>6. ClearedInv'
  <2> SUFFICES ASSUME NEW h \in Handler, NEW q \in Request,
                      pc'[h] = "create", owner'[q] = who'[h]
               PROVE  seen'[h] < q
    BY DEF ClearedInv
  <2>1. pc[h] = "create" /\ who'[h] = who[h] /\ seen'[h] = seen[h] /\ who[h] \in User
    BY <1>2 DEF RequestInv, Idling
  <2>2. owner[q] = who[h]
    BY <1>1, <2>1
  <2> QED
    BY <2>1, <2>2 DEF ClearedInv
<1> QED
  BY <1>3, <1>4, <1>5, <1>6

(* A request reads a row, or an address nobody has.                        *)
LEMMA StartKeeps ==
  ASSUME IInv, NEW h \in Handler,
         \/ \E u \in User, e \in Email : Initiate(h, u, e)
         \/ \E r \in Request : ConfirmRead(h, r) \/ CancelRead(h, r)
  PROVE  IInv'
<1> USE EmailChangeAssumption DEF IInv, TypeOK, Begin, rows, mail, history
<1>1. ASSUME NEW u \in User, NEW e \in Email, Initiate(h, u, e) PROVE IInv'
  BY <1>1 DEF Initiate, RequestInv, RowInv, ClearedInv, OnlyNewestLinkWorks
<1>2. ASSUME NEW r \in Request, ConfirmRead(h, r) PROVE IInv'
  <2> USE <1>2 DEF ConfirmRead, GetEmailChangeRequestByConfirmHash
  <2>1. owner[r] \in User /\ new[r] \in Email /\ r <= created /\ owner[r] = asker[r]
    BY DEF RowInv
  <2>2. TypeOK'
    BY <2>1 DEF Request
  <2>3. RequestInv'
    BY <2>1 DEF RequestInv
  <2>4. RowInv' /\ ClearedInv'
    BY DEF RowInv, ClearedInv
  <2>5. \A q \in Request : q > r /\ asker[q] = owner[r] => q > created \/ base[q] < r
    BY DEF RowInv
  <2>6. OnlyNewestLinkWorks'
    BY <2>5 DEF OnlyNewestLinkWorks
  <2> QED
    BY <2>2, <2>3, <2>4, <2>6
<1>3. ASSUME NEW r \in Request, CancelRead(h, r) PROVE IInv'
  BY <1>3 DEF CancelRead, GetEmailChangeRequestByCancelHash, RequestInv, RowInv, ClearedInv,
     OnlyNewestLinkWorks, Request
<1> QED
  BY <1>1, <1>2, <1>3

(* The rows of before go, and then the new one comes.                      *)
LEMMA InitiateKeeps ==
  ASSUME IInv, NEW h \in Handler, Clear(h) \/ Create(h)
  PROVE  IInv'
<1> USE EmailChangeAssumption DEF IInv, history, mail
<1>1. CASE Clear(h)
  <2> USE <1>1 DEF Clear, DeleteEmailChangeRequestsForUser
  <2> DEFINE R == {r \in Request : owner[r] = who[h]}
  <2>1. /\ owner' \in [Request -> User \cup {None}]
        /\ new' \in [Request -> Email \cup {None}]
        /\ expired' \subseteq Request /\ links' \subseteq Request /\ notices' \subseteq Request
        /\ created' = created
        /\ \A r \in Request : owner'[r] # None => owner'[r] = owner[r] /\ new'[r] = new[r]
        /\ \A r \in expired' \cup links' \cup notices' : owner'[r] # None
    BY DeleteFacts
  <2>2. TypeOK'
    BY <2>1 DEF TypeOK
  <2>3. RequestInv' /\ RowInv' /\ OnlyNewestLinkWorks'
    BY <2>1 DEF RequestInv, RowInv, OnlyNewestLinkWorks, TypeOK
  <2>4. who[h] \in User /\ \A r \in Request : owner'[r] # who[h]
    BY DEF Delete, RequestInv
  <2>5. ClearedInv'
    BY <2>1, <2>4 DEF ClearedInv, RequestInv, TypeOK
  <2> QED
    BY <2>2, <2>3, <2>5
<1>2. CASE Create(h)
  <2> USE <1>2 DEF Create, CreateEmailChangeRequest, TypeOK
  <2> DEFINE r == created + 1
  <2>1. /\ r \in Request /\ r > created /\ who[h] \in User /\ addr[h] \in Email
        /\ seen[h] \in 0..MaxRequest /\ owner[r] = None
    BY DEF Request, RequestInv
  <2> HIDE DEF r
  <2>2. /\ created' = r
        /\ owner' = [owner EXCEPT ![r] = who[h]] /\ new' = [new EXCEPT ![r] = addr[h]]
        /\ asker' = [asker EXCEPT ![r] = who[h]] /\ base' = [base EXCEPT ![r] = seen[h]]
        /\ row' = [row EXCEPT ![h] = r] /\ seen' = [seen EXCEPT ![h] = 0]
        /\ pc' = [pc EXCEPT ![h] = "mail"] /\ addr' = [addr EXCEPT ![h] = None]
        /\ UNCHANGED <<email, expired, mail, who>>
    BY DEF r
  <2>3. r \in 0..MaxRequest /\ created < r /\ \A q \in Request : q > r => q > created
    BY <2>1 DEF Request
  <2>4. TypeOK'
    BY <2>1, <2>2, <2>3
  <2>5. RequestInv' /\ OnlyNewestLinkWorks'
    BY <2>1, <2>2, <2>3 DEF RequestInv, OnlyNewestLinkWorks, Request
  <2>6. RowInv'
    <3>1. \A q \in Request : q > created' => asker'[q] = None
      BY <2>1, <2>2, <2>3 DEF RowInv
    <3>2. \A q \in Request : owner'[q] # None => owner'[q] = asker'[q]
      BY <2>1, <2>2 DEF RowInv
    <3>3. ASSUME NEW q \in Request, NEW p \in Request,
                 owner'[q] # None, p > q, asker'[p] = owner'[q]
          PROVE  base'[p] < q
      <4>1. CASE p = r
        <5>1. q # r /\ owner[q] = who[h]
          BY <2>1, <2>2, <3>3, <4>1 DEF Request
        <5> QED
          BY <2>1, <2>2, <4>1, <5>1 DEF ClearedInv
      <4>2. CASE p # r
        <5>1. asker[p] = owner'[q] /\ base'[p] = base[p]
          BY <2>2, <3>3, <4>2
        <5>2. q # r
          BY <2>1, <2>3, <3>3, <5>1 DEF RowInv
        <5> QED
          BY <2>2, <3>3, <5>1, <5>2 DEF RowInv
      <4> QED
        BY <4>1, <4>2
    <3> QED
      BY <3>1, <3>2, <3>3 DEF RowInv
  <2>7. ClearedInv'
    BY <2>1, <2>2, <2>3 DEF ClearedInv, RequestInv, Request
  <2> QED
    BY <2>4, <2>5, <2>6, <2>7
<1> QED
  BY <1>1, <1>2

(* The links are mailed, or the relay reports an error.                    *)
LEMMA MailKeeps ==
  ASSUME IInv, NEW h \in Handler, SendLinks(h) \/ SendFails(h)
  PROVE  IInv'
<1> USE EmailChangeAssumption DEF IInv, rows, history
<1> DEFINE R == IF owner[row[h]] = None THEN {} ELSE {row[h]}
<1>1. R \subseteq Request /\ \A r \in R : owner[r] # None
  BY DEF SendLinks, SendFails, RequestInv
<1> HIDE DEF R
<1>2. CASE SendLinks(h)
  <2>1. /\ links' = links \cup R /\ notices' \in {notices, notices \cup R}
        /\ Finish(h) /\ UNCHANGED <<email, rows, history>>
    BY <1>2 DEF SendLinks, R
  <2>2. Idling
    BY <2>1, FinishIdles
  <2>3. TypeOK'
    BY <1>1, <2>1, <2>2 DEF TypeOK, Idling
  <2> QED
    BY <2>1, <2>2, <2>3 DEF Idling, RequestInv, RowInv, ClearedInv, OnlyNewestLinkWorks
<1>3. CASE SendFails(h)
  <2>1. /\ links' \in {links, links \cup R} /\ pc' = [pc EXCEPT ![h] = "rollback"]
        /\ UNCHANGED <<email, rows, notices, history, who, addr, row, seen>> /\ pc[h] = "mail"
    BY <1>3 DEF SendFails, R
  <2>2. TypeOK'
    BY <1>1, <2>1 DEF TypeOK
  <2> QED
    BY <2>1, <2>2 DEF TypeOK, RequestInv, RowInv, ClearedInv, OnlyNewestLinkWorks
<1> QED
  BY <1>2, <1>3

(* A confirmation changes the address, or is refused; a request ends.      *)
LEMMA ApplyKeeps ==
  ASSUME IInv, NEW h \in Handler, UpdateUserEmail(h) \/ Abort(h)
  PROVE  IInv'
<1> USE EmailChangeAssumption DEF IInv, rows, mail, history
<1>1. ASSUME Finish(h), UNCHANGED <<email, rows, mail, history>> PROVE IInv'
  <2>1. Idling
    BY <1>1, FinishIdles
  <2>2. TypeOK'
    BY <1>1, <2>1 DEF TypeOK, Idling
  <2> QED
    BY <1>1, <2>1, <2>2 DEF Idling, RequestInv, RowInv, ClearedInv, OnlyNewestLinkWorks
<1>2. ASSUME pc[h] = "apply",
             email' = [email EXCEPT ![who[h]] = addr[h]],
             pc' = [pc EXCEPT ![h] = "cleanup"],
             addr' = [addr EXCEPT ![h] = None],
             seen' = [seen EXCEPT ![h] = 0],
             UNCHANGED <<who, row, rows, mail, history>>
      PROVE  IInv'
  <2>1. who[h] \in User /\ addr[h] \in Email /\ row[h] \in Request
    BY <1>2 DEF RequestInv
  <2>2. TypeOK'
    BY <1>2, <2>1 DEF TypeOK
  <2> QED
    BY <1>2, <2>1, <2>2 DEF TypeOK, RequestInv, RowInv, ClearedInv, OnlyNewestLinkWorks
<1> QED
  BY <1>1, <1>2 DEF UpdateUserEmail, Abort

-----------------------------------------------------------------------------
(* The invariant holds in every state of the specification.                *)
THEOREM Invariance == Spec => []IInv
<1>1. Init => IInv
  BY InitIInv
<1>2. IInv /\ [Next]_vars => IInv'
  <2> SUFFICES ASSUME IInv, [Next]_vars PROVE IInv'
    OBVIOUS
  <2>1. IInv => TypeOK /\ RequestInv
    BY DEF IInv
  <2>2. ASSUME NEW h \in Handler, RequestStart(h) PROVE IInv'
    BY <2>2, StartKeeps DEF RequestStart
  <2>3. ASSUME NEW h \in Handler, NEW R \in SUBSET Request, Delete(R), Finish(h),
               UNCHANGED <<email, history>>
        PROVE  IInv'
    BY <2>1, <2>3, DeleteKeeps DEF TypeOK
  <2>4. ASSUME NEW h \in Handler, Rollback(h) \/ Cleanup(h) \/ Cancel(h) PROVE IInv'
    <3>1. row[h] \in Request
      BY <2>1, <2>4 DEF Rollback, Cleanup, Cancel, RequestInv
    <3>2. Delete({row[h]}) /\ Finish(h) /\ UNCHANGED <<email, history>>
      BY <2>4 DEF Rollback, Cleanup, Cancel, DeleteEmailChangeRequest
    <3> QED
      BY <2>3, <3>1, <3>2
  <2>5. ASSUME NEW h \in Handler,
               Clear(h) \/ Create(h) \/ SendLinks(h) \/ SendFails(h) \/ UpdateUserEmail(h)
                 \/ Abort(h)
        PROVE  IInv'
    BY <2>5, InitiateKeeps, MailKeeps, ApplyKeeps
  <2>6. ASSUME NEW u \in User, Anonymize(u) PROVE IInv'
    <3>1. PICK R \in SUBSET Request : Delete(R)
      BY <2>6 DEF Anonymize, DeleteEmailChangeRequestsForUser
    <3>2. email' \in [User -> Email \cup {None}]
      BY <2>1, <2>6 DEF Anonymize, TypeOK
    <3> QED
      BY <2>6, <3>1, <3>2, DeleteKeeps DEF Anonymize
  <2>7. CASE DeleteExpiredEmailChangeRequests
    BY <2>1, <2>7, DeleteKeeps DEF DeleteExpiredEmailChangeRequests, DeleteExpired, TypeOK
  <2>8. ASSUME NEW r \in Request, Expire(r) PROVE IInv'
    BY <2>8 DEF Expire, mail, history, request, IInv, TypeOK, RequestInv, RowInv, ClearedInv,
                OnlyNewestLinkWorks
  <2>9. CASE UNCHANGED vars
    BY <2>9 DEF vars, rows, mail, history, request, IInv, TypeOK, RequestInv, RowInv,
                ClearedInv, OnlyNewestLinkWorks
  <2> QED
    BY <2>2, <2>4, <2>5, <2>6, <2>7, <2>8, <2>9 DEF Next, RequestStep
<1> QED
  BY <1>1, <1>2, PTL DEF Spec

(* Every row has a user and an address.                                    *)
THEOREM TypeCorrect == Spec => []TypeOK
  BY Invariance, PTL DEF IInv

(* Of two changes a user asks for one after the other, only the second's   *)
(* link works.                                                             *)
THEOREM NewestLinkOnly == Spec => []OnlyNewestLinkWorks
  BY Invariance, PTL DEF IInv

-----------------------------------------------------------------------------
(* The safety half of AddressesForgotten                                   *)

(* A step that sets no address of a deleted account, gives no row to it    *)
(* and starts no request of it keeps it forgotten.                         *)
LEMMA ForgottenKeeps ==
  ASSUME NEW u \in User, Forgotten(u),
         email'[u] = email[u],
         \A r \in Request : owner'[r] = u => owner[r] = u,
         \A h \in Handler :
           who'[h] = u /\ pc'[h] \in {"clear", "create"} =>
             who[h] = u /\ pc[h] \in {"clear", "create"}
  PROVE  Forgotten(u)'
BY DEF Forgotten, Live

(* Every step keeps a forgotten account forgotten.                         *)
LEMMA StepForgets ==
  ASSUME TypeOK, [Next]_vars, NEW u \in User, Forgotten(u)
  PROVE  Forgotten(u)'
<1> USE EmailChangeAssumption DEF rows, mail, history, request, TypeOK
<1> DEFINE SameEmail == email'[u] = email[u]
           NoNewRow  == \A r \in Request : owner'[r] = u => owner[r] = u
           NoNewTask == \A g \in Handler :
                          who'[g] = u /\ pc'[g] \in {"clear", "create"} =>
                            who[g] = u /\ pc[g] \in {"clear", "create"}
<1>1. ASSUME NEW R \in SUBSET Request, Delete(R) PROVE NoNewRow
  BY <1>1 DEF Delete
<1>2. ASSUME NEW h \in Handler, Finish(h) PROVE NoNewTask
  BY <1>2 DEF Finish
<1>3. CASE UNCHANGED vars
  BY <1>3, ForgottenKeeps DEF vars
<1>4. ASSUME NEW h \in Handler, RequestStart(h) PROVE Forgotten(u)'
  <2>1. SameEmail /\ NoNewRow
    BY <1>4 DEF RequestStart, Initiate, ConfirmRead, CancelRead
  <2>2. NoNewTask
    <3>1. ASSUME NEW v \in User, NEW e \in Email, Initiate(h, v, e) PROVE NoNewTask
      <4>1. v # u
        BY <3>1 DEF Initiate, Forgotten
      <4> QED
        BY <3>1, <4>1 DEF Initiate, Begin
    <3>2. ASSUME NEW r \in Request, ConfirmRead(h, r) \/ CancelRead(h, r) PROVE NoNewTask
      BY <3>2 DEF ConfirmRead, CancelRead, Begin
    <3> QED
      BY <1>4, <3>1, <3>2 DEF RequestStart
  <2> QED
    BY <2>1, <2>2, ForgottenKeeps
<1>5. ASSUME NEW h \in Handler, Clear(h) PROVE Forgotten(u)'
  <2>1. SameEmail /\ NoNewRow
    BY <1>5, <1>1 DEF Clear, DeleteEmailChangeRequestsForUser
  <2>2. NoNewTask
    BY <1>5 DEF Clear
  <2> QED
    BY <2>1, <2>2, ForgottenKeeps
<1>6. ASSUME NEW h \in Handler, Create(h) PROVE Forgotten(u)'
  <2>1. who[h] # u
    BY <1>6 DEF Create, Forgotten
  <2>2. SameEmail /\ NoNewRow /\ NoNewTask
    BY <1>6, <2>1 DEF Create, CreateEmailChangeRequest
  <2> QED
    BY <2>2, ForgottenKeeps
<1>7. ASSUME NEW h \in Handler, SendLinks(h) \/ SendFails(h) PROVE Forgotten(u)'
  <2>1. SameEmail /\ NoNewRow
    BY <1>7 DEF SendLinks, SendFails
  <2>2. NoNewTask
    BY <1>7, <1>2 DEF SendLinks, SendFails
  <2> QED
    BY <2>1, <2>2, ForgottenKeeps
<1>8. ASSUME NEW h \in Handler, Rollback(h) \/ Cleanup(h) \/ Cancel(h) PROVE Forgotten(u)'
  <2>1. Delete({row[h]}) /\ Finish(h) /\ SameEmail
    BY <1>8 DEF Rollback, Cleanup, Cancel, DeleteEmailChangeRequest
  <2>2. NoNewRow
    BY <2>1 DEF Delete
  <2> QED
    BY <2>1, <2>2, <1>2, ForgottenKeeps
<1>9. ASSUME NEW h \in Handler, UpdateUserEmail(h) PROVE Forgotten(u)'
  <2>1. NoNewRow /\ NoNewTask
    BY <1>9, <1>2 DEF UpdateUserEmail
  <2>2. SameEmail
    BY <1>9 DEF UpdateUserEmail, Forgotten
  <2> QED
    BY <2>1, <2>2, ForgottenKeeps
<1>10. ASSUME NEW h \in Handler, Abort(h) PROVE Forgotten(u)'
  BY <1>10, <1>2, ForgottenKeeps DEF Abort
<1>11. ASSUME NEW v \in User, Anonymize(v) PROVE Forgotten(u)'
  <2>1. v # u
    BY <1>11 DEF Anonymize, Forgotten
  <2>2. NoNewRow
    BY <1>11, <1>1 DEF Anonymize, DeleteEmailChangeRequestsForUser
  <2> QED
    BY <1>11, <2>1, <2>2, ForgottenKeeps DEF Anonymize
<1>12. CASE DeleteExpiredEmailChangeRequests
  BY <1>12, <1>1, ForgottenKeeps DEF DeleteExpiredEmailChangeRequests, DeleteExpired
<1>13. ASSUME NEW r \in Request, Expire(r) PROVE Forgotten(u)'
  BY <1>13, ForgottenKeeps DEF Expire
<1> QED
  BY <1>3, <1>4, <1>5, <1>6, <1>7, <1>8, <1>9, <1>10, <1>11, <1>12, <1>13
     DEF Next, RequestStep

(* A deleted account that is forgotten is never remembered again, whatever *)
(* links were still about when it was deleted.                             *)
THEOREM ForgottenForGood == Spec => StaysForgotten
<1>1. TypeOK /\ [Next]_vars => [\A u \in User : Forgotten(u) => Forgotten(u)']_vars
  BY StepForgets
<1> QED
  BY <1>1, TypeCorrect, PTL DEF Spec, StaysForgotten

=============================================================================
