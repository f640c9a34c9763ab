---------------------------- MODULE EmailChange ----------------------------
(***************************************************************************)
(* The verified change of an account's address: the rows of                *)
(* email_change_requests, the request that initiates a change and mails    *)
(* the two links, the links that confirm and cancel it, the hourly removal *)
(* of expired rows, and the deletion of the account, which takes its rows  *)
(* with it.                                                                *)
(*                                                                         *)
(* Every statement is one action, and so is the mailing.  Ids of rows are  *)
(* given in the order of the INSERTs.  A link is known to somebody once    *)
(* the relay may have taken the mail.  What an operator named like a query *)
(* does to the rows is what that query does.  Sessions, passwords and the  *)
(* limit on initiations are those of Accounts and RateLimit.               *)
(*                                                                         *)
(* An operator Mut... is the definition below it with a plausible mistake. *)
(* No action uses it; putting it in place shows that a property notices.   *)
(***************************************************************************)
EXTENDS Integers

CONSTANTS
  User,        \* accounts
  Email,       \* addresses
  FirstEmail,  \* the address each account starts with
  MaxRequest,  \* bounds the rows ever created
  Handler,     \* goroutines serving a request
  Faults,      \* TRUE: a statement or a mail may fail, a request or process end
  None         \* no user, no address

ASSUME EmailChangeAssumption ==
  /\ None \notin User \cup Email
  /\ FirstEmail \in [User -> Email]
  /\ \A u, v \in User : FirstEmail[u] = FirstEmail[v] => u = v
  /\ MaxRequest \in Nat
  /\ Faults \in BOOLEAN

VARIABLES
  email,    \* users.email, None once it is the placeholder of a deleted account
  created,  \* the rows created so far are 1..created
  owner,    \* email_change_requests.user_id, None where there is no row
  new,      \* new_email
  expired,  \* rows whose expires_at has passed
  links,    \* rows whose confirm link was mailed
  notices,  \* rows whose cancel link was mailed
  asker,    \* history: the user a row was created for, deleted or not
  base,     \* history: the rows there had been when its request cleared the old ones
  pc,       \* where a request stands
  who,      \* the user it is about
  addr,     \* the address it is about
  row,      \* the row it created or read, 0 for none
  seen      \* history: the rows created when it read its row, or cleared the others

rows    == <<created, owner, new, expired>>
mail    == <<links, notices>>
history == <<asker, base>>
request == <<pc, who, addr, row, seen>>
vars == <<email, rows, mail, history, request>>

Request == 1..MaxRequest

(* The whole state is well formed; a row has a user and an address. *)
TypeOK ==
  /\ email \in [User -> Email \cup {None}]
  /\ created \in 0..MaxRequest
  /\ owner \in [Request -> User \cup {None}]
  /\ new \in [Request -> Email \cup {None}]
  /\ expired \subseteq Request
  /\ links \subseteq Request
  /\ notices \subseteq Request
  /\ asker \in [Request -> User \cup {None}]
  /\ base \in [Request -> 0..MaxRequest]
  /\ pc \in [Handler -> {"idle", "clear", "create", "mail", "rollback", "apply",
                         "cleanup", "cancel"}]
  /\ who \in [Handler -> User \cup {None}]
  /\ addr \in [Handler -> Email \cup {None}]
  /\ row \in [Handler -> 0..MaxRequest]
  /\ seen \in [Handler -> 0..MaxRequest]
  /\ \A r \in Request : owner[r] # None => r <= created /\ new[r] # None
  /\ \A r \in expired \cup links \cup notices : owner[r] # None

Init ==
  /\ email = FirstEmail
  /\ created = 0
  /\ owner = [r \in Request |-> None]
  /\ new = [r \in Request |-> None]
  /\ expired = {}
  /\ links = {}
  /\ notices = {}
  /\ asker = [r \in Request |-> None]
  /\ base = [r \in Request |-> 0]
  /\ pc = [h \in Handler |-> "idle"]
  /\ who = [h \in Handler |-> None]
  /\ addr = [h \in Handler |-> None]
  /\ row = [h \in Handler |-> 0]
  /\ seen = [h \in Handler |-> 0]

-----------------------------------------------------------------------------
(* Queries                                                                 *)

Live(u) == email[u] # None
Taken(e) == \E u \in User : email[u] = e

Delete(R) ==
  /\ owner' = [r \in Request |-> IF r \in R THEN None ELSE owner[r]]
  /\ new' = [r \in Request |-> IF r \in R THEN None ELSE new[r]]
  /\ expired' = expired \ R
  /\ links' = links \ R
  /\ notices' = notices \ R
  /\ UNCHANGED created

DeleteEmailChangeRequest(r) == Delete({r})

(* WHERE user_id = $1 *)
MutDeleteUnmailed(u) == Delete({r \in Request : owner[r] = u /\ r \notin links})
DeleteEmailChangeRequestsForUser(u) == Delete({r \in Request : owner[r] = u})

(* WHERE expires_at < now() *)
MutDeleteExpiredOfLive == Delete({r \in expired : Live(owner[r])})
DeleteExpired == Delete(expired)

(* Both links find a row that is there and has not expired. *)
GetEmailChangeRequestByConfirmHash(r) == owner[r] # None /\ r \notin expired
GetEmailChangeRequestByCancelHash(r)  == owner[r] # None /\ r \notin expired

CreateEmailChangeRequest(r, u, e) ==
  /\ created' = r
  /\ owner' = [owner EXCEPT ![r] = u]
  /\ new' = [new EXCEPT ![r] = e]
  /\ UNCHANGED expired

-----------------------------------------------------------------------------
(* handleChangeEmail                                                       *)

Begin(h, p, u, e, r, n) ==
  /\ pc[h] = "idle"
  /\ pc' = [pc EXCEPT ![h] = p]
  /\ who' = [who EXCEPT ![h] = u]
  /\ addr' = [addr EXCEPT ![h] = e]
  /\ row' = [row EXCEPT ![h] = r]
  /\ seen' = [seen EXCEPT ![h] = n]

Finish(h) ==
  /\ pc' = [pc EXCEPT ![h] = "idle"]
  /\ who' = [who EXCEPT ![h] = None]
  /\ addr' = [addr EXCEPT ![h] = None]
  /\ row' = [row EXCEPT ![h] = 0]
  /\ seen' = [seen EXCEPT ![h] = 0]

(* The session's user gave the password; the address is another one, and   *)
(* nobody's at the moment.  Otherwise the request answers 4xx.             *)
Initiate(h, u, e) ==
  /\ Live(u)
  /\ e # email[u]
  /\ ~Taken(e)
  /\ Begin(h, "clear", u, e, 0, 0)
  /\ UNCHANGED <<email, rows, mail, history>>

(* "One active change at a time - drop any prior pending request first." *)
Clear(h) ==
  /\ pc[h] = "clear"
  /\ DeleteEmailChangeRequestsForUser(who[h])
  /\ seen' = [seen EXCEPT ![h] = created]
  /\ pc' = [pc EXCEPT ![h] = "create"]
  /\ UNCHANGED <<email, history, who, addr, row>>

Create(h) ==
  /\ pc[h] = "create"
  /\ created < MaxRequest
  /\ LET r == created + 1
     IN /\ CreateEmailChangeRequest(r, who[h], addr[h])
        /\ asker' = [asker EXCEPT ![r] = who[h]]
        /\ base' = [base EXCEPT ![r] = seen[h]]
        /\ row' = [row EXCEPT ![h] = r]
  /\ addr' = [addr EXCEPT ![h] = None]
  /\ seen' = [seen EXCEPT ![h] = 0]
  /\ pc' = [pc EXCEPT ![h] = "mail"]
  /\ UNCHANGED <<email, mail, who>>

(* The link to the new address, and the notice to the old one, whose       *)
(* failure is only logged.  A row deleted meanwhile makes them useless.    *)
SendLinks(h) ==
  /\ pc[h] = "mail"
  /\ LET R == IF owner[row[h]] = None THEN {} ELSE {row[h]}
     IN /\ links' = links \cup R
        /\ \/ notices' = notices \cup R
           \/ Faults /\ UNCHANGED notices
  /\ Finish(h)
  /\ UNCHANGED <<email, rows, history>>

(* The relay reports an error, although it may have taken the mail. *)
SendFails(h) ==
  /\ Faults
  /\ pc[h] = "mail"
  /\ \/ links' = links \cup (IF owner[row[h]] = None THEN {} ELSE {row[h]})
     \/ UNCHANGED links
  /\ pc' = [pc EXCEPT ![h] = "rollback"]
  /\ UNCHANGED <<email, rows, notices, history, who, addr, row, seen>>

Rollback(h) ==
  /\ pc[h] = "rollback"
  /\ DeleteEmailChangeRequest(row[h])
  /\ Finish(h)
  /\ UNCHANGED <<email, history>>

-----------------------------------------------------------------------------
(* handleConfirmEmailChange                                                *)

ConfirmRead(h, r) ==
  /\ r \in links
  /\ GetEmailChangeRequestByConfirmHash(r)
  /\ Begin(h, "apply", owner[r], new[r], r, created)
  /\ UNCHANGED <<email, rows, mail, history>>

(* UpdateUserEmail, WHERE deleted_at IS NULL: a deleted account is an      *)
(* error, an address that is another account's a conflict, and both leave  *)
(* the row.                                                                *)
MutUpdateDeleted(h) ==
  /\ pc[h] = "apply"
  /\ \A u \in User \ {who[h]} : email[u] # addr[h]
  /\ email' = [email EXCEPT ![who[h]] = addr[h]]
  /\ pc' = [pc EXCEPT ![h] = "cleanup"]
  /\ addr' = [addr EXCEPT ![h] = None]
  /\ seen' = [seen EXCEPT ![h] = 0]
  /\ UNCHANGED <<who, row, rows, mail, history>>
UpdateUserEmail(h) ==
  /\ pc[h] = "apply"
  /\ \/ /\ Live(who[h])
        /\ \A u \in User \ {who[h]} : email[u] # addr[h]
        /\ email' = [email EXCEPT ![who[h]] = addr[h]]
        /\ pc' = [pc EXCEPT ![h] = "cleanup"]
        /\ addr' = [addr EXCEPT ![h] = None]
        /\ seen' = [seen EXCEPT ![h] = 0]
        /\ UNCHANGED <<who, row>>
     \/ /\ ~Live(who[h]) \/ \E u \in User \ {who[h]} : email[u] = addr[h]
        /\ Finish(h)
        /\ UNCHANGED email
  /\ UNCHANGED <<rows, mail, history>>

Cleanup(h) ==
  /\ pc[h] = "cleanup"
  /\ DeleteEmailChangeRequest(row[h])
  /\ Finish(h)
  /\ UNCHANGED <<email, history>>

-----------------------------------------------------------------------------
(* handleCancelEmailChange                                                 *)

CancelRead(h, r) ==
  /\ r \in notices
  /\ GetEmailChangeRequestByCancelHash(r)
  /\ Begin(h, "cancel", owner[r], None, r, 0)
  /\ UNCHANGED <<email, rows, mail, history>>

Cancel(h) ==
  /\ pc[h] = "cancel"
  /\ DeleteEmailChangeRequest(row[h])
  /\ Finish(h)
  /\ UNCHANGED <<email, history>>

-----------------------------------------------------------------------------
(* The account's deletion, the hourly job, time and faults                 *)

(* account.Anonymize commits: the rows it found go, and the address.  One  *)
(* inserted after its DELETE stays.                                        *)
Anonymize(u) ==
  /\ Live(u)
  /\ \/ DeleteEmailChangeRequestsForUser(u)
     \/ \E r \in Request :
          /\ r = created /\ owner[r] = u
          /\ Delete({q \in Request \ {r} : owner[q] = u})
  /\ email' = [email EXCEPT ![u] = None]
  /\ UNCHANGED <<history, request>>

DeleteExpiredEmailChangeRequests ==
  /\ DeleteExpired
  /\ UNCHANGED <<email, history, request>>

Expire(r) ==
  /\ owner[r] # None
  /\ r \notin expired
  /\ expired' = expired \cup {r}
  /\ UNCHANGED <<email, created, owner, new, mail, history, request>>

(* A statement fails, the client goes away or the process dies. *)
Abort(h) ==
  /\ Faults
  /\ pc[h] # "idle"
  /\ Finish(h)
  /\ UNCHANGED <<email, rows, mail, history>>

-----------------------------------------------------------------------------
RequestStart(h) ==
  \/ \E u \in User, e \in Email : Initiate(h, u, e)
  \/ \E r \in Request : ConfirmRead(h, r) \/ CancelRead(h, r)

RequestStep(h) ==
  \/ Clear(h)
  \/ Create(h)
  \/ SendLinks(h)
  \/ SendFails(h)
  \/ Rollback(h)
  \/ UpdateUserEmail(h)
  \/ Cleanup(h)
  \/ Cancel(h)

Next ==
  \/ \E h \in Handler : RequestStart(h) \/ RequestStep(h) \/ Abort(h)
  \/ \E u \in User : Anonymize(u)
  \/ DeleteExpiredEmailChangeRequests
  \/ \E r \in Request : Expire(r)

Spec == Init /\ [][Next]_vars

(* A request goes on, time passes, and River runs its hourly job. *)
Fairness ==
  /\ \A h \in Handler : WF_vars(RequestStep(h) \/ Abort(h))
  /\ \A r \in Request : WF_vars(Expire(r))
  /\ WF_vars(DeleteExpiredEmailChangeRequests)

FairSpec == Spec /\ Fairness

-----------------------------------------------------------------------------
(* Properties                                                              *)

(* "One active change at a time": of two changes a user asks for one after *)
(* the other, only the second's link still works, whatever failed between. *)
(* A confirmation that read the first row before the second was created,   *)
(* and requests that overlapped when they created their rows, are beyond   *)
(* that promise.                                                           *)
OnlyNewestLinkWorks ==
  \A h \in Handler :
    pc[h] = "apply" =>
      \A r \in Request :
        r > row[h] /\ asker[r] = who[h] => r > seen[h] \/ base[r] < row[h]

\* Deleted, without a row, and without a request that may still insert one.
Forgotten(u) ==
  /\ ~Live(u)
  /\ \A r \in Request : owner[r] # u
  /\ \A h \in Handler : who[h] = u => pc[h] \notin {"clear", "create"}

(* What was forgotten stays so: a confirmation that read its row before    *)
(* the account was deleted, or before the row went, gives the account no   *)
(* address again, and no request inserts a row for it.                     *)
StaysForgotten == [][\A u \in User : Forgotten(u) => Forgotten(u)']_vars

(* The addresses of a deleted account are forgotten: no confirmation gives *)
(* it one again, and its rows end, also those of requests that were still  *)
(* running when it was deleted.                                            *)
AddressesForgotten ==
  \A u \in User : ~Live(u) ~> [](~Live(u) /\ \A r \in Request : owner[r] # u)

=============================================================================
