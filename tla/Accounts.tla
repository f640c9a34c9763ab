------------------------------ MODULE Accounts ------------------------------
(***************************************************************************)
(* Accounts and sessions: the rows of users, sessions and                  *)
(* account_deletion_requests, the requests that register, log in and out,  *)
(* edit the profile, change the password and delete the account, the       *)
(* hourly removal of expired sessions, and the command                     *)
(* `zymo reprocess-deletions` an operator runs after restoring a dump.     *)
(*                                                                         *)
(* Every statement outside a transaction is one action; between two of     *)
(* them any other actor may run.  Deletion's transaction is two: its       *)
(* DELETEs, which hold the rows they found, and the UPDATE of the user     *)
(* with the commit.  What an operator named like a query does to the rows  *)
(* is what that query does.                                                *)
(*                                                                         *)
(* A password is the number of the change that set it, 0 is NULL.  The     *)
(* columns with personal data are there or not.  A session's id is free    *)
(* again once its row is deleted.  The mode is read from the environment   *)
(* at start; mode "closed" has no registration and is not modelled.        *)
(*                                                                         *)
(* An operator Mut... is the definition below it with a plausible mistake. *)
(* No action uses it; putting it in place shows that a property notices.   *)
(***************************************************************************)
EXTENDS Integers

CONSTANTS
  User,         \* ids of users rows; bounds how many are ever created
  OpenUser,     \* those an instance of mode open creates, a smaller bound
  Session,      \* ids of sessions rows; bounds how many are there at once
  Handler,      \* goroutines serving a request
  Cli,          \* the process of reprocess-deletions
  MaxPassword,  \* bounds the passwords an account ever has
  Faults,       \* TRUE: a statement may fail, a request or process end
  Restores,     \* TRUE: the operator may restore a dump
  None          \* no user, no row

ASSUME AccountsAssumption ==
  /\ None \notin User
  /\ OpenUser \subseteq User
  /\ Cli \notin Handler
  /\ MaxPassword \in Nat \ {0}
  /\ Faults \in BOOLEAN
  /\ Restores \in BOOLEAN

VARIABLES
  mode,      \* INSTANCE_MODE: open or single_user
  acct,      \* absent before the INSERT; deleted once deleted_at is set
  admin,     \* users with is_admin
  password,  \* users.password_hash
  personal,  \* users whose row holds personal data
  owner,     \* sessions.user_id, None where there is no row
  cred,      \* history: the password on which the session was issued
  late,      \* history: sessions issued on a password already replaced
  expired,   \* sessions whose expires_at has passed
  requests,  \* users with a row in account_deletion_requests
  kept,      \* history: users whose old sessions a broken-off change left
  pc,        \* where a request or the command stands
  who,       \* the user it is about
  key,       \* the password it verified or wrote
  wiped,     \* sessions its uncommitted DELETE holds
  stale,     \* registrations whose count another one has outdated
  todo,      \* users the command has still to anonymize
  listed,    \* users it listed
  failures,  \* one of them failed
  dump,      \* the dump an operator may restore
  phase,     \* none before it is taken, taken, restored
  undone     \* history: users that were deleted before the restore

Actor == Handler \cup {Cli}

userRows    == <<acct, admin, password, personal>>
sessionRows == <<owner, cred, late, expired>>
tables      == <<userRows, sessionRows, requests, kept>>
command     == <<todo, listed, failures>>
operator    == <<dump, phase, undone>>
vars == <<mode, tables, pc, who, key, wiped, stale, command, operator>>

Passwords == 0..MaxPassword
Dump == [acct     : [User -> {"absent", "live", "deleted"}],
         admin    : SUBSET User,
         password : [User -> Passwords],
         personal : SUBSET User,
         owner    : [Session -> User \cup {None}],
         cred     : [Session -> Passwords],
         late     : SUBSET Session,
         requests : SUBSET User,
         kept     : SUBSET User]

(* The whole state is well formed, and every row has its row of users. *)
TypeOK ==
  /\ mode \in {"open", "single_user"}
  /\ acct \in [User -> {"absent", "live", "deleted"}]
  /\ admin \subseteq User
  /\ password \in [User -> Passwords]
  /\ personal \subseteq User
  /\ owner \in [Session -> User \cup {None}]
  /\ cred \in [Session -> Passwords]
  /\ late \subseteq Session
  /\ expired \subseteq Session
  /\ requests \subseteq User
  /\ kept \subseteq User
  /\ pc \in [Actor -> {"idle", "insert", "issue", "fetch", "profile", "update",
                       "rotate", "record", "wipe", "anon", "next", "ok"}]
  /\ who \in [Actor -> User \cup {None}]
  /\ key \in [Actor -> Passwords]
  /\ wiped \in [Actor -> SUBSET Session]
  /\ stale \subseteq Handler
  /\ todo \subseteq User
  /\ listed \subseteq User
  /\ failures \in BOOLEAN
  /\ dump \in Dump
  /\ phase \in {"none", "taken", "restored"}
  /\ undone \subseteq User
  /\ \A u \in admin \cup personal \cup requests : acct[u] # "absent"
  /\ \A s \in Session : owner[s] # None => acct[owner[s]] # "absent"

Empty == [acct     |-> [u \in User |-> "absent"],
          admin    |-> {},
          password |-> [u \in User |-> 0],
          personal |-> {},
          owner    |-> [s \in Session |-> None],
          cred     |-> [s \in Session |-> 0],
          late     |-> {},
          requests |-> {},
          kept     |-> {}]

Init ==
  /\ mode \in {"open", "single_user"}
  /\ acct = Empty.acct
  /\ admin = {}
  /\ password = Empty.password
  /\ personal = {}
  /\ owner = Empty.owner
  /\ cred = Empty.cred
  /\ late = {}
  /\ expired = {}
  /\ requests = {}
  /\ kept = {}
  /\ pc = [a \in Actor |-> "idle"]
  /\ who = [a \in Actor |-> None]
  /\ key = [a \in Actor |-> 0]
  /\ wiped = [a \in Actor |-> {}]
  /\ stale = {}
  /\ todo = {}
  /\ listed = {}
  /\ failures = FALSE
  /\ dump = Empty
  /\ phase = "none"
  /\ undone = {}

-----------------------------------------------------------------------------
(* Queries                                                                 *)

Live(u) == acct[u] = "live"

Row(s) == owner[s] # None
SessionsOf(u) == {s \in Session : owner[s] = u}

(* A row an uncommitted DELETE holds: another DELETE of it waits. *)
Locked(s) == \E a \in Actor : s \in wiped[a]

NoUser == \A u \in User : ~Live(u)

(* WHERE email = $1 or username = $1, AND deleted_at IS NULL *)
GetUserCredential(u) == Live(u)

(* WHERE id = $1 AND deleted_at IS NULL *)
GetUserByID(u) == Live(u)

(* The session is there and has not expired, its user is not deleted. *)
GetSessionWithUser(s) == Row(s) /\ s \notin expired /\ Live(owner[s])

CreateUserWithPassword(u, isAdmin) ==
  /\ acct[u] = "absent"
  /\ acct' = [acct EXCEPT ![u] = "live"]
  /\ admin' = IF isAdmin THEN admin \cup {u} ELSE admin
  /\ password' = [password EXCEPT ![u] = 1]
  /\ personal' = personal \cup {u}

(* COALESCE of each field, WHERE id = $4 AND deleted_at IS NULL *)
UpdateUser(u) == personal' = IF Live(u) THEN personal \cup {u} ELSE personal

(* WHERE id = $2 AND deleted_at IS NULL *)
MutUpdatePasswordDeletedToo(u, p) == password' = [password EXCEPT ![u] = p]
UpdateUserPassword(u, p) ==
  password' = IF Live(u) THEN [password EXCEPT ![u] = p] ELSE password

(* The row's personal columns and its password go, is_admin stays. *)
MutAnonymizeDropsRow(u) ==
  /\ acct' = [acct EXCEPT ![u] = "absent"]
  /\ password' = [password EXCEPT ![u] = 0]
  /\ personal' = personal \ {u}
  /\ admin' = admin \ {u}
AnonymizeUser(u) ==
  /\ acct' = [acct EXCEPT ![u] = "deleted"]
  /\ password' = [password EXCEPT ![u] = 0]
  /\ personal' = personal \ {u}
  /\ UNCHANGED admin

(* INSERT, with the random token's hash; p is what the request goes by. *)
CreateSession(s, u, p) ==
  /\ ~Row(s)
  /\ owner' = [owner EXCEPT ![s] = u]
  /\ cred' = [cred EXCEPT ![s] = p]
  /\ late' = IF p = password[u] THEN late ELSE late \cup {s}
  /\ UNCHANGED expired

DeleteSessions(S) ==
  /\ owner' = [s \in Session |-> IF s \in S THEN None ELSE owner[s]]
  /\ cred' = [s \in Session |-> IF s \in S THEN 0 ELSE cred[s]]
  /\ late' = late \ S
  /\ expired' = expired \ S

(* WHERE user_id = $1, waiting for rows another transaction deletes *)
DeleteSessionsForUser(u) ==
  /\ \A s \in SessionsOf(u) : ~Locked(s)
  /\ DeleteSessions(SessionsOf(u))

ListUnprocessedDeletionRequests == {u \in requests : Live(u)}

-----------------------------------------------------------------------------
(* Requests                                                                *)

Goto(a, p) == pc' = [pc EXCEPT ![a] = p]

Begin(h, p, u, k) ==
  /\ pc[h] = "idle"
  /\ Goto(h, p)
  /\ who' = [who EXCEPT ![h] = u]
  /\ key' = [key EXCEPT ![h] = k]

Finish(a) ==
  /\ Goto(a, "idle")
  /\ who' = [who EXCEPT ![a] = None]
  /\ key' = [key EXCEPT ![a] = 0]
  /\ wiped' = [wiped EXCEPT ![a] = {}]
  /\ stale' = stale \ {a}

(* handleRegister in mode open: one INSERT, nobody becomes administrator. *)
RegisterOpen(h, u) ==
  /\ mode = "open"
  /\ CreateUserWithPassword(u, FALSE)
  /\ Begin(h, "issue", u, 1)
  /\ UNCHANGED <<mode, sessionRows, requests, kept, wiped, stale, command, operator>>

(* createRegistrationUser in mode single_user: the first statement of the  *)
(* SERIALIZABLE transaction counts no user.  Counting one answers 403.     *)
RegisterCount(h) ==
  /\ mode = "single_user"
  /\ NoUser
  /\ Begin(h, "insert", None, 0)
  /\ UNCHANGED <<mode, tables, wiped, stale, command, operator>>

(* The INSERT and the commit, which makes every other transaction that     *)
(* counted before it fail with 40001.                                      *)
MutReadCommitted(h, u) ==
  /\ pc[h] = "insert"
  /\ CreateUserWithPassword(u, TRUE)
  /\ Goto(h, "issue")
  /\ who' = [who EXCEPT ![h] = u]
  /\ key' = [key EXCEPT ![h] = 1]
  /\ UNCHANGED <<mode, sessionRows, requests, kept, wiped, stale, command, operator>>
RegisterCommit(h, u) ==
  /\ pc[h] = "insert"
  /\ h \notin stale
  /\ CreateUserWithPassword(u, TRUE)
  /\ stale' = stale \cup {g \in Handler \ {h} : pc[g] = "insert"}
  /\ Goto(h, "issue")
  /\ who' = [who EXCEPT ![h] = u]
  /\ key' = [key EXCEPT ![h] = 1]
  /\ UNCHANGED <<mode, sessionRows, requests, kept, wiped, command, operator>>

(* 40001 answers 403, registration closed. *)
RegisterClosed(h) ==
  /\ pc[h] = "insert"
  /\ h \in stale
  /\ Finish(h)
  /\ UNCHANGED <<mode, tables, command, operator>>

(* handleLogin: the credential is read and the password matches it. *)
LoginVerify(h, u) ==
  /\ GetUserCredential(u)
  /\ Begin(h, "fetch", u, password[u])
  /\ UNCHANGED <<mode, tables, wiped, stale, command, operator>>

(* GetUserByID; deleted meanwhile, the request answers 500. *)
LoginFetch(h) ==
  /\ pc[h] = "fetch"
  /\ \/ GetUserByID(who[h]) /\ Goto(h, "issue") /\ UNCHANGED <<who, key, wiped, stale>>
     \/ ~GetUserByID(who[h]) /\ Finish(h)
  /\ UNCHANGED <<mode, tables, command, operator>>

(* issueSession, the last statement of a registration, a login and a       *)
(* change of the password.                                                 *)
IssueSession(h) ==
  /\ pc[h] = "issue"
  /\ \E s \in Session : CreateSession(s, who[h], key[h])
  /\ Finish(h)
  /\ UNCHANGED <<mode, userRows, requests, kept, command, operator>>

(* handleLogout: whoever has the token deletes the session. *)
Logout(h, s) ==
  /\ pc[h] = "idle"
  /\ Row(s) /\ ~Locked(s)
  /\ DeleteSessions({s})
  /\ UNCHANGED <<mode, userRows, requests, kept, pc, who, key, wiped, stale, command, operator>>

(* authMiddleware loads the user of the session; the handler then checks   *)
(* the given password against that, where it asks for one.                 *)
Authenticated(h, s, p) ==
  /\ GetSessionWithUser(s)
  /\ Begin(h, p, owner[s], password[owner[s]])
  /\ UNCHANGED <<mode, tables, wiped, stale, command, operator>>

UpdateProfile(h, s)  == Authenticated(h, s, "profile")
ChangePassword(h, s) == Authenticated(h, s, "update")

(* An administrator is refused. *)
DeleteAccount(h, s) == owner[s] \notin admin /\ Authenticated(h, s, "record")

(* handleUpdateProfile's only statement. *)
WriteProfile(h) ==
  /\ pc[h] = "profile"
  /\ UpdateUser(who[h])
  /\ Finish(h)
  /\ UNCHANGED <<mode, acct, admin, password, sessionRows, requests, kept, command, operator>>

(* handleChangePassword: the new hash, then the sessions, then a new one. *)
MutChangeWithoutDelete(h) ==
  /\ pc[h] = "update"
  /\ password[who[h]] < MaxPassword
  /\ UpdateUserPassword(who[h], password[who[h]] + 1)
  /\ key' = [key EXCEPT ![h] = password[who[h]] + 1]
  /\ Goto(h, "issue")
  /\ UNCHANGED <<mode, acct, admin, personal, sessionRows, requests, kept, who,
                 wiped, stale, command, operator>>
ChangeUpdate(h) ==
  /\ pc[h] = "update"
  /\ password[who[h]] < MaxPassword
  /\ UpdateUserPassword(who[h], password[who[h]] + 1)
  /\ key' = [key EXCEPT ![h] = password[who[h]] + 1]
  /\ Goto(h, "rotate")
  /\ UNCHANGED <<mode, acct, admin, personal, sessionRows, requests, kept, who,
                 wiped, stale, command, operator>>

ChangeRotate(h) ==
  /\ pc[h] = "rotate"
  /\ DeleteSessionsForUser(who[h])
  /\ kept' = kept \ {who[h]}
  /\ Goto(h, "issue")
  /\ UNCHANGED <<mode, userRows, requests, who, key, wiped, stale, command, operator>>

(* handleDeleteAccount records the request in a statement of its own. *)
CreateAccountDeletionRequest(h) ==
  /\ pc[h] = "record"
  /\ requests' = requests \cup {who[h]}
  /\ Goto(h, "wipe")
  /\ UNCHANGED <<mode, userRows, sessionRows, kept, who, key, wiped, stale, command, operator>>

-----------------------------------------------------------------------------
(* account.Anonymize, called by the handler and by the command             *)

(* The DELETEs of the transaction, waiting for rows another one deletes. *)
AnonymizeDelete(a) ==
  /\ pc[a] = "wipe"
  /\ \A s \in SessionsOf(who[a]) : ~Locked(s)
  /\ wiped' = [wiped EXCEPT ![a] = SessionsOf(who[a])]
  /\ Goto(a, "anon")
  /\ UNCHANGED <<mode, tables, who, key, stale, command, operator>>

(* AnonymizeUser and the commit. *)
AnonymizeCommit(a) ==
  /\ pc[a] = "anon"
  /\ AnonymizeUser(who[a])
  /\ DeleteSessions(wiped[a])
  /\ IF a = Cli
     THEN /\ Goto(a, "next")
          /\ wiped' = [wiped EXCEPT ![a] = {}]
          /\ UNCHANGED <<who, key, stale>>
     ELSE Finish(a)
  /\ UNCHANGED <<mode, requests, kept, command, operator>>

-----------------------------------------------------------------------------
(* zymo reprocess-deletions                                                *)

List ==
  /\ pc[Cli] \in {"idle", "ok"}
  /\ todo' = ListUnprocessedDeletionRequests
  /\ listed' = todo'
  /\ failures' = FALSE
  /\ Goto(Cli, "next")
  /\ UNCHANGED <<mode, tables, who, key, wiped, stale, operator>>

Reprocess(u) ==
  /\ pc[Cli] = "next"
  /\ u \in todo
  /\ todo' = todo \ {u}
  /\ who' = [who EXCEPT ![Cli] = u]
  /\ Goto(Cli, "wipe")
  /\ UNCHANGED <<mode, tables, key, wiped, stale, listed, failures, operator>>

(* It goes on with the next one and reports the failure at the end. *)
MutForgetFailure ==
  /\ Faults
  /\ pc[Cli] \in {"wipe", "anon"}
  /\ wiped' = [wiped EXCEPT ![Cli] = {}]
  /\ Goto(Cli, "next")
  /\ UNCHANGED <<mode, tables, who, key, stale, todo, listed, failures, operator>>
ReprocessFails ==
  /\ Faults
  /\ pc[Cli] \in {"wipe", "anon"}
  /\ failures' = TRUE
  /\ wiped' = [wiped EXCEPT ![Cli] = {}]
  /\ Goto(Cli, "next")
  /\ UNCHANGED <<mode, tables, who, key, stale, todo, listed, operator>>

(* It exits, with status 0 if nothing failed: "ok". *)
ReprocessDone ==
  /\ pc[Cli] = "next"
  /\ todo = {}
  /\ Goto(Cli, IF failures THEN "idle" ELSE "ok")
  /\ who' = [who EXCEPT ![Cli] = None]
  /\ UNCHANGED <<mode, tables, key, wiped, stale, command, operator>>

-----------------------------------------------------------------------------
(* The hourly job, time, faults and the operator                           *)

(* WHERE expires_at < now(), waiting for rows another transaction deletes *)
DeleteExpiredSessions ==
  /\ \A s \in expired : ~Locked(s)
  /\ DeleteSessions(expired)
  /\ UNCHANGED <<mode, userRows, requests, kept, pc, who, key, wiped, stale, command, operator>>

Expire(s) ==
  /\ Row(s)
  /\ s \notin expired
  /\ expired' = expired \cup {s}
  /\ UNCHANGED <<mode, userRows, owner, cred, late, requests, kept, pc, who, key,
                 wiped, stale, command, operator>>

(* Users whose change of the password would end without deleting sessions. *)
Unrotated(A) == {who[a] : a \in {b \in A : pc[b] = "rotate"}}

(* A statement fails, the client goes away or the process dies: the        *)
(* handler returns, a transaction rolls back.                              *)
Abort(a) ==
  /\ Faults
  /\ pc[a] \notin {"idle", "ok"}
  /\ Finish(a)
  /\ kept' = kept \cup Unrotated({a})
  /\ UNCHANGED <<mode, userRows, sessionRows, requests, command, operator>>

(* pg_dump sees one snapshot of what is committed. *)
TakeDump ==
  /\ Restores
  /\ phase = "none"
  /\ phase' = "taken"
  /\ dump' = [acct |-> acct, admin |-> admin, password |-> password,
              personal |-> personal, owner |-> owner, cred |-> cred, late |-> late,
              requests |-> requests, kept |-> kept \cup Unrotated(Handler)]
  /\ UNCHANGED <<mode, tables, pc, who, key, wiped, stale, command, undone>>

(* Every table is again what it was, with the server down. *)
Restore ==
  /\ phase = "taken"
  /\ phase' = "restored"
  /\ acct' = dump.acct
  /\ admin' = dump.admin
  /\ password' = dump.password
  /\ personal' = dump.personal
  /\ owner' = dump.owner
  /\ cred' = dump.cred
  /\ late' = dump.late
  /\ expired' = {s \in expired : dump.owner[s] # None}
  /\ requests' = dump.requests
  /\ kept' = dump.kept
  /\ dump' = Empty
  /\ undone' = {u \in User : acct[u] = "deleted"}
  /\ pc' = [a \in Actor |-> "idle"]
  /\ who' = [a \in Actor |-> None]
  /\ key' = [a \in Actor |-> 0]
  /\ wiped' = [a \in Actor |-> {}]
  /\ stale' = {}
  /\ todo' = {}
  /\ listed' = {}
  /\ failures' = FALSE
  /\ UNCHANGED mode

-----------------------------------------------------------------------------
RequestStart(h) ==
  \/ \E u \in OpenUser : RegisterOpen(h, u)
  \/ \E u \in User : LoginVerify(h, u)
  \/ RegisterCount(h)
  \/ \E s \in Session :
       Logout(h, s) \/ UpdateProfile(h, s) \/ ChangePassword(h, s) \/ DeleteAccount(h, s)

RequestStep(h) ==
  \/ \E u \in User : RegisterCommit(h, u)
  \/ RegisterClosed(h)
  \/ LoginFetch(h)
  \/ IssueSession(h)
  \/ WriteProfile(h)
  \/ ChangeUpdate(h)
  \/ ChangeRotate(h)
  \/ CreateAccountDeletionRequest(h)
  \/ AnonymizeDelete(h)
  \/ AnonymizeCommit(h)

CommandStep ==
  \/ \E u \in User : Reprocess(u)
  \/ ReprocessFails
  \/ ReprocessDone
  \/ AnonymizeDelete(Cli)
  \/ AnonymizeCommit(Cli)

Next ==
  \/ \E h \in Handler : RequestStart(h) \/ RequestStep(h)
  \/ List
  \/ CommandStep
  \/ DeleteExpiredSessions
  \/ \E s \in Session : Expire(s)
  \/ \E a \in Actor : Abort(a)
  \/ TakeDump
  \/ Restore

Spec == Init /\ [][Next]_vars

-----------------------------------------------------------------------------
(* Properties                                                              *)

(* "This closes a TOCTOU where two concurrent bootstraps both observe      *)
(* count=0": however registrations overlap, a single-user instance has one *)
(* account, its administrator.                                             *)
OneFirstAdmin ==
  mode = "single_user" =>
    \A u, v \in User : Live(u) /\ Live(v) => u = v /\ u \in admin

(* What a deletion erased stays erased, though requests that loaded the    *)
(* user before it write to the row after it.                               *)
DeletedIsErased ==
  \A u \in User : acct[u] = "deleted" => u \notin personal /\ password[u] = 0

(* "Rotate all sessions": when an account's password has been changed, the *)
(* sessions issued before are gone, except where the change has still to   *)
(* delete them or broke off before it did.  A session on the old password  *)
(* is otherwise one issued after the change, by a request that had read    *)
(* the old one.                                                            *)
OldSessionsEnd ==
  \A s \in Session :
    GetSessionWithUser(s) /\ cred[s] # password[owner[s]] =>
      \/ s \in late
      \/ owner[s] \in kept
      \/ \E h \in Handler : pc[h] = "rotate" /\ who[h] = owner[s]

(* When reprocess-deletions reports success, every account whose deletion  *)
(* it found undone is deleted, whatever else ran meanwhile.                *)
ReprocessedAll == pc[Cli] = "ok" => \A u \in listed : acct[u] = "deleted"

(* "If an admin restores a pre-deletion backup", the deletion is found and *)
(* done again: the command leaves no account live that had been deleted.   *)
(* It does not hold: account_deletion_requests is a table of the dump.     *)
DeletionSurvivesRestore ==
  pc[Cli] = "ok" => \A u \in undone : acct[u] = "deleted"

=============================================================================
