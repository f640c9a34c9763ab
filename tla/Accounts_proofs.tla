-------------------------- MODULE Accounts_proofs --------------------------
(* Proofs about Accounts, for every set of users, sessions and handlers,   *)
(* any number of changes of a password, both modes, with and without       *)
(* faults and a restore.                                                   *)
EXTENDS Accounts, TLAPS

(* Where a request or the command is about a user that has a row.          *)
Busy == {"issue", "fetch", "profile", "update", "rotate", "record", "wipe", "anon"}

WhoInv ==
  /\ \A a \in Actor : pc[a] \in Busy => who[a] \in User /\ acct[who[a]] # "absent"
  /\ \A u \in todo : acct[u] # "absent"
  /\ pc[Cli] \in {"idle", "next", "wipe", "anon", "ok"}

(* A count that no commit has outdated still holds.                        *)
RegisterInv ==
  mode = "single_user" =>
    /\ OneFirstAdmin
    /\ \A h \in Handler : pc[h] = "insert" /\ h \notin stale => NoUser

Excused(s) ==
  \/ s \in late
  \/ owner[s] \in kept
  \/ \E h \in Handler : pc[h] = "rotate" /\ who[h] = owner[s]

(* OldSessionsEnd, of expired sessions as well.                            *)
OldInv ==
  \A s \in Session : owner[s] # None /\ Live(owner[s]) /\ cred[s] # password[owner[s]]
                       => Excused(s)

(* A dump is a state with no request under way.                            *)
DumpInv ==
  /\ \A u \in dump.admin \cup dump.personal \cup dump.requests : dump.acct[u] # "absent"
  /\ \A s \in Session : dump.owner[s] # None => dump.acct[dump.owner[s]] # "absent"
  /\ mode = "single_user" =>
       \A u, v \in User : dump.acct[u] = "live" /\ dump.acct[v] = "live"
                            => u = v /\ u \in dump.admin
  /\ \A u \in User : dump.acct[u] = "deleted"
                       => u \notin dump.personal /\ dump.password[u] = 0
  /\ \A s \in Session :
       /\ dump.owner[s] # None
       /\ dump.acct[dump.owner[s]] = "live"
       /\ dump.cred[s] # dump.password[dump.owner[s]]
       => s \in dump.late \/ dump.owner[s] \in dump.kept

(* What the command listed is done, still to do, in hand or failed.        *)
CommandInv ==
  /\ pc[Cli] \in {"next", "wipe", "anon"} /\ ~failures =>
       \A u \in listed : \/ acct[u] = "deleted"
                         \/ u \in todo
                         \/ pc[Cli] \in {"wipe", "anon"} /\ who[Cli] = u
  /\ ReprocessedAll

IInv ==
  /\ TypeOK
  /\ WhoInv
  /\ RegisterInv
  /\ DeletedIsErased
  /\ OldInv
  /\ DumpInv
  /\ CommandInv

-----------------------------------------------------------------------------
(* The tables as they are created.                                         *)
LEMMA EmptyDump == Empty \in Dump
<1> USE AccountsAssumption
<1> DEFINE acct0 == [u \in User |-> "absent"]
           password0 == [u \in User |-> 0]
           owner0 == [s \in Session |-> None]
           cred0 == [s \in Session |-> 0]
<1>1. /\ acct0 \in [User -> {"absent", "live", "deleted"}]
      /\ password0 \in [User -> Passwords]
      /\ owner0 \in [Session -> User \cup {None}]
      /\ cred0 \in [Session -> Passwords]
  BY DEF Passwords
<1>2. Empty = [acct |-> acct0, admin |-> {}, password |-> password0, personal |-> {},
               owner |-> owner0, cred |-> cred0, late |-> {}, requests |-> {},
               kept |-> {}]
  BY DEF Empty
<1> HIDE DEF acct0, password0, owner0, cred0
<1> QED
  BY <1>1, <1>2 DEF Dump

(* The invariant holds before the first registration.                      *)
LEMMA InitIInv == Init => IInv
<1> SUFFICES ASSUME Init PROVE IInv
  OBVIOUS
<1> USE AccountsAssumption
<1>1. dump \in Dump
  BY EmptyDump DEF Init
<1> USE DEF Init, Empty
<1>2. TypeOK
  <2>1. acct \in [User -> {"absent", "live", "deleted"}] /\ password \in [User -> Passwords]
    BY DEF Passwords
  <2>2. owner \in [Session -> User \cup {None}] /\ cred \in [Session -> Passwords]
    BY DEF Passwords
  <2>3. key \in [Actor -> Passwords] /\ who \in [Actor -> User \cup {None}]
    BY DEF Passwords
  <2>4. /\ pc \in [Actor -> {"idle", "insert", "issue", "fetch", "profile", "update",
                           "rotate", "record", "wipe", "anon", "next", "ok"}]
        /\ wiped \in [Actor -> SUBSET Session]
    OBVIOUS
  <2>5. /\ \A u \in admin \cup personal \cup requests : acct[u] # "absent"
        /\ \A s \in Session : owner[s] # None => acct[owner[s]] # "absent"
    OBVIOUS
  <2> HIDE DEF Empty
  <2> QED
    BY <1>1, <2>1, <2>2, <2>3, <2>4, <2>5 DEF TypeOK
<1>3. WhoInv /\ RegisterInv /\ DeletedIsErased /\ OldInv /\ CommandInv
  BY DEF WhoInv, Busy, RegisterInv, OneFirstAdmin, NoUser, Live, DeletedIsErased, OldInv,
         CommandInv, ReprocessedAll, Actor
<1>4. DumpInv
  BY DEF DumpInv
<1> QED
  BY <1>2, <1>3, <1>4 DEF IInv

(* A dump stays what it is.                                                *)
LEMMA DumpKeeps ==
  ASSUME DumpInv, UNCHANGED <<mode, dump>>
  PROVE  DumpInv'
BY DEF DumpInv

(* A registration: in mode single_user it is the only account.             *)
LEMMA RegisterKeeps ==
  ASSUME IInv, NEW h \in Handler, NEW u \in User,
         RegisterOpen(h, u) \/ RegisterCommit(h, u)
  PROVE  IInv'
<1> USE AccountsAssumption DEF IInv, TypeOK, Actor, Passwords, RegisterOpen, RegisterCommit,
        CreateUserWithPassword, Begin, Goto, sessionRows, command, operator
<1>1. TypeOK'
  OBVIOUS
<1>2. WhoInv'
  BY DEF WhoInv, Busy
<1>3. RegisterInv'
  BY DEF RegisterInv, OneFirstAdmin, NoUser, Live
<1>4. DeletedIsErased'
  BY DEF DeletedIsErased
<1>5. OldInv'
  BY DEF OldInv, Excused, Live
<1>6. CommandInv'
  BY DEF CommandInv, ReprocessedAll
<1> QED
  BY <1>1, <1>2, <1>3, <1>4, <1>5, <1>6, DumpKeeps

(* A request begins, having only read.                                     *)
LEMMA StartKeeps ==
  ASSUME IInv, NEW h \in Handler,
         \/ RegisterCount(h)
         \/ \E u \in User : LoginVerify(h, u)
         \/ \E s \in Session, p \in {"profile", "update", "record"} : Authenticated(h, s, p)
  PROVE  IInv'
<1> USE AccountsAssumption DEF IInv, TypeOK, Actor, Passwords, Begin, Goto, tables, userRows,
        sessionRows, command, operator
<1>1. CASE RegisterCount(h)
  BY <1>1, DumpKeeps DEF RegisterCount, WhoInv, Busy, RegisterInv, OneFirstAdmin, NoUser, Live,
     DeletedIsErased, OldInv, Excused, CommandInv, ReprocessedAll
<1>2. ASSUME NEW u \in User, LoginVerify(h, u) PROVE IInv'
  BY <1>2, DumpKeeps DEF LoginVerify, GetUserCredential, WhoInv, Busy, RegisterInv,
     OneFirstAdmin, NoUser, Live, DeletedIsErased, OldInv, Excused, CommandInv, ReprocessedAll
<1>3. ASSUME NEW s \in Session, NEW p \in {"profile", "update", "record"},
             Authenticated(h, s, p)
      PROVE  IInv'
  BY <1>3, DumpKeeps DEF Authenticated, GetSessionWithUser, Row, WhoInv, Busy, RegisterInv,
     OneFirstAdmin, NoUser, Live, DeletedIsErased, OldInv, Excused, CommandInv, ReprocessedAll
<1> QED
  BY <1>1, <1>2, <1>3

(* A handler goes on to its INSERT, or ends without a write.               *)
LEMMA ReadKeeps ==
  ASSUME IInv, NEW h \in Handler, RegisterClosed(h) \/ LoginFetch(h)
  PROVE  IInv'
<1> USE AccountsAssumption DEF IInv, TypeOK, Actor, Passwords, Finish, Goto, tables, userRows,
        sessionRows, command, operator
<1>1. CASE RegisterClosed(h)
  BY <1>1, DumpKeeps DEF RegisterClosed, WhoInv, Busy, RegisterInv, OneFirstAdmin, NoUser,
     Live, DeletedIsErased, OldInv, Excused, CommandInv, ReprocessedAll
<1>2. CASE LoginFetch(h)
  BY <1>2, DumpKeeps DEF LoginFetch, WhoInv, Busy, RegisterInv, OneFirstAdmin, NoUser, Live,
     DeletedIsErased, OldInv, Excused, CommandInv, ReprocessedAll
<1> QED
  BY <1>1, <1>2

(* A session issued on a replaced password is late, any other is current.  *)
LEMMA IssueKeeps ==
  ASSUME IInv, NEW h \in Handler, IssueSession(h)
  PROVE  IInv'
<1> USE AccountsAssumption DEF IInv, TypeOK, Actor, Passwords, IssueSession, Finish, Goto,
        userRows, command, operator
<1> PICK s \in Session : CreateSession(s, who[h], key[h])
  OBVIOUS
<1>1. who[h] \in User /\ acct[who[h]] # "absent"
  BY DEF WhoInv, Busy
<1>2. TypeOK'
  BY <1>1 DEF CreateSession
<1>3. WhoInv' /\ RegisterInv' /\ DeletedIsErased' /\ CommandInv'
  BY DEF WhoInv, Busy, RegisterInv, OneFirstAdmin, NoUser, Live, DeletedIsErased, CommandInv,
         ReprocessedAll
<1>4. OldInv'
  BY <1>1 DEF OldInv, Excused, Live, CreateSession, Row
<1> QED
  BY <1>2, <1>3, <1>4, DumpKeeps

(* Sessions go, and what excused the others stays.                         *)
LEMMA DeleteSessionsFacts ==
  ASSUME TypeOK, NEW S \in SUBSET Session, DeleteSessions(S)
  PROVE  /\ owner' \in [Session -> User \cup {None}]
         /\ cred' \in [Session -> Passwords]
         /\ late' \subseteq Session /\ expired' \subseteq Session
         /\ \A s \in S : owner'[s] = None
         /\ \A s \in Session \ S :
               owner'[s] = owner[s] /\ cred'[s] = cred[s] /\ (s \in late => s \in late')
<1> USE DEF TypeOK, DeleteSessions
<1>1. owner' \in [Session -> User \cup {None}]
  <2>1. \A s \in Session : owner[s] \in User \cup {None}
    OBVIOUS
  <2> QED
    BY <2>1
<1>2. cred' \in [Session -> Passwords]
  <2>1. 0 \in Passwords /\ \A s \in Session : cred[s] \in Passwords
    BY AccountsAssumption DEF Passwords
  <2> QED
    BY <2>1
<1>3. late' \subseteq Session /\ expired' \subseteq Session
  OBVIOUS
<1>4. \A s \in S : owner'[s] = None
  OBVIOUS
<1>5. \A s \in Session \ S :
      owner'[s] = owner[s] /\ cred'[s] = cred[s] /\ (s \in late => s \in late')
  OBVIOUS
<1> QED
  BY <1>1, <1>2, <1>3, <1>4, <1>5

(* A session is deleted by its token or by the hourly job, or expires.     *)
LEMMA SessionsEnd ==
  ASSUME IInv,
         \/ \E h \in Handler, s \in Session : Logout(h, s)
         \/ DeleteExpiredSessions
         \/ \E s \in Session : Expire(s)
  PROVE  IInv'
<1> USE AccountsAssumption DEF IInv, userRows, command, operator
<1>1. ASSUME NEW S \in SUBSET Session, DeleteSessions(S),
             UNCHANGED <<mode, userRows, requests, kept, pc, who, key, wiped, stale, command,
                         operator>>
      PROVE  IInv'
  <2> HIDE DEF IInv
  <2>0. /\ owner' \in [Session -> User \cup {None}]
        /\ cred' \in [Session -> Passwords]
        /\ late' \subseteq Session /\ expired' \subseteq Session
        /\ \A s \in S : owner'[s] = None
        /\ \A s \in Session \ S :
              owner'[s] = owner[s] /\ cred'[s] = cred[s] /\ (s \in late => s \in late')
    BY <1>1, DeleteSessionsFacts DEF IInv
  <2> USE DEF IInv
  <2>1. TypeOK'
    <3>1. \A s \in Session : owner'[s] # None => acct'[owner'[s]] # "absent"
      <4> TAKE s \in Session
      <4> QED
        BY <1>1, <2>0 DEF TypeOK
    <3>2. \A u \in admin' \cup personal' \cup requests' : acct'[u] # "absent"
      BY <1>1 DEF TypeOK
    <3> QED
      BY <1>1, <2>0, <3>1, <3>2 DEF TypeOK
  <2>2. WhoInv' /\ RegisterInv' /\ DeletedIsErased' /\ CommandInv'
    BY <1>1 DEF WhoInv, Busy, RegisterInv, OneFirstAdmin, NoUser, Live, DeletedIsErased,
           CommandInv, ReprocessedAll, Actor
  <2>3. OldInv'
    <3> SUFFICES ASSUME NEW s \in Session, owner'[s] # None, Live(owner[s])',
                        cred'[s] # password'[owner'[s]]
                 PROVE  Excused(s)'
      BY DEF OldInv
    <3>1. s \notin S
      BY <2>0
    <3>2. owner'[s] = owner[s] /\ cred'[s] = cred[s] /\ (s \in late => s \in late')
      BY <2>0, <3>1
    <3>3. Excused(s)
      BY <1>1, <3>2 DEF OldInv, Live
    <3> QED
      BY <1>1, <3>2, <3>3 DEF Excused
  <2> QED
    BY <1>1, <2>1, <2>2, <2>3, DumpKeeps
<1>2. ASSUME NEW s \in Session, Expire(s) PROVE IInv'
  BY <1>2, DumpKeeps DEF Expire, Row, TypeOK, WhoInv, Busy, RegisterInv, OneFirstAdmin, NoUser,
     Live, DeletedIsErased, OldInv, Excused, CommandInv, ReprocessedAll
<1>3. ASSUME NEW h \in Handler, NEW s \in Session, Logout(h, s) PROVE IInv'
  BY <1>1, <1>3 DEF Logout
<1>4. CASE DeleteExpiredSessions
  BY <1>1, <1>4 DEF DeleteExpiredSessions, TypeOK
<1> QED
  BY <1>2, <1>3, <1>4

(* handleUpdateProfile writes nothing to a deleted row.                    *)
LEMMA ProfileKeeps ==
  ASSUME IInv, NEW h \in Handler, WriteProfile(h)
  PROVE  IInv'
<1> USE AccountsAssumption DEF IInv, TypeOK, Actor, Passwords, WriteProfile, UpdateUser, Finish,
        Goto, sessionRows, command, operator
<1>1. who[h] \in User /\ acct[who[h]] # "absent"
  BY DEF WhoInv, Busy
<1>2. TypeOK'
  BY <1>1
<1>3. DeletedIsErased'
  BY <1>1 DEF DeletedIsErased, Live
<1>4. WhoInv' /\ RegisterInv' /\ CommandInv'
  BY DEF WhoInv, Busy, RegisterInv, OneFirstAdmin, NoUser, Live, CommandInv, ReprocessedAll
<1>5. OldInv'
  BY DEF OldInv, Excused, Live
<1> QED
  BY <1>2, <1>3, <1>4, <1>5, DumpKeeps

(* A new password, and the sessions it excuses until they are deleted.     *)
LEMMA ChangeKeeps ==
  ASSUME IInv, NEW h \in Handler, ChangeUpdate(h) \/ ChangeRotate(h)
  PROVE  IInv'
<1> USE AccountsAssumption DEF IInv, Goto, command, operator
<1>1. CASE ChangeUpdate(h)
  <2> USE <1>1 DEF ChangeUpdate, UpdateUserPassword, sessionRows
  <2>1. who[h] \in User /\ acct[who[h]] # "absent"
    BY DEF WhoInv, Busy, Actor
  <2>2. password[who[h]] + 1 \in Passwords
    BY <2>1 DEF TypeOK, Passwords
  <2>3. TypeOK'
    BY <2>1, <2>2 DEF TypeOK, Actor
  <2>4. DeletedIsErased'
    BY <2>1 DEF DeletedIsErased, Live, TypeOK
  <2>5. WhoInv' /\ RegisterInv' /\ CommandInv'
    BY DEF WhoInv, Busy, RegisterInv, OneFirstAdmin, NoUser, Live, CommandInv, ReprocessedAll,
           TypeOK, Actor
  <2>6. OldInv'
    BY DEF OldInv, Excused, Live, TypeOK, Actor
  <2> QED
    BY <2>3, <2>4, <2>5, <2>6, DumpKeeps
<1>2. CASE ChangeRotate(h)
  <2> USE <1>2 DEF ChangeRotate, DeleteSessionsForUser, userRows
  <2>0. who[h] \in User
    BY DEF WhoInv, Busy, Actor
  <2>1. /\ owner' \in [Session -> User \cup {None}]
        /\ cred' \in [Session -> Passwords]
        /\ late' \subseteq Session /\ expired' \subseteq Session
        /\ \A s \in SessionsOf(who[h]) : owner'[s] = None
        /\ \A s \in Session \ SessionsOf(who[h]) :
              owner'[s] = owner[s] /\ cred'[s] = cred[s] /\ (s \in late => s \in late')
    BY DeleteSessionsFacts DEF SessionsOf
  <2>2. \A s \in Session : owner'[s] # None =>
          /\ owner'[s] = owner[s] /\ owner[s] # who[h]
          /\ cred'[s] = cred[s] /\ (s \in late => s \in late')
    BY <2>1 DEF SessionsOf
  <2>3. TypeOK'
    BY <2>1, <2>2 DEF TypeOK, Actor
  <2>4. DeletedIsErased' /\ WhoInv' /\ RegisterInv' /\ CommandInv'
    BY DEF DeletedIsErased, WhoInv, Busy, RegisterInv, OneFirstAdmin, NoUser, Live, CommandInv,
           ReprocessedAll, TypeOK, Actor
  <2>5. OldInv'
    BY <2>2 DEF OldInv, Excused, Live, TypeOK, Actor
  <2> QED
    BY <2>3, <2>4, <2>5, DumpKeeps
<1> QED
  BY <1>1, <1>2

(* The request is recorded; a transaction takes hold of sessions.          *)
LEMMA DeletionStarts ==
  ASSUME IInv, NEW a \in Actor,
         \/ a \in Handler /\ CreateAccountDeletionRequest(a)
         \/ AnonymizeDelete(a)
  PROVE  IInv'
<1> USE AccountsAssumption DEF IInv, Goto, userRows, sessionRows, command, operator
<1>1. ASSUME a \in Handler, CreateAccountDeletionRequest(a) PROVE IInv'
  <2>1. who[a] \in User /\ acct[who[a]] # "absent"
    BY <1>1 DEF WhoInv, Busy, CreateAccountDeletionRequest
  <2> QED
    BY <1>1, <2>1, DumpKeeps DEF CreateAccountDeletionRequest, TypeOK, Actor, DeletedIsErased,
       WhoInv, Busy, RegisterInv, OneFirstAdmin, NoUser, Live, CommandInv, ReprocessedAll,
       OldInv, Excused
<1>2. CASE AnonymizeDelete(a)
  BY <1>2, DumpKeeps DEF AnonymizeDelete, SessionsOf, TypeOK, Actor, tables, DeletedIsErased,
     WhoInv, Busy, RegisterInv, OneFirstAdmin, NoUser, Live, CommandInv, ReprocessedAll,
     OldInv, Excused
<1> QED
  BY <1>1, <1>2

(* The user is erased, the sessions found are gone.                        *)
LEMMA DeletionEnds ==
  ASSUME IInv, NEW a \in Actor, AnonymizeCommit(a)
  PROVE  IInv'
<1> USE AccountsAssumption
    DEF IInv, AnonymizeCommit, AnonymizeUser, Goto, Finish, command, operator
<1>0. who[a] \in User /\ acct[who[a]] # "absent" /\ wiped[a] \in SUBSET Session
  BY DEF WhoInv, Busy, TypeOK
<1>1. /\ owner' \in [Session -> User \cup {None}]
      /\ cred' \in [Session -> Passwords]
      /\ late' \subseteq Session /\ expired' \subseteq Session
      /\ \A s \in wiped[a] : owner'[s] = None
      /\ \A s \in Session \ wiped[a] :
            owner'[s] = owner[s] /\ cred'[s] = cred[s] /\ (s \in late => s \in late')
  BY <1>0, DeleteSessionsFacts
<1>2. \A s \in Session : owner'[s] # None =>
        /\ owner'[s] = owner[s]
        /\ cred'[s] = cred[s] /\ (s \in late => s \in late')
  BY <1>1
<1>3. TypeOK'
  BY <1>0, <1>1, <1>2 DEF TypeOK, Actor, Passwords
<1>4. DeletedIsErased'
  BY <1>0 DEF DeletedIsErased, TypeOK
<1>5. WhoInv' /\ RegisterInv'
  BY <1>0 DEF WhoInv, Busy, RegisterInv, OneFirstAdmin, NoUser, Live, TypeOK, Actor
<1>6. CommandInv'
  BY <1>0 DEF CommandInv, ReprocessedAll, TypeOK, Actor
<1>7. OldInv'
  BY <1>0, <1>2 DEF OldInv, Excused, Live, TypeOK, Actor
<1> QED
  BY <1>3, <1>4, <1>5, <1>6, <1>7, DumpKeeps

(* The command lists, takes up, gives up and reports.                      *)
LEMMA CommandKeeps ==
  ASSUME IInv, List \/ (\E u \in User : Reprocess(u)) \/ ReprocessFails \/ ReprocessDone
  PROVE  IInv'
<1> USE AccountsAssumption DEF IInv, Goto, tables, userRows, sessionRows, operator
<1>1. CASE List
  <2>1. /\ todo' = {u \in requests : Live(u)} /\ listed' = todo' /\ failures' = FALSE
        /\ pc' = [pc EXCEPT ![Cli] = "next"]
        /\ UNCHANGED <<mode, tables, who, key, wiped, stale, operator>>
    BY <1>1 DEF List, ListUnprocessedDeletionRequests
  <2>2. TypeOK'
    <3>1. todo' \subseteq User /\ listed' \subseteq User /\ failures' \in BOOLEAN
      BY <2>1 DEF TypeOK
    <3>2. pc' \in [Actor -> {"idle", "insert", "issue", "fetch", "profile", "update",
                            "rotate", "record", "wipe", "anon", "next", "ok"}]
      BY <2>1 DEF TypeOK
    <3> QED
      BY <2>1, <3>1, <3>2 DEF TypeOK
  <2> USE DEF TypeOK, Actor, DeletedIsErased, WhoInv, Busy, RegisterInv, OneFirstAdmin, NoUser,
              Live, OldInv, Excused, CommandInv, ReprocessedAll
  <2>3. WhoInv' /\ RegisterInv' /\ DeletedIsErased' /\ OldInv'
    BY <2>1
  <2>4. CommandInv'
    BY <2>1
  <2> QED
    BY <2>1, <2>2, <2>3, <2>4, DumpKeeps
<1> USE DEF TypeOK, Actor, DeletedIsErased, WhoInv, Busy, RegisterInv, OneFirstAdmin, NoUser,
            Live, OldInv, Excused, CommandInv, ReprocessedAll, command
<1>2. ASSUME NEW u \in User, Reprocess(u) PROVE IInv'
  BY <1>2, DumpKeeps DEF Reprocess
<1>3. CASE ReprocessFails
  BY <1>3, DumpKeeps DEF ReprocessFails
<1>4. CASE ReprocessDone
  <2>1. TypeOK'
    BY <1>4 DEF ReprocessDone
  <2>2. WhoInv' /\ RegisterInv' /\ DeletedIsErased' /\ OldInv'
    BY <1>4 DEF ReprocessDone
  <2>3. CommandInv'
    BY <1>4 DEF ReprocessDone
  <2> QED
    BY <1>4, <2>1, <2>2, <2>3, DumpKeeps DEF ReprocessDone
<1> QED
  BY <1>1, <1>2, <1>3, <1>4

(* A request or the command ends early; what it left is remembered.        *)
LEMMA AbortKeeps ==
  ASSUME IInv, NEW a \in Actor, Abort(a)
  PROVE  IInv'
<1> USE AccountsAssumption DEF IInv, Abort, Finish, Goto, userRows, sessionRows, command,
        operator
<1>1. Unrotated({a}) \subseteq User /\ (pc[a] = "rotate" => who[a] \in Unrotated({a}))
  BY DEF Unrotated, WhoInv, Busy
<1>2. TypeOK'
  <2>1. kept' \subseteq User
    BY <1>1 DEF TypeOK
  <2>2. /\ pc' \in [Actor -> {"idle", "insert", "issue", "fetch", "profile", "update",
                            "rotate", "record", "wipe", "anon", "next", "ok"}]
        /\ who' \in [Actor -> User \cup {None}]
        /\ key' \in [Actor -> Passwords]
        /\ wiped' \in [Actor -> SUBSET Session]
        /\ stale' \subseteq Handler
    BY DEF TypeOK, Passwords
  <2> QED
    BY <2>1, <2>2 DEF TypeOK
<1>3. WhoInv' /\ DeletedIsErased' /\ RegisterInv' /\ CommandInv'
  BY DEF WhoInv, Busy, DeletedIsErased, RegisterInv, OneFirstAdmin, NoUser, Live, CommandInv,
         ReprocessedAll, TypeOK, Actor
<1>4. OldInv'
  BY <1>1 DEF OldInv, Excused, Live, TypeOK, Actor
<1> QED
  BY <1>2, <1>3, <1>4, DumpKeeps

(* What is committed is a state with no request under way: those at        *)
(* "rotate" are taken as broken off.                                       *)
LEMMA DumpTaken ==
  ASSUME IInv, TakeDump
  PROVE  IInv'
<1> USE AccountsAssumption DEF IInv, TakeDump, tables, userRows, sessionRows, command
<1> DEFINE left == kept \cup Unrotated(Handler)
<1>1. left \subseteq User
  BY DEF Unrotated, WhoInv, Busy, TypeOK, Actor
<1>2. \A h \in Handler : pc[h] = "rotate" => who[h] \in left
  BY DEF Unrotated
<1> HIDE DEF left
<1>3. dump' = [acct |-> acct, admin |-> admin, password |-> password,
               personal |-> personal, owner |-> owner, cred |-> cred, late |-> late,
               requests |-> requests, kept |-> left]
  BY DEF left
<1>4. TypeOK'
  <2>1. dump' \in Dump
    BY <1>1, <1>3 DEF TypeOK, Dump
  <2> QED
    BY <2>1 DEF TypeOK
<1>5. DumpInv'
  <2>1. \A s \in Session : owner[s] # None /\ Live(owner[s]) /\ cred[s] # password[owner[s]]
                             => s \in late \/ owner[s] \in left
    BY <1>2 DEF OldInv, Excused, left
  <2> QED
    BY <1>3, <2>1 DEF DumpInv, TypeOK, RegisterInv, OneFirstAdmin, Live, DeletedIsErased
<1>6. WhoInv' /\ RegisterInv' /\ DeletedIsErased' /\ OldInv' /\ CommandInv'
  BY DEF WhoInv, Busy, RegisterInv, OneFirstAdmin, NoUser, Live, DeletedIsErased, OldInv,
         Excused, CommandInv, ReprocessedAll
<1> QED
  BY <1>4, <1>5, <1>6

(* The tables are those of the dump, and nothing is under way.             *)
LEMMA DumpRestored ==
  ASSUME IInv, Restore
  PROVE  IInv'
<1> USE AccountsAssumption DEF IInv, Restore
<1> SUFFICES /\ TypeOK' /\ DumpInv'
             /\ WhoInv' /\ RegisterInv' /\ DeletedIsErased' /\ OldInv' /\ CommandInv'
  OBVIOUS
<1>1. /\ dump.acct \in [User -> {"absent", "live", "deleted"}]
      /\ dump.admin \subseteq User /\ dump.personal \subseteq User
      /\ dump.password \in [User -> Passwords]
      /\ dump.owner \in [Session -> User \cup {None}]
      /\ dump.cred \in [Session -> Passwords]
      /\ dump.late \subseteq Session
      /\ dump.requests \subseteq User /\ dump.kept \subseteq User
  BY DEF TypeOK, Dump
<1>2. dump' \in Dump /\ DumpInv'
  BY EmptyDump DEF Empty, DumpInv
<1>3. /\ pc' \in [Actor -> {"idle", "insert", "issue", "fetch", "profile", "update",
                          "rotate", "record", "wipe", "anon", "next", "ok"}]
      /\ who' \in [Actor -> User \cup {None}]
      /\ key' \in [Actor -> Passwords]
      /\ wiped' \in [Actor -> SUBSET Session]
  BY DEF Passwords
<1>4. TypeOK'
  BY <1>1, <1>2, <1>3 DEF TypeOK, DumpInv
<1>5. WhoInv' /\ CommandInv'
  BY DEF WhoInv, Busy, CommandInv, ReprocessedAll, Actor
<1>6. RegisterInv' /\ DeletedIsErased'
  BY DEF RegisterInv, OneFirstAdmin, NoUser, Live, DeletedIsErased, DumpInv, Actor
<1>7. OldInv'
  BY DEF OldInv, Excused, Live, DumpInv
<1> QED
  BY <1>2, <1>4, <1>5, <1>6, <1>7

-----------------------------------------------------------------------------
(* The invariant holds in every state of the specification.                *)
THEOREM Invariance == Spec => []IInv
<1>1. Init => IInv
  BY InitIInv
<1>2. IInv /\ [Next]_vars => IInv'
  <2> SUFFICES ASSUME IInv, [Next]_vars PROVE IInv'
    OBVIOUS
  <2>1. ASSUME NEW h \in Handler, RequestStart(h) PROVE IInv'
    BY <2>1, AccountsAssumption, RegisterKeeps, StartKeeps, SessionsEnd
       DEF RequestStart, UpdateProfile, ChangePassword, DeleteAccount
  <2>2. ASSUME NEW h \in Handler, RequestStep(h) PROVE IInv'
    BY <2>2, RegisterKeeps, ReadKeeps, IssueKeeps, ProfileKeeps, ChangeKeeps, DeletionStarts,
       DeletionEnds
       DEF RequestStep, Actor
  <2>3. CASE List \/ CommandStep
    BY <2>3, CommandKeeps, DeletionStarts, DeletionEnds DEF CommandStep, Actor
  <2>4. CASE DeleteExpiredSessions \/ \E s \in Session : Expire(s)
    BY <2>4, SessionsEnd
  <2>5. CASE \E a \in Actor : Abort(a)
    BY <2>5, AbortKeeps
  <2>6. CASE TakeDump
    BY <2>6, DumpTaken
  <2>7. CASE Restore
    BY <2>7, DumpRestored
  <2>8. CASE UNCHANGED vars
    BY <2>8, DumpKeeps
       DEF vars, tables, userRows, sessionRows, command, operator, IInv, TypeOK, WhoInv, Busy,
           RegisterInv, OneFirstAdmin, NoUser, Live, DeletedIsErased, OldInv, Excused,
           CommandInv, ReprocessedAll
  <2> QED
    BY <2>1, <2>2, <2>3, <2>4, <2>5, <2>6, <2>7, <2>8 DEF Next
<1> QED
  BY <1>1, <1>2, PTL DEF Spec

(* Every row of sessions, requests and personal data has its row of users. *)
THEOREM TypeCorrect == Spec => []TypeOK
  BY Invariance, PTL DEF IInv

(* However registrations overlap, a single-user instance has one account,  *)
(* its administrator, before and after a restore.                          *)
THEOREM OneAccount == Spec => []OneFirstAdmin
<1>1. IInv => OneFirstAdmin
  BY DEF IInv, RegisterInv, OneFirstAdmin
<1> QED
  BY <1>1, Invariance, PTL

(* No request writes personal data or a password to a deleted account.     *)
THEOREM Erased == Spec => []DeletedIsErased
  BY Invariance, PTL DEF IInv

(* A session on a replaced password outlives the change only where the     *)
(* change broke off or the session was issued after it.                    *)
THEOREM OldSessionsGone == Spec => []OldSessionsEnd
<1>1. IInv => OldSessionsEnd
  BY DEF IInv, OldInv, Excused, OldSessionsEnd, GetSessionWithUser, Row
<1> QED
  BY <1>1, Invariance, PTL

(* The command's success means that every deletion it listed is done.      *)
THEOREM Reprocessed == Spec => []ReprocessedAll
<1>1. IInv => ReprocessedAll
  BY DEF IInv, CommandInv
<1> QED
  BY <1>1, Invariance, PTL

=============================================================================
