----------------------------- MODULE Reminders -----------------------------
(***************************************************************************)
(* The reminders of one batch: the recipe's reminder templates, the rows   *)
(* of reminders materialized from them or created by hand, the requests    *)
(* that create, patch and delete the batch, its events, its reminders and  *)
(* the templates, and the River ticks that claim due reminders and write   *)
(* their notifications.  The events also advance the batch's stage.        *)
(*                                                                         *)
(* No handler here opens a transaction: each SQL statement is one action,  *)
(* and anything may happen between two of them.  INSERT ... SELECT is two, *)
(* because it reads its snapshot before its rows become visible.           *)
(*                                                                         *)
(* Left out: titles, notes and other texts, bottled_at, event rows (only   *)
(* what a write of one triggers), and the delivery channels behind a       *)
(* notification (push, Apprise, mail), which change none of this state.    *)
(*                                                                         *)
(* An operator Mut... is the definition below it with a plausible mistake. *)
(* No action uses it; putting it in place shows that a property notices.   *)
(***************************************************************************)
EXTENDS FiniteSets, Functions, Integers

CONSTANTS
  Reminder,    \* ids of reminders rows; bounds how many are ever created
  Template,    \* ids of recipe_reminder_templates rows, likewise
  Handler,     \* goroutines serving a request
  Tick,        \* River jobs running reminderDispatchWorker.Work
  Kind,        \* the event kinds that occur, out of pitch, rack and bottle
  StageInput,  \* the stages a request may set
  AnchorTime,  \* started_at and occurred_at values
  Offset,      \* offset_minutes values
  ManualTime,  \* fire_at values given by hand
  MaxTime,     \* bounds the clock
  MaxEpisode,  \* bounds how often one reminder becomes scheduled
  ClaimLimit,  \* LIMIT of ClaimDueReminders, reminderClaimBatch (100)
  Faults,      \* TRUE: the process may crash, a tick may run out of time, a
               \* statement may fail
  None         \* no value

Stages == {"planning", "primary", "secondary", "aging", "bottled", "archived"}

ASSUME RemindersAssumption ==
  /\ IsFiniteSet(Reminder)
  /\ Kind \subseteq {"pitch", "rack", "bottle"}
  /\ StageInput \subseteq Stages
  /\ AnchorTime \subseteq Int /\ Offset \subseteq Int /\ ManualTime \subseteq Int
  /\ MaxTime \in Nat /\ MaxEpisode \in Nat
  /\ ClaimLimit \in Nat \ {0}
  /\ Faults \in BOOLEAN
  /\ None \notin Int \cup Template \cup Stages

VARIABLES
  batch,     \* the batch: none yet, plain (without recipe), brewed (with), gone
  stage,     \* batches.stage
  started,   \* batches.started_at
  anchor,    \* templates' anchor; "none" before the INSERT, "gone" after the DELETE
  offset,    \* templates' offset_minutes
  status,    \* reminders' status; "absent" before the INSERT, "gone" after the DELETE
  tmpl,      \* reminders' template_id
  fireAt,    \* reminders' fire_at
  episode,   \* history: how often the reminder has become scheduled
  notes,     \* the notifications written for a reminder, by episode
  now,       \* the clock
  due,       \* the claimed reminders a tick has still to notify, with the episode
  hpc,       \* where a request stands
  hanchor,   \* the anchor a request materializes
  hat,       \* the anchor time it materializes with
  hstage,    \* the stage it read from the batch
  hsnap,     \* the snapshot of its INSERT ... SELECT
  moved,     \* history: scheduled reminders moved by hand, or whose template
             \* changed, since they were last anchored
  reopened   \* history: reminders patched out of dismissed or cancelled

batchVars    == <<batch, stage, started>>
templateVars == <<anchor, offset>>
rowVars      == <<status, tmpl, fireAt, episode>>
requestVars  == <<hpc, hanchor, hat, hstage, hsnap>>
history      == <<moved, reopened>>
vars == <<batchVars, templateVars, rowVars, notes, now, due, requestVars, history>>

Anchors  == {"batch_start", "pitch", "rack", "bottle"}
Statuses == {"absent", "scheduled", "fired", "completed", "snoozed",
             "dismissed", "cancelled", "gone"}

(* The whole state is well formed. *)
TypeOK ==
  /\ batch \in {"none", "plain", "brewed", "gone"}
  /\ stage \in Stages
  /\ started \in AnchorTime \cup {None}
  /\ anchor \in [Template -> Anchors \cup {"none", "gone"}]
  /\ offset \in [Template -> Int]
  /\ status \in [Reminder -> Statuses]
  /\ tmpl \in [Reminder -> Template \cup {None}]
  /\ fireAt \in [Reminder -> Int]
  /\ episode \in [Reminder -> Nat]
  /\ notes \in [Reminder -> SUBSET Nat]
  /\ now \in Nat
  /\ due \in [Tick -> SUBSET (Reminder \X Nat)]
  /\ hpc \in [Handler -> {"idle", "event", "reanchor", "select", "insert",
                          "advance"}]
  /\ hanchor \in [Handler -> Anchors]
  /\ hat \in [Handler -> Int]
  /\ hstage \in [Handler -> Stages]
  /\ hsnap \in [Handler -> SUBSET [t : Template, off : Int]]
  /\ moved \subseteq Reminder
  /\ reopened \subseteq Reminder

Init ==
  /\ batch = "none"
  /\ stage = "planning"
  /\ started = None
  /\ anchor = [t \in Template |-> "none"]
  /\ offset = [t \in Template |-> 0]
  /\ status = [r \in Reminder |-> "absent"]
  /\ tmpl = [r \in Reminder |-> None]
  /\ fireAt = [r \in Reminder |-> 0]
  /\ episode = [r \in Reminder |-> 0]
  /\ notes = [r \in Reminder |-> {}]
  /\ now = 0
  /\ due = [w \in Tick |-> {}]
  /\ hpc = [h \in Handler |-> "idle"]
  /\ hanchor = [h \in Handler |-> "batch_start"]
  /\ hat = [h \in Handler |-> 0]
  /\ hstage = [h \in Handler |-> "planning"]
  /\ hsnap = [h \in Handler |-> {}]
  /\ moved = {}
  /\ reopened = {}

-----------------------------------------------------------------------------
(* Rows                                                                    *)

Live      == {"plain", "brewed"}
Stored(r) == status[r] \notin {"absent", "gone"}

(* r.status NOT IN ('cancelled', 'dismissed'): the row keeps its template  *)
(* from being materialized again.                                          *)
Active(r) == Stored(r) /\ status[r] \notin {"cancelled", "dismissed"}

RowsOf(t) == {r \in Reminder : tmpl[r] = t /\ Stored(r)}

(* The templates MaterializeReminderTemplates selects for an anchor. *)
MutMissingUnlessScheduled(a) ==
  {t \in Template : anchor[t] = a /\ \A r \in RowsOf(t) : status[r] # "scheduled"}
Missing(a) ==
  {t \in Template : anchor[t] = a /\ \A r \in RowsOf(t) : ~Active(r)}

(* The rows ReanchorReminders updates for an anchor. *)
MutReanchorAnyStatus(a) ==
  {r \in Reminder : Stored(r) /\ tmpl[r] # None /\ anchor[tmpl[r]] = a}
Reanchored(a) ==
  {r \in Reminder : /\ status[r] = "scheduled"
                    /\ tmpl[r] # None
                    /\ anchor[tmpl[r]] = a}

(* stageRank and stageForEvent *)
stageRank == [planning |-> 0, primary |-> 1, secondary |-> 2, aging |-> 3,
              bottled |-> 4, archived |-> 5]
stageForEvent == [pitch |-> "primary", rack |-> "secondary", bottle |-> "bottled"]

-----------------------------------------------------------------------------
(* The statements of the queries package                                   *)

(* A batch is inserted with or without a recipe. *)
InsertBatch(b, s, a) ==
  /\ batch = "none"
  /\ batch' = b
  /\ stage' = s
  /\ started' = a

(* What is not given keeps its value: COALESCE($n, column). *)
MutSetWithoutCoalesce(s, a) ==
  /\ batch \in Live
  /\ stage' = s
  /\ started' = a
SetBatch(s, a) ==
  /\ batch \in Live
  /\ stage' = IF s = None THEN stage ELSE s
  /\ started' = IF a = None THEN started ELSE a

(* The reminders go with the batch (ON DELETE CASCADE), and none can be    *)
(* created any more.                                                       *)
DropBatch ==
  /\ batch \in Live
  /\ batch' = "gone"
  /\ stage' = "planning"
  /\ started' = None
  /\ status' = [r \in Reminder |-> "gone"]
  /\ tmpl' = [r \in Reminder |-> None]
  /\ fireAt' = [r \in Reminder |-> 0]

InsertReminder(r, a) ==
  /\ status[r] = "absent"
  /\ status' = [status EXCEPT ![r] = "scheduled"]
  /\ fireAt' = [fireAt EXCEPT ![r] = a]
  /\ episode' = [episode EXCEPT ![r] = 1]

SetReminder(r, s, a) ==
  /\ Stored(r)
  /\ status' = [status EXCEPT ![r] = IF s = None THEN @ ELSE s]
  /\ fireAt' = [fireAt EXCEPT ![r] = IF a = None THEN @ ELSE a]

(* status NOT IN ('fired', 'completed') *)
SetCancelled(r) ==
  /\ Stored(r)
  /\ status[r] \notin {"fired", "completed"}
  /\ status' = [status EXCEPT ![r] = "cancelled"]

InsertTemplate(t, k, o) ==
  /\ anchor[t] = "none"
  /\ anchor' = [anchor EXCEPT ![t] = k]
  /\ offset' = [offset EXCEPT ![t] = o]

SetTemplate(t, k, o) ==
  /\ anchor' = [anchor EXCEPT ![t] = k]
  /\ offset' = [offset EXCEPT ![t] = o]

(* reminders.template_id has no ON DELETE: the statement fails while any   *)
(* reminder refers to the template.                                        *)
DropTemplate(t) ==
  /\ RowsOf(t) = {}
  /\ anchor' = [anchor EXCEPT ![t] = "gone"]

-----------------------------------------------------------------------------
(* materializeTemplates                                                    *)

Finish(h) ==
  /\ hpc' = [hpc EXCEPT ![h] = "idle"]
  /\ hanchor' = [hanchor EXCEPT ![h] = "batch_start"]
  /\ hat' = [hat EXCEPT ![h] = 0]
  /\ hstage' = [hstage EXCEPT ![h] = "planning"]
  /\ hsnap' = [hsnap EXCEPT ![h] = {}]

(* Requests for batch_start end here, those of an event go on to           *)
(* maybeAdvanceStage.                                                      *)
AfterMaterialize(h) ==
  \/ hanchor[h] = "batch_start" /\ Finish(h)
  \/ /\ hanchor[h] # "batch_start"
     /\ hpc' = [hpc EXCEPT ![h] = "advance"]
     /\ hsnap' = [hsnap EXCEPT ![h] = {}]
     /\ UNCHANGED <<hanchor, hat, hstage>>

(* ReanchorReminders; its error is dropped. *)
Reanchor(h) ==
  /\ hpc[h] = "reanchor"
  /\ hpc' = [hpc EXCEPT ![h] = "select"]
  /\ LET R == Reanchored(hanchor[h])
     IN \/ /\ fireAt' = [r \in Reminder |->
                           IF r \in R THEN hat[h] + offset[tmpl[r]] ELSE fireAt[r]]
           /\ moved' = moved \ R
        \/ Faults /\ UNCHANGED <<fireAt, moved>>
  /\ UNCHANGED <<batchVars, templateVars, status, tmpl, episode, notes, now,
                 due, hanchor, hat, hstage, hsnap, reopened>>

(* MaterializeReminderTemplates takes its snapshot. *)
Select(h) ==
  /\ hpc[h] = "select"
  /\ hpc' = [hpc EXCEPT ![h] = "insert"]
  /\ hsnap' = [hsnap EXCEPT ![h] =
                 {[t |-> t, off |-> offset[t]] : t \in Missing(hanchor[h])}]
  /\ UNCHANGED <<batchVars, templateVars, rowVars, notes, now, due, hanchor,
                 hat, hstage, history>>

(* Its rows become visible together.  A batch or a template deleted since  *)
(* breaks a foreign key: then, as on any error, no row is written and the  *)
(* request goes on.                                                        *)
Insert(h) ==
  /\ hpc[h] = "insert"
  /\ \/ /\ batch \in Live
        /\ \A x \in hsnap[h] : anchor[x.t] # "gone"
        /\ \E new \in SUBSET {r \in Reminder : status[r] = "absent"} :
             \E f \in Bijection(new, hsnap[h]) :
               /\ status' = [r \in Reminder |->
                               IF r \in new THEN "scheduled" ELSE status[r]]
               /\ tmpl' = [r \in Reminder |->
                             IF r \in new THEN f[r].t ELSE tmpl[r]]
               /\ fireAt' = [r \in Reminder |->
                               IF r \in new THEN hat[h] + f[r].off ELSE fireAt[r]]
               /\ episode' = [r \in Reminder |->
                                IF r \in new THEN 1 ELSE episode[r]]
     \/ /\ \/ batch = "gone" /\ hsnap[h] # {}
           \/ \E x \in hsnap[h] : anchor[x.t] = "gone"
           \/ Faults
        /\ UNCHANGED rowVars
     \/ /\ hsnap[h] = {}
        /\ UNCHANGED rowVars
  /\ AfterMaterialize(h)
  /\ UNCHANGED <<batchVars, templateVars, notes, now, due, history>>

-----------------------------------------------------------------------------
(* Requests on the batch and its events                                    *)

(* handleCreateBatch.  With a recipe and a start the batch_start templates *)
(* are materialized.                                                       *)
CreateBatch(h, b, s, a) ==
  /\ hpc[h] = "idle"
  /\ InsertBatch(b, s, a)
  /\ \/ /\ a # None /\ b = "brewed"
        /\ hpc' = [hpc EXCEPT ![h] = "reanchor"]
        /\ hat' = [hat EXCEPT ![h] = a]
     \/ /\ a = None \/ b = "plain" \/ Faults
        /\ UNCHANGED <<hpc, hat>>
  /\ UNCHANGED <<templateVars, rowVars, notes, now, due, hanchor, hstage,
                 hsnap, history>>

(* handleUpdateBatch, with a stage, a start or both in the patch. *)
MutMaterializeFirstStartOnly(h, s, a) ==
  /\ hpc[h] = "idle"
  /\ SetBatch(s, a)
  /\ IF a # None /\ batch = "brewed" /\ started = None
     THEN /\ hpc' = [hpc EXCEPT ![h] = "reanchor"]
          /\ hat' = [hat EXCEPT ![h] = a]
     ELSE UNCHANGED <<hpc, hat>>
  /\ UNCHANGED <<batch, templateVars, rowVars, notes, now, due, hanchor,
                 hstage, hsnap, history>>
UpdateBatch(h, s, a) ==
  /\ hpc[h] = "idle"
  /\ SetBatch(s, a)
  /\ \/ /\ a # None /\ batch = "brewed"
        /\ hpc' = [hpc EXCEPT ![h] = "reanchor"]
        /\ hat' = [hat EXCEPT ![h] = a]
     \/ /\ a = None \/ batch = "plain" \/ Faults
        /\ UNCHANGED <<hpc, hat>>
  /\ UNCHANGED <<batch, templateVars, rowVars, notes, now, due, hanchor,
                 hstage, hsnap, history>>

(* handleDeleteBatch *)
DeleteBatch(h) ==
  /\ hpc[h] = "idle"
  /\ DropBatch
  /\ moved' = {}
  /\ reopened' = {}
  /\ UNCHANGED <<templateVars, episode, notes, now, due, requestVars>>

(* handleCreateBatchEvent and handleUpdateBatchEvent read the batch, whose *)
(* copy serves the rest of the request.  An event of another kind triggers *)
(* nothing.                                                                *)
BeginEvent(h, k, a) ==
  /\ hpc[h] = "idle"
  /\ batch \in Live
  /\ hpc' = [hpc EXCEPT ![h] = "event"]
  /\ hanchor' = [hanchor EXCEPT ![h] = k]
  /\ hat' = [hat EXCEPT ![h] = a]
  /\ hstage' = [hstage EXCEPT ![h] = stage]
  /\ UNCHANGED <<batchVars, templateVars, rowVars, notes, now, due, hsnap, history>>

(* They write the event, which fails once the batch is gone. *)
WriteEvent(h) ==
  /\ hpc[h] = "event"
  /\ \/ /\ batch = "brewed"
        /\ hpc' = [hpc EXCEPT ![h] = "reanchor"]
        /\ UNCHANGED <<hanchor, hat, hstage, hsnap>>
     \/ /\ batch = "plain"
        /\ hpc' = [hpc EXCEPT ![h] = "advance"]
        /\ UNCHANGED <<hanchor, hat, hstage, hsnap>>
     \/ (batch = "gone" \/ Faults) /\ Finish(h)
  /\ UNCHANGED <<batchVars, templateVars, rowVars, notes, now, due, history>>

(* maybeAdvanceStage compares with the stage the request read; its error   *)
(* is dropped.                                                             *)
AdvanceStage(h) ==
  /\ hpc[h] = "advance"
  /\ LET target == stageForEvent[hanchor[h]]
     IN \/ /\ stageRank[target] > stageRank[hstage[h]]
           /\ batch \in Live
           /\ stage' = target
        \/ /\ \/ stageRank[target] <= stageRank[hstage[h]]
              \/ batch = "gone"
              \/ Faults
           /\ UNCHANGED stage
  /\ Finish(h)
  /\ UNCHANGED <<batch, started, templateVars, rowVars, notes, now, due, history>>

-----------------------------------------------------------------------------
(* Requests on reminders and templates                                     *)

(* handleCreateReminder: a manual reminder, without template. *)
CreateReminder(h, a) ==
  /\ hpc[h] = "idle"
  /\ batch \in Live
  /\ \E r \in Reminder : InsertReminder(r, a)
  /\ UNCHANGED <<batchVars, templateVars, tmpl, notes, now, due, requestVars, history>>

(* handleUpdateReminder: any stored reminder takes any of the four         *)
(* statuses of the allow-list, a new fire_at, or both.                     *)
UpdateReminder(h, r, s, a) ==
  /\ hpc[h] = "idle"
  /\ SetReminder(r, s, a)
  /\ LET again == s = "scheduled" /\ status[r] # "scheduled"
     IN /\ again => episode[r] < MaxEpisode
        /\ episode' = [episode EXCEPT ![r] = IF again THEN @ + 1 ELSE @]
        /\ moved' = IF again \/ a # None THEN moved \cup {r} ELSE moved
  /\ reopened' = IF ~Active(r) /\ s \notin {None, "dismissed"}
                 THEN reopened \cup {r} ELSE reopened
  /\ UNCHANGED <<batchVars, templateVars, tmpl, notes, now, due, requestVars>>

(* handleDeleteReminder *)
CancelReminder(h, r) ==
  /\ hpc[h] = "idle"
  /\ SetCancelled(r)
  /\ UNCHANGED <<batchVars, templateVars, tmpl, fireAt, episode, notes, now,
                 due, requestVars, history>>

(* handleCreateReminderTemplate *)
CreateTemplate(h, t, k, o) ==
  /\ hpc[h] = "idle"
  /\ InsertTemplate(t, k, o)
  /\ UNCHANGED <<batchVars, rowVars, notes, now, due, requestVars, history>>

(* handleUpdateReminderTemplate: its reminders stay as they are. *)
UpdateTemplate(h, t, k, o) ==
  /\ hpc[h] = "idle"
  /\ anchor[t] \in Anchors
  /\ SetTemplate(t, k, o)
  /\ moved' = moved \cup {r \in RowsOf(t) : status[r] = "scheduled"}
  /\ UNCHANGED <<batchVars, rowVars, notes, now, due, requestVars, reopened>>

(* handleDeleteReminderTemplate *)
DeleteTemplate(h, t) ==
  /\ hpc[h] = "idle"
  /\ anchor[t] \in Anchors
  /\ DropTemplate(t)
  /\ UNCHANGED <<batchVars, offset, rowVars, notes, now, due, requestVars, history>>

-----------------------------------------------------------------------------
(* reminderDispatchWorker.Work                                             *)

MutDueStrictly == {r \in Reminder : status[r] = "scheduled" /\ fireAt[r] < now}
Due == {r \in Reminder : status[r] = "scheduled" /\ fireAt[r] <= now}

(* The earliest ClaimLimit due reminders go to fired in the statement that *)
(* returns them.                                                           *)
ClaimDueReminders(S) ==
  /\ IF Cardinality(Due) <= ClaimLimit
     THEN S = Due
     ELSE /\ Cardinality(S) = ClaimLimit
          /\ \A r \in S, q \in Due \ S : fireAt[r] <= fireAt[q]
  /\ status' = [r \in Reminder |-> IF r \in S THEN "fired" ELSE status[r]]

MutClaimWithoutFlip(w) ==
  /\ due[w] = {}
  /\ \E S \in SUBSET Due :
       due' = [due EXCEPT ![w] = {<<r, episode[r]>> : r \in S}]
  /\ UNCHANGED <<batchVars, templateVars, rowVars, notes, now, requestVars, history>>
Claim(w) ==
  /\ due[w] = {}
  /\ \E S \in SUBSET Due :
       /\ ClaimDueReminders(S)
       /\ due' = [due EXCEPT ![w] = {<<r, episode[r]>> : r \in S}]
  /\ UNCHANGED <<batchVars, templateVars, tmpl, fireAt, episode, notes, now,
                 requestVars, history>>

(* It fails when the reminder is gone (foreign key). *)
CreateNotification(p) ==
  /\ Stored(p[1])
  /\ notes' = [notes EXCEPT ![p[1]] = @ \cup {p[2]}]

(* One claimed reminder is notified; an error is logged and the loop goes  *)
(* on.                                                                     *)
Notify(w, p) ==
  /\ p \in due[w]
  /\ due' = [due EXCEPT ![w] = @ \ {p}]
  /\ \/ CreateNotification(p)
     \/ /\ ~Stored(p[1]) \/ Faults
        /\ UNCHANGED notes
  /\ UNCHANGED <<batchVars, templateVars, rowVars, now, requestVars, history>>

(* River cancels the tick's context (job timeout, shutdown): every later   *)
(* CreateNotification fails.                                               *)
Timeout(w) ==
  /\ Faults
  /\ due' = [due EXCEPT ![w] = {}]
  /\ UNCHANGED <<batchVars, templateVars, rowVars, notes, now, requestVars, history>>

-----------------------------------------------------------------------------
(* The environment                                                         *)

Elapse ==
  /\ now < MaxTime
  /\ now' = now + 1
  /\ UNCHANGED <<batchVars, templateVars, rowVars, notes, due, requestVars, history>>

(* The one process dies, with its ticks and requests. *)
Crash ==
  /\ Faults
  /\ due' = [w \in Tick |-> {}]
  /\ hpc' = [h \in Handler |-> "idle"]
  /\ hanchor' = [h \in Handler |-> "batch_start"]
  /\ hat' = [h \in Handler |-> 0]
  /\ hstage' = [h \in Handler |-> "planning"]
  /\ hsnap' = [h \in Handler |-> {}]
  /\ UNCHANGED <<batchVars, templateVars, rowVars, notes, now, history>>

TickStep(w) == Claim(w) \/ \E p \in due[w] : Notify(w, p)

RequestStep(h) ==
  \/ Reanchor(h)
  \/ Select(h)
  \/ Insert(h)
  \/ WriteEvent(h)
  \/ AdvanceStage(h)

RequestStart(h) ==
  \/ \E b \in Live, s \in StageInput, a \in AnchorTime \cup {None} :
       CreateBatch(h, b, s, a)
  \/ \E s \in StageInput \cup {None}, a \in AnchorTime \cup {None} :
       UpdateBatch(h, s, a)
  \/ DeleteBatch(h)
  \/ \E k \in Kind, a \in AnchorTime : BeginEvent(h, k, a)
  \/ \E a \in ManualTime : CreateReminder(h, a)
  \/ \E r \in Reminder, a \in ManualTime \cup {None},
        s \in {"scheduled", "snoozed", "completed", "dismissed", None} :
       UpdateReminder(h, r, s, a)
  \/ \E r \in Reminder : CancelReminder(h, r)
  \/ \E t \in Template, k \in Kind \cup {"batch_start"}, o \in Offset :
       CreateTemplate(h, t, k, o) \/ UpdateTemplate(h, t, k, o)
  \/ \E t \in Template : DeleteTemplate(h, t)

Next ==
  \/ \E w \in Tick : TickStep(w) \/ Timeout(w)
  \/ \E h \in Handler : RequestStart(h) \/ RequestStep(h)
  \/ Elapse
  \/ Crash

(* River starts a tick every minute and runs it, a request that was started *)
(* runs on, the clock goes on.  Nobody has to send a request.               *)
Fairness ==
  /\ \A w \in Tick : WF_vars(TickStep(w))
  /\ \A h \in Handler : WF_vars(RequestStep(h))
  /\ WF_vars(Elapse)

Spec == Init /\ [][Next]_vars
FairSpec == Spec /\ Fairness

-----------------------------------------------------------------------------
(* Properties                                                              *)

(* Each time a reminder is scheduled it is notified at most once, whatever *)
(* ticks overlap and whatever the user patches meanwhile: no two ticks     *)
(* hold the same firing, and none holds a firing already notified.         *)
NotifiedOncePerSchedule ==
  /\ \A w1, w2 \in Tick : w1 # w2 => due[w1] \cap due[w2] = {}
  /\ \A w \in Tick : \A p \in due[w] : p[2] \notin notes[p[1]]

(* A reminder that fired was due, and stays so: moving the anchor later    *)
(* does not move a reminder that has fired ("Don't un-fire a fired         *)
(* reminder"); only the user may.                                          *)
FiredWasDue ==
  \A r \in Reminder : status[r] = "fired" => fireAt[r] <= now \/ r \in moved

\* No request is in the middle of its work.
Quiet == \A h \in Handler : hpc[h] = "idle"

\* Requests never overlap: one goroutine serves them all.
Serial == \A g, h \in Handler : g = h

\* Where the start of the batch puts a reminder of a batch_start template.
AtStart(r) ==
  (/\ status[r] = "scheduled"
   /\ tmpl[r] # None
   /\ anchor[tmpl[r]] = "batch_start")
  => fireAt[r] = started + offset[tmpl[r]]

(* materializeTemplates "makes the reminders for this batch+anchor reflect *)
(* anchorTime": once no request is in flight, a scheduled reminder of a    *)
(* batch_start template fires at started_at plus the template's offset,    *)
(* unless the user moved it or changed the template since.  This holds     *)
(* while requests do not overlap and nothing fails: see the README.        *)
RemindersFollowStart ==
  Serial /\ ~Faults /\ Quiet => \A r \in Reminder \ moved : AtStart(r)

(* "no duplicates": materializing again leaves at most one active reminder *)
(* per template, unless the user reopened one that was put aside.  Holds   *)
(* while requests do not overlap.                                          *)
NoDuplicateReminders ==
  Serial =>
    \A r, q \in Reminder \ reopened :
      r # q /\ Active(r) /\ Active(q) /\ tmpl[r] = tmpl[q] => tmpl[r] = None

(* "Always create the in-app notification": while nothing fails, every     *)
(* scheduling of a reminder is notified in the end, also once it has       *)
(* fired, unless the user puts it aside or deletes the batch.              *)
ScheduledIsNotified ==
  \A r \in Reminder :
    status[r] = "scheduled" ~>
      episode[r] \in notes[r] \/ status[r] \notin {"scheduled", "fired"}

-----------------------------------------------------------------------------
(* The inductive invariant behind the safety properties                    *)

(* A firing a tick holds, or that was notified, is one of an episode that  *)
(* began; that of the current episode only once the row left scheduled.    *)
EpisodeInv ==
  /\ \A r \in Reminder :
       /\ status[r] = "absent" => episode[r] = 0
       /\ \A n \in notes[r] : n <= episode[r]
       /\ status[r] = "scheduled" => episode[r] \notin notes[r]
  /\ \A w \in Tick : \A p \in due[w] :
       /\ p[2] <= episode[p[1]]
       /\ status[p[1]] = "scheduled" => p[2] < episode[p[1]]

(* An event request carries the kind of its event, a materialization a     *)
(* brewed batch's.                                                         *)
RequestInv ==
  \A h \in Handler :
    hpc[h] \in {"event", "advance"} => hanchor[h] # "batch_start"

(* The conjunction that every step preserves.                              *)
IInv ==
  /\ TypeOK
  /\ EpisodeInv
  /\ RequestInv
  /\ NotifiedOncePerSchedule
  /\ FiredWasDue

(* Preserved with IInv.  Only a brewed batch has reminders of templates,   *)
(* whose anchors are set; a request that is not about an event             *)
(* materializes batch_start.                                               *)
TemplateInv ==
  /\ \A r \in Reminder :
       /\ status[r] = "absent" => tmpl[r] = None
       /\ tmpl[r] # None => batch = "brewed" /\ anchor[tmpl[r]] # "none"
  /\ \A h \in Handler :
       /\ hpc[h] = "idle" => hanchor[h] = "batch_start"
       /\ hpc[h] \in {"reanchor", "select", "insert"} => batch \in {"brewed", "gone"}
       /\ hpc[h] = "insert" => \A x \in hsnap[h] : anchor[x.t] # "none"

(* Preserved with both while requests are serial: the snapshot of the      *)
(* INSERT ... SELECT is still right when its rows are written.             *)
SnapshotInv ==
  Serial =>
    \A h \in Handler : hpc[h] = "insert" =>
      \A x \in hsnap[h] :
        /\ anchor[x.t] = hanchor[h]
        /\ offset[x.t] = x.off
        /\ \A r \in RowsOf(x.t) : ~Active(r)

(* Preserved with all of them while nothing fails either: the start a      *)
(* request materializes is the batch's, and every reminder follows it      *)
(* except while that request has yet to re-anchor them.                    *)
StartInv ==
  Serial /\ ~Faults =>
    /\ \A h \in Handler :
         hpc[h] \in {"reanchor", "select", "insert"} /\ hanchor[h] = "batch_start"
           => hat[h] = started
    /\ \/ \E h \in Handler : hpc[h] = "reanchor" /\ hanchor[h] = "batch_start"
       \/ \A r \in Reminder \ moved : AtStart(r)

=============================================================================
