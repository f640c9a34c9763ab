-------------------------- MODULE Reminders_proofs --------------------------
(* Proofs about Reminders, for every set of reminders, templates, ticks    *)
(* and requests, every clock bound and claim limit, with and without       *)
(* faults.                                                                 *)
EXTENDS Reminders, TLAPS

(* The state starts well formed.                                           *)
LEMMA TypeInit == Init => TypeOK
  BY RemindersAssumption DEF Init, TypeOK, Stages, Anchors, Statuses

(* Finish is the one way a request ends; it leaves the request's variables *)
(* well formed.                                                            *)
LEMMA TypeFinish ==
  ASSUME TypeOK, NEW h \in Handler, Finish(h)
  PROVE  /\ hpc' \in [Handler -> {"idle", "event", "reanchor", "select",
                                  "insert", "advance"}]
         /\ hanchor' \in [Handler -> Anchors]
         /\ hat' \in [Handler -> Int]
         /\ hstage' \in [Handler -> Stages]
         /\ hsnap' \in [Handler -> SUBSET [t : Template, off : Int]]
  BY DEF TypeOK, Finish, Anchors, Stages

(* The rows an INSERT ... SELECT adds are well formed: they take their     *)
(* template and offset from the snapshot.                                  *)
LEMMA TypeInsert ==
  ASSUME TypeOK, NEW h \in Handler, Insert(h)
  PROVE  TypeOK'
<1> USE DEF TypeOK
<1>1. /\ status' \in [Reminder -> Statuses]
      /\ tmpl' \in [Reminder -> Template \cup {None}]
      /\ fireAt' \in [Reminder -> Int]
      /\ episode' \in [Reminder -> Nat]
  <2>1. CASE UNCHANGED rowVars
    BY <2>1 DEF rowVars
  <2>2. ASSUME NEW new \in SUBSET {r \in Reminder : status[r] = "absent"},
               NEW f \in Bijection(new, hsnap[h]),
               status' = [r \in Reminder |->
                            IF r \in new THEN "scheduled" ELSE status[r]],
               tmpl' = [r \in Reminder |->
                          IF r \in new THEN f[r].t ELSE tmpl[r]],
               fireAt' = [r \in Reminder |->
                            IF r \in new THEN hat[h] + f[r].off ELSE fireAt[r]],
               episode' = [r \in Reminder |->
                             IF r \in new THEN 1 ELSE episode[r]]
        PROVE <1>1!:
    <3>1. \A r \in new : f[r] \in [t : Template, off : Int]
      BY DEF Bijection, Injection
    <3> QED
      BY <2>2, <3>1 DEF Statuses
  <2> QED
    BY <2>1, <2>2 DEF Insert
<1>2. /\ hpc' \in [Handler -> {"idle", "event", "reanchor", "select",
                               "insert", "advance"}]
      /\ hanchor' \in [Handler -> Anchors]
      /\ hat' \in [Handler -> Int]
      /\ hstage' \in [Handler -> Stages]
      /\ hsnap' \in [Handler -> SUBSET [t : Template, off : Int]]
  <2>1. CASE Finish(h)
    BY <2>1, TypeFinish
  <2>2. CASE ~Finish(h)
    BY <2>2 DEF Insert, AfterMaterialize
  <2> QED
    BY <2>1, <2>2
<1> QED
  BY <1>1, <1>2 DEF Insert, batchVars, templateVars, history

(* The steps of a request in progress keep the state well formed.          *)
LEMMA TypeRequestStep ==
  ASSUME TypeOK, RequestInv, NEW h \in Handler, RequestStep(h)
  PROVE  TypeOK'
<1> USE DEF TypeOK, batchVars, templateVars, rowVars, history
<1>1. CASE Reanchor(h)
  <2>1. \A r \in Reanchored(hanchor[h]) : r \in Reminder /\ offset[tmpl[r]] \in Int
    BY DEF Reanchored
  <2>2. fireAt' \in [Reminder -> Int] /\ moved' \subseteq Reminder
    BY <1>1, <2>1 DEF Reanchor
  <2> QED
    BY <1>1, <2>2 DEF Reanchor
<1>2. CASE Select(h)
  BY <1>2 DEF Select, Missing
<1>3. CASE Insert(h)
  BY <1>3, TypeInsert
<1>4. CASE WriteEvent(h)
  <2>1. CASE Finish(h)
    BY <1>4, <2>1, TypeFinish DEF WriteEvent
  <2>2. CASE ~Finish(h)
    BY <1>4, <2>2 DEF WriteEvent
  <2> QED
    BY <2>1, <2>2
<1>5. CASE AdvanceStage(h)
  <2>1. hanchor[h] \in {"pitch", "rack", "bottle"}
    BY <1>5 DEF AdvanceStage, RequestInv, Anchors
  <2>2. stage' \in Stages
    BY <1>5, <2>1 DEF AdvanceStage, stageForEvent, Stages
  <2> QED
    BY <1>5, <2>2, TypeFinish DEF AdvanceStage
<1> QED
  BY <1>1, <1>2, <1>3, <1>4, <1>5 DEF RequestStep

(* So do the requests that start, and those of a single statement.         *)
LEMMA TypeRequestStart ==
  ASSUME TypeOK, NEW h \in Handler, RequestStart(h)
  PROVE  TypeOK'
<1> USE RemindersAssumption DEF TypeOK, batchVars, templateVars, rowVars,
                                requestVars, history
<1>1. ASSUME NEW b \in Live, NEW s \in StageInput,
             NEW a \in AnchorTime \cup {None}, CreateBatch(h, b, s, a)
      PROVE TypeOK'
  BY <1>1 DEF CreateBatch, InsertBatch, Live
<1>2. ASSUME NEW s \in StageInput \cup {None}, NEW a \in AnchorTime \cup {None},
             UpdateBatch(h, s, a)
      PROVE TypeOK'
  BY <1>2 DEF UpdateBatch, SetBatch
<1>3. CASE DeleteBatch(h)
  BY <1>3 DEF DeleteBatch, DropBatch, Stages, Statuses
<1>4. ASSUME NEW k \in Kind, NEW a \in AnchorTime, BeginEvent(h, k, a)
      PROVE TypeOK'
  BY <1>4 DEF BeginEvent, Anchors
<1>5. ASSUME NEW a \in ManualTime, CreateReminder(h, a)
      PROVE TypeOK'
  BY <1>5 DEF CreateReminder, InsertReminder, Statuses
<1>6. ASSUME NEW r \in Reminder, NEW a \in ManualTime \cup {None},
             NEW s \in {"scheduled", "snoozed", "completed", "dismissed", None},
             UpdateReminder(h, r, s, a)
      PROVE TypeOK'
  BY <1>6 DEF UpdateReminder, SetReminder, Statuses
<1>7. ASSUME NEW r \in Reminder, CancelReminder(h, r)
      PROVE TypeOK'
  BY <1>7 DEF CancelReminder, SetCancelled, Statuses
<1>8. ASSUME NEW t \in Template, NEW k \in Kind \cup {"batch_start"},
             NEW o \in Offset, CreateTemplate(h, t, k, o) \/ UpdateTemplate(h, t, k, o)
      PROVE TypeOK'
  BY <1>8 DEF CreateTemplate, InsertTemplate, UpdateTemplate, SetTemplate, Anchors, RowsOf
<1>9. ASSUME NEW t \in Template, DeleteTemplate(h, t)
      PROVE TypeOK'
  BY <1>9 DEF DeleteTemplate, DropTemplate
<1> HIDE DEF TypeOK
<1> QED
  BY <1>1, <1>2, <1>3, <1>4, <1>5, <1>6, <1>7, <1>8, <1>9 DEF RequestStart

(* So do the ticks, the clock and a crash.                                 *)
LEMMA TypeTick ==
  ASSUME TypeOK,
         (\E w \in Tick : TickStep(w) \/ Timeout(w)) \/ Elapse \/ Crash
  PROVE  TypeOK'
<1> USE DEF TypeOK, batchVars, templateVars, rowVars, requestVars, history
<1>1. ASSUME NEW w \in Tick, Claim(w) PROVE TypeOK'
  BY <1>1 DEF Claim, ClaimDueReminders, Due, Statuses
<1>2. ASSUME NEW w \in Tick, NEW p \in due[w], Notify(w, p) PROVE TypeOK'
  <2>1. p \in Reminder \X Nat
    BY <1>2
  <2>2. notes' \in [Reminder -> SUBSET Nat] /\ due' \in [Tick -> SUBSET (Reminder \X Nat)]
    BY <1>2, <2>1 DEF Notify, CreateNotification
  <2> QED
    BY <1>2, <2>2 DEF Notify, CreateNotification
<1>3. ASSUME NEW w \in Tick, Timeout(w) PROVE TypeOK'
  BY <1>3 DEF Timeout
<1>4. CASE Elapse
  BY <1>4 DEF Elapse
<1>5. CASE Crash
  BY <1>5 DEF Crash, Anchors, Stages
<1> QED
  BY <1>1, <1>2, <1>3, <1>4, <1>5 DEF TickStep

(* A step that touches neither reminders, nor notifications, nor claims,   *)
(* keeps what is said of them.                                             *)
LEMMA RowsKept ==
  ASSUME EpisodeInv, NotifiedOncePerSchedule,
         UNCHANGED <<status, episode, notes, due>>
  PROVE  EpisodeInv' /\ NotifiedOncePerSchedule'
  BY DEF EpisodeInv, NotifiedOncePerSchedule

\* What the steps keep besides the types.
SafeInv == EpisodeInv /\ RequestInv /\ NotifiedOncePerSchedule /\ FiredWasDue

(* The steps of a request in progress keep the safety invariants: only the *)
(* INSERT adds firings to come, and only to ids never used before.         *)
LEMMA RequestStepKeeps ==
  ASSUME TypeOK, SafeInv, NEW h \in Handler, RequestStep(h)
  PROVE  SafeInv'
<1> USE DEF SafeInv, batchVars, templateVars, rowVars, history
<1>1. CASE Reanchor(h)
  <2>1. EpisodeInv' /\ NotifiedOncePerSchedule'
    BY <1>1, RowsKept DEF Reanchor
  <2>2. RequestInv'
    BY <1>1 DEF Reanchor, RequestInv, TypeOK
  <2>3. FiredWasDue'
    BY <1>1 DEF Reanchor, Reanchored, FiredWasDue, TypeOK
  <2> QED
    BY <2>1, <2>2, <2>3
<1>2. CASE Select(h)
  <2>1. EpisodeInv' /\ NotifiedOncePerSchedule'
    BY <1>2, RowsKept DEF Select
  <2>2. RequestInv' /\ FiredWasDue'
    BY <1>2 DEF Select, RequestInv, TypeOK, FiredWasDue
  <2> QED
    BY <2>1, <2>2
<1>3. CASE Insert(h)
  <2>1. RequestInv'
    BY <1>3 DEF Insert, AfterMaterialize, Finish, RequestInv, TypeOK
  <2>2. CASE UNCHANGED rowVars
    <3>1. EpisodeInv' /\ NotifiedOncePerSchedule'
      BY <1>3, <2>2, RowsKept DEF Insert
    <3>2. FiredWasDue'
      BY <1>3, <2>2 DEF Insert, FiredWasDue
    <3> QED
      BY <2>1, <3>1, <3>2
  <2>3. ASSUME NEW new \in SUBSET {r \in Reminder : status[r] = "absent"},
               NEW f \in Bijection(new, hsnap[h]),
               status' = [r \in Reminder |->
                            IF r \in new THEN "scheduled" ELSE status[r]],
               fireAt' = [r \in Reminder |->
                            IF r \in new THEN hat[h] + f[r].off ELSE fireAt[r]],
               episode' = [r \in Reminder |->
                             IF r \in new THEN 1 ELSE episode[r]]
        PROVE SafeInv'
    <3>1. EpisodeInv'
      BY <1>3, <2>3 DEF Insert, EpisodeInv, TypeOK
    <3>2. NotifiedOncePerSchedule'
      BY <1>3 DEF Insert, NotifiedOncePerSchedule
    <3>3. FiredWasDue'
      BY <1>3, <2>3 DEF Insert, FiredWasDue, TypeOK
    <3> QED
      BY <2>1, <3>1, <3>2, <3>3
  <2> QED
    BY <1>3, <2>2, <2>3 DEF Insert
<1>4. CASE WriteEvent(h)
  <2>1. EpisodeInv' /\ NotifiedOncePerSchedule'
    BY <1>4, RowsKept DEF WriteEvent
  <2>2. RequestInv' /\ FiredWasDue'
    BY <1>4 DEF WriteEvent, Finish, RequestInv, TypeOK, FiredWasDue
  <2> QED
    BY <2>1, <2>2
<1>5. CASE AdvanceStage(h)
  <2>1. EpisodeInv' /\ NotifiedOncePerSchedule'
    BY <1>5, RowsKept DEF AdvanceStage
  <2>2. RequestInv' /\ FiredWasDue'
    BY <1>5 DEF AdvanceStage, Finish, RequestInv, TypeOK, FiredWasDue
  <2> QED
    BY <2>1, <2>2
<1> QED
  BY <1>1, <1>2, <1>3, <1>4, <1>5 DEF RequestStep

(* The requests that start keep them: a reminder becomes scheduled again   *)
(* only under a new episode, and moves after it fired only by hand.        *)
LEMMA RequestStartKeeps ==
  ASSUME TypeOK, SafeInv, NEW h \in Handler, RequestStart(h)
  PROVE  SafeInv'
<1> USE DEF SafeInv, batchVars, templateVars, rowVars, requestVars, history
<1>1. ASSUME NEW b \in Live, NEW s \in StageInput,
             NEW a \in AnchorTime \cup {None},
             CreateBatch(h, b, s, a)
      PROVE SafeInv'
  <2>1. EpisodeInv' /\ NotifiedOncePerSchedule'
    BY <1>1, RowsKept DEF CreateBatch, InsertBatch
  <2>2. RequestInv' /\ FiredWasDue'
    BY <1>1 DEF CreateBatch, InsertBatch, RequestInv, FiredWasDue, TypeOK
  <2> QED
    BY <2>1, <2>2
<1>2. ASSUME NEW s \in StageInput \cup {None}, NEW a \in AnchorTime \cup {None},
             UpdateBatch(h, s, a)
      PROVE SafeInv'
  <2>1. EpisodeInv' /\ NotifiedOncePerSchedule'
    BY <1>2, RowsKept DEF UpdateBatch, SetBatch
  <2>2. RequestInv' /\ FiredWasDue'
    BY <1>2 DEF UpdateBatch, SetBatch, RequestInv, FiredWasDue, TypeOK
  <2> QED
    BY <2>1, <2>2
<1>3. CASE DeleteBatch(h)
  BY <1>3 DEF DeleteBatch, DropBatch, EpisodeInv, RequestInv, NotifiedOncePerSchedule,
              FiredWasDue, TypeOK
<1>4. ASSUME NEW k \in Kind, NEW a \in AnchorTime, BeginEvent(h, k, a)
      PROVE SafeInv'
  <2>1. EpisodeInv' /\ NotifiedOncePerSchedule'
    BY <1>4, RowsKept DEF BeginEvent
  <2>2. RequestInv' /\ FiredWasDue'
    BY <1>4, RemindersAssumption DEF BeginEvent, RequestInv, FiredWasDue, TypeOK
  <2> QED
    BY <2>1, <2>2
<1>5. ASSUME NEW a \in ManualTime, CreateReminder(h, a)
      PROVE SafeInv'
  <2>1. EpisodeInv'
    BY <1>5 DEF CreateReminder, InsertReminder, EpisodeInv, TypeOK
  <2>2. RequestInv' /\ NotifiedOncePerSchedule' /\ FiredWasDue'
    BY <1>5 DEF CreateReminder, InsertReminder, RequestInv, NotifiedOncePerSchedule,
                FiredWasDue, TypeOK
  <2> QED
    BY <2>1, <2>2
<1>6. ASSUME NEW r \in Reminder, NEW a \in ManualTime \cup {None},
             NEW s \in {"scheduled", "snoozed", "completed", "dismissed", None},
             UpdateReminder(h, r, s, a)
      PROVE SafeInv'
  <2>1. EpisodeInv'
    BY <1>6 DEF UpdateReminder, SetReminder, Stored, EpisodeInv, TypeOK
  <2>2. RequestInv' /\ NotifiedOncePerSchedule'
    BY <1>6 DEF UpdateReminder, SetReminder, RequestInv, NotifiedOncePerSchedule
  <2>3. FiredWasDue'
    BY <1>6 DEF UpdateReminder, SetReminder, FiredWasDue, TypeOK
  <2> QED
    BY <2>1, <2>2, <2>3
<1>7. ASSUME NEW r \in Reminder, CancelReminder(h, r)
      PROVE SafeInv'
  BY <1>7 DEF CancelReminder, SetCancelled, Stored, EpisodeInv, RequestInv,
              NotifiedOncePerSchedule, FiredWasDue, TypeOK
<1>8. ASSUME NEW t \in Template, NEW k \in Kind \cup {"batch_start"},
             NEW o \in Offset, CreateTemplate(h, t, k, o) \/ UpdateTemplate(h, t, k, o)
      PROVE SafeInv'
  <2>1. EpisodeInv' /\ NotifiedOncePerSchedule'
    BY <1>8, RowsKept DEF CreateTemplate, InsertTemplate, UpdateTemplate, SetTemplate
  <2>2. RequestInv' /\ FiredWasDue'
    BY <1>8 DEF CreateTemplate, InsertTemplate, UpdateTemplate, SetTemplate, RequestInv, FiredWasDue
  <2> QED
    BY <2>1, <2>2
<1>9. ASSUME NEW t \in Template, DeleteTemplate(h, t)
      PROVE SafeInv'
  <2>1. EpisodeInv' /\ NotifiedOncePerSchedule'
    BY <1>9, RowsKept DEF DeleteTemplate, DropTemplate
  <2>2. RequestInv' /\ FiredWasDue'
    BY <1>9 DEF DeleteTemplate, DropTemplate, RequestInv, FiredWasDue
  <2> QED
    BY <2>1, <2>2
<1> HIDE DEF SafeInv
<1> QED
  BY <1>1, <1>2, <1>3, <1>4, <1>5, <1>6, <1>7, <1>8, <1>9 DEF RequestStart

(* The ticks keep them: what a tick claims was scheduled, so nobody holds  *)
(* or has notified that episode yet.                                       *)
LEMMA TickKeeps ==
  ASSUME TypeOK, SafeInv,
         (\E w \in Tick : TickStep(w) \/ Timeout(w)) \/ Elapse \/ Crash
  PROVE  SafeInv'
<1> USE DEF SafeInv, batchVars, templateVars, rowVars, requestVars, history
<1>1. ASSUME NEW w \in Tick, Claim(w) PROVE SafeInv'
  <2>1. PICK S \in SUBSET Due :
          /\ status' = [r \in Reminder |-> IF r \in S THEN "fired" ELSE status[r]]
          /\ due' = [due EXCEPT ![w] = {<<r, episode[r]>> : r \in S}]
    BY <1>1 DEF Claim, ClaimDueReminders
  <2>2. \A r \in S : r \in Reminder /\ status[r] = "scheduled" /\ fireAt[r] <= now
    BY DEF Due
  <2>3. \A p \in due'[w] : p[1] \in S /\ p[2] = episode[p[1]]
    BY <2>1 DEF TypeOK
  <2>4. \A v \in Tick : v # w => due'[v] = due[v]
    BY <2>1 DEF TypeOK
  <2>5. \A v \in Tick : \A p \in due[v] : p[1] \in Reminder /\ p[2] \in Nat
    BY DEF TypeOK
  <2>6. EpisodeInv'
    <3>1. \A v \in Tick : \A p \in due'[v] :
            /\ p[2] <= episode[p[1]]
            /\ status'[p[1]] = "scheduled" => p[2] < episode[p[1]]
      <4> SUFFICES ASSUME NEW v \in Tick, NEW p \in due'[v]
                   PROVE  /\ p[2] <= episode[p[1]]
                          /\ status'[p[1]] = "scheduled" => p[2] < episode[p[1]]
        OBVIOUS
      <4>1. CASE v = w
        BY <4>1, <2>1, <2>2, <2>3 DEF TypeOK
      <4>2. CASE v # w
        BY <4>2, <2>1, <2>4, <2>5 DEF EpisodeInv
      <4> QED
        BY <4>1, <4>2
    <3>2. \A r \in Reminder : status'[r] = "absent" \/ status'[r] = "scheduled"
                                => status'[r] = status[r]
      BY <2>1
    <3> QED
      BY <1>1, <3>1, <3>2 DEF Claim, ClaimDueReminders, EpisodeInv
  <2>7. NotifiedOncePerSchedule'
    <3>1. \A v \in Tick : v # w => due'[w] \cap due'[v] = {}
      BY <2>2, <2>3, <2>4, <2>5 DEF EpisodeInv, TypeOK
    <3>2. \A v1, v2 \in Tick : v1 # v2 => due'[v1] \cap due'[v2] = {}
      BY <2>4, <3>1 DEF NotifiedOncePerSchedule
    <3>3. \A p \in due'[w] : p[2] \notin notes[p[1]]
      BY <2>2, <2>3 DEF EpisodeInv
    <3>4. \A v \in Tick : \A p \in due'[v] : p[2] \notin notes[p[1]]
      BY <2>4, <3>3 DEF NotifiedOncePerSchedule
    <3> QED
      BY <1>1, <3>2, <3>4 DEF Claim, ClaimDueReminders, NotifiedOncePerSchedule
  <2>8. RequestInv' /\ FiredWasDue'
    BY <1>1, <2>1, <2>2 DEF Claim, ClaimDueReminders, RequestInv, FiredWasDue
  <2> QED
    BY <2>6, <2>7, <2>8
<1>2. ASSUME NEW w \in Tick, NEW p \in due[w], Notify(w, p) PROVE SafeInv'
  <2>1. p[1] \in Reminder /\ p[2] \in Nat /\ p = <<p[1], p[2]>>
    BY DEF TypeOK
  <2>2. \A v \in Tick : due'[v] \subseteq due[v]
    BY <1>2 DEF Notify, CreateNotification, TypeOK
  <2>3. \A r \in Reminder : \A n \in notes'[r] : n \in notes[r] \/ <<r, n>> = p
    BY <1>2, <2>1 DEF Notify, CreateNotification, TypeOK
  <2>4. \A v \in Tick : p \notin due'[v]
    BY <1>2 DEF Notify, CreateNotification, TypeOK, NotifiedOncePerSchedule
  <2>5. EpisodeInv'
    <3>1. \A r \in Reminder : \A n \in notes'[r] :
            n <= episode[r] /\ (status[r] = "scheduled" => n # episode[r])
      <4> SUFFICES ASSUME NEW r \in Reminder, NEW n \in notes'[r]
                   PROVE  n <= episode[r] /\ (status[r] = "scheduled" => n # episode[r])
        OBVIOUS
      <4>1. CASE n \in notes[r]
        BY <4>1 DEF EpisodeInv
      <4>2. CASE <<r, n>> = p
        <5>1. r = p[1] /\ n = p[2]
          BY <4>2, <2>1
        <5>2. /\ p[2] <= episode[p[1]]
              /\ status[p[1]] = "scheduled" => p[2] < episode[p[1]]
          BY DEF EpisodeInv
        <5> QED
          BY <2>1, <5>1, <5>2 DEF TypeOK
      <4> QED
        BY <2>3, <4>1, <4>2
    <3> QED
      BY <1>2, <2>2, <3>1 DEF Notify, CreateNotification, EpisodeInv
  <2>6. NotifiedOncePerSchedule'
    <3>1. \A v \in Tick : \A q \in due'[v] : q[2] \notin notes'[q[1]]
      <4> SUFFICES ASSUME NEW v \in Tick, NEW q \in due'[v], q[2] \in notes'[q[1]]
                   PROVE  FALSE
        OBVIOUS
      <4>1. q \in due[v] /\ q[1] \in Reminder /\ q = <<q[1], q[2]>>
        BY <2>2 DEF TypeOK
      <4>2. q[2] \notin notes[q[1]]
        BY <4>1 DEF NotifiedOncePerSchedule
      <4>3. q = p
        BY <2>3, <4>1, <4>2
      <4> QED
        BY <2>4, <4>3
    <3> QED
      BY <2>2, <3>1 DEF NotifiedOncePerSchedule
  <2>7. RequestInv' /\ FiredWasDue'
    BY <1>2 DEF Notify, CreateNotification, RequestInv, FiredWasDue
  <2> QED
    BY <2>5, <2>6, <2>7
<1>3. ASSUME NEW w \in Tick, Timeout(w) PROVE SafeInv'
  BY <1>3 DEF Timeout, EpisodeInv, RequestInv, NotifiedOncePerSchedule,
              FiredWasDue, TypeOK
<1>4. CASE Elapse
  BY <1>4 DEF Elapse, EpisodeInv, RequestInv, NotifiedOncePerSchedule,
              FiredWasDue, TypeOK
<1>5. CASE Crash
  BY <1>5 DEF Crash, EpisodeInv, RequestInv, NotifiedOncePerSchedule,
              FiredWasDue, TypeOK
<1> QED
  BY <1>1, <1>2, <1>3, <1>4, <1>5 DEF TickStep

(* The invariant holds initially and every step keeps it.                  *)
LEMMA InitIInv == Init => IInv
  <1>1. Init => SafeInv
    BY DEF Init, SafeInv, EpisodeInv, RequestInv, NotifiedOncePerSchedule, FiredWasDue
  <1> QED
    BY <1>1, TypeInit DEF IInv, SafeInv

(* Every step of the specification, and stuttering, keeps the invariant.   *)
LEMMA StepIInv == IInv /\ [Next]_vars => IInv'
<1> SUFFICES ASSUME IInv, [Next]_vars PROVE IInv'
  OBVIOUS
<1>1. TypeOK /\ SafeInv /\ RequestInv
  BY DEF IInv, SafeInv
<1>2. CASE UNCHANGED vars
  BY <1>1, <1>2 DEF vars, batchVars, templateVars, rowVars, requestVars, history,
     IInv, TypeOK, EpisodeInv, RequestInv, NotifiedOncePerSchedule, FiredWasDue
<1>3. ASSUME NEW h \in Handler, RequestStart(h) PROVE IInv'
  BY <1>1, <1>3, TypeRequestStart, RequestStartKeeps DEF IInv, SafeInv
<1>4. ASSUME NEW h \in Handler, RequestStep(h) PROVE IInv'
  BY <1>1, <1>4, TypeRequestStep, RequestStepKeeps DEF IInv, SafeInv
<1>5. CASE (\E w \in Tick : TickStep(w) \/ Timeout(w)) \/ Elapse \/ Crash
  BY <1>1, <1>5, TypeTick, TickKeeps DEF IInv, SafeInv
<1> QED
  BY <1>2, <1>3, <1>4, <1>5 DEF Next

(* IInv is an invariant of the specification.                              *)
THEOREM Invariance == Spec => []IInv
  BY InitIInv, StepIInv, PTL DEF Spec

(* The state of batch, templates, reminders, ticks and requests stays well *)
(* formed.                                                                 *)
THEOREM TypeCorrect == Spec => []TypeOK
<1>1. IInv => TypeOK
  BY DEF IInv
<1> QED
  BY <1>1, Invariance, PTL

(* However ticks overlap, crash or time out and whatever the user patches, *)
(* a reminder is notified at most once each time it is scheduled.          *)
THEOREM NotifiedOnce == Spec => []NotifiedOncePerSchedule
<1>1. IInv => NotifiedOncePerSchedule
  BY DEF IInv
<1> QED
  BY <1>1, Invariance, PTL

(* Re-anchoring never un-fires: a fired reminder's time is past, unless    *)
(* the user moved it by hand.                                              *)
THEOREM FiringsWereDue == Spec => []FiredWasDue
<1>1. IInv => FiredWasDue
  BY DEF IInv
<1> QED
  BY <1>1, Invariance, PTL

-----------------------------------------------------------------------------
(* Materialization, while requests are serial                              *)

\* The INSERT ... SELECT of h writes the rows new, row r from f[r].
Adds(h, new, f) ==
  /\ batch \in Live
  /\ new \subseteq Reminder
  /\ \A r \in new :
       /\ status[r] = "absent" /\ status'[r] = "scheduled"
       /\ f[r] \in hsnap[h]
       /\ anchor[f[r].t] # "gone"
       /\ tmpl'[r] = f[r].t /\ fireAt'[r] = hat[h] + f[r].off
  /\ \A r, q \in new : f[r] = f[q] => r = q
  /\ \A r \in Reminder \ new :
       status'[r] = status[r] /\ tmpl'[r] = tmpl[r] /\ fireAt'[r] = fireAt[r]

(* It adds rows in this way or changes none.                               *)
LEMMA InsertAdds ==
  ASSUME NEW h \in Handler, Insert(h), ~UNCHANGED rowVars
  PROVE  \E new, f : Adds(h, new, f)
<1>1. PICK new \in SUBSET {r \in Reminder : status[r] = "absent"} :
        \E f \in Bijection(new, hsnap[h]) :
          /\ batch \in Live
          /\ \A x \in hsnap[h] : anchor[x.t] # "gone"
          /\ status' = [r \in Reminder |->
                          IF r \in new THEN "scheduled" ELSE status[r]]
          /\ tmpl' = [r \in Reminder |->
                        IF r \in new THEN f[r].t ELSE tmpl[r]]
          /\ fireAt' = [r \in Reminder |->
                          IF r \in new THEN hat[h] + f[r].off ELSE fireAt[r]]
  BY DEF Insert
<1>2. PICK f \in Bijection(new, hsnap[h]) :
        /\ batch \in Live
        /\ \A x \in hsnap[h] : anchor[x.t] # "gone"
        /\ status' = [r \in Reminder |->
                        IF r \in new THEN "scheduled" ELSE status[r]]
        /\ tmpl' = [r \in Reminder |->
                      IF r \in new THEN f[r].t ELSE tmpl[r]]
        /\ fireAt' = [r \in Reminder |->
                        IF r \in new THEN hat[h] + f[r].off ELSE fireAt[r]]
  BY <1>1
<1>3. \A r \in new : f[r] \in hsnap[h]
  BY DEF Bijection, Injection
<1>4. \A r, q \in new : f[r] = f[q] => r = q
  BY DEF Bijection, Injection, IsInjective
<1>5. Adds(h, new, f)
  BY <1>2, <1>3, <1>4 DEF Adds
<1> QED
  BY <1>5

(* A template has reminders only in a brewed batch, and its anchor is set: *)
(* a request in progress keeps it so, because what it selected exists.     *)
LEMMA TemplateStepKeeps ==
  ASSUME IInv, TemplateInv, NEW h \in Handler, RequestStep(h)
  PROVE  TemplateInv'
<1> USE DEF IInv, TypeOK, TemplateInv, RequestInv, batchVars, templateVars, rowVars, requestVars, history
<1>1. CASE Reanchor(h)
  BY <1>1 DEF Reanchor
<1>2. CASE Select(h)
  BY <1>2 DEF Select, Missing, Anchors
<1>3. CASE Insert(h)
  <2>1. \A g \in Handler :
          /\ hpc'[g] = "idle" => hanchor'[g] = "batch_start"
          /\ hpc'[g] \in {"reanchor", "select", "insert"} => batch \in {"brewed", "gone"}
          /\ hpc'[g] = "insert" => hpc[g] = "insert" /\ hsnap'[g] = hsnap[g]
    BY <1>3 DEF Insert, AfterMaterialize, Finish
  <2>2. UNCHANGED <<batch, anchor>>
    BY <1>3 DEF Insert
  <2>3. hpc[h] = "insert" /\ batch \in {"brewed", "gone"}
    BY <1>3 DEF Insert
  <2>4. ASSUME NEW r \in Reminder
        PROVE  /\ status'[r] = "absent" => tmpl'[r] = None
               /\ tmpl'[r] # None => batch = "brewed" /\ anchor[tmpl'[r]] # "none"
    <3>1. CASE UNCHANGED rowVars
      BY <3>1
    <3>2. ASSUME NEW new, NEW f, Adds(h, new, f)
          PROVE  /\ status'[r] = "absent" => tmpl'[r] = None
                 /\ tmpl'[r] # None => batch = "brewed" /\ anchor[tmpl'[r]] # "none"
      BY <2>3, <3>2 DEF Adds, Live
    <3> QED
      BY <1>3, <3>1, <3>2, InsertAdds
  <2> QED
    BY <2>1, <2>2, <2>4
<1>4. CASE WriteEvent(h)
  BY <1>4 DEF WriteEvent, Finish
<1>5. CASE AdvanceStage(h)
  BY <1>5 DEF AdvanceStage, Finish
<1> QED
  BY <1>1, <1>2, <1>3, <1>4, <1>5 DEF RequestStep

(* So do the requests that start.                                          *)
LEMMA TemplateStartKeeps ==
  ASSUME IInv, TemplateInv, NEW h \in Handler, RequestStart(h)
  PROVE  TemplateInv'
<1> USE RemindersAssumption DEF IInv, TypeOK, TemplateInv, Live, Anchors, batchVars, templateVars, rowVars, requestVars, history
<1>1. ASSUME NEW b \in Live, NEW s \in StageInput,
             NEW a \in AnchorTime \cup {None}, CreateBatch(h, b, s, a)
      PROVE  TemplateInv'
  BY <1>1 DEF CreateBatch, InsertBatch
<1>2. ASSUME NEW s \in StageInput \cup {None}, NEW a \in AnchorTime \cup {None},
             UpdateBatch(h, s, a)
      PROVE  TemplateInv'
  BY <1>2 DEF UpdateBatch, SetBatch
<1>3. CASE DeleteBatch(h)
  BY <1>3 DEF DeleteBatch, DropBatch
<1>4. ASSUME NEW k \in Kind, NEW a \in AnchorTime, BeginEvent(h, k, a)
      PROVE  TemplateInv'
  BY <1>4 DEF BeginEvent
<1>5. ASSUME NEW a \in ManualTime, CreateReminder(h, a)
      PROVE  TemplateInv'
  BY <1>5 DEF CreateReminder, InsertReminder
<1>6. ASSUME NEW r \in Reminder, NEW a \in ManualTime \cup {None},
             NEW s \in {"scheduled", "snoozed", "completed", "dismissed", None},
             UpdateReminder(h, r, s, a)
      PROVE  TemplateInv'
  BY <1>6 DEF UpdateReminder, SetReminder, Stored
<1>7. ASSUME NEW r \in Reminder, CancelReminder(h, r)
      PROVE  TemplateInv'
  BY <1>7 DEF CancelReminder, SetCancelled, Stored
<1>8. ASSUME NEW t \in Template, NEW k \in Kind \cup {"batch_start"},
             NEW o \in Offset, CreateTemplate(h, t, k, o)
      PROVE  TemplateInv'
  BY <1>8 DEF CreateTemplate, InsertTemplate
<1>9. ASSUME NEW t \in Template, NEW k \in Kind \cup {"batch_start"},
             NEW o \in Offset, UpdateTemplate(h, t, k, o)
      PROVE  TemplateInv'
  BY <1>9 DEF UpdateTemplate, SetTemplate
<1>10. ASSUME NEW t \in Template, DeleteTemplate(h, t)
      PROVE  TemplateInv'
  BY <1>10 DEF DeleteTemplate, DropTemplate, RowsOf
<1> HIDE DEF IInv, TypeOK, TemplateInv
<1> QED
  BY <1>1, <1>2, <1>3, <1>4, <1>5, <1>6, <1>7, <1>8, <1>9, <1>10 DEF RequestStart

(* So do ticks, the clock and a crash.                                     *)
LEMMA TemplateTickKeeps ==
  ASSUME IInv, TemplateInv,
         (\E w \in Tick : TickStep(w) \/ Timeout(w)) \/ Elapse \/ Crash
  PROVE  TemplateInv'
<1> USE DEF IInv, TypeOK, TemplateInv, batchVars, templateVars, rowVars, requestVars, history
<1>1. ASSUME NEW w \in Tick, Claim(w) PROVE TemplateInv'
  BY <1>1 DEF Claim, ClaimDueReminders, Due
<1>2. ASSUME NEW w \in Tick, NEW p \in due[w], Notify(w, p) PROVE TemplateInv'
  BY <1>2 DEF Notify
<1>3. ASSUME NEW w \in Tick, Timeout(w) PROVE TemplateInv'
  BY <1>3 DEF Timeout
<1>4. CASE Elapse
  BY <1>4 DEF Elapse
<1>5. CASE Crash
  BY <1>5 DEF Crash
<1> QED
  BY <1>1, <1>2, <1>3, <1>4, <1>5 DEF TickStep

(* TemplateInv is preserved with IInv.                                     *)
LEMMA TemplateKeeps == IInv /\ TemplateInv /\ [Next]_vars => TemplateInv'
<1>1. ASSUME TemplateInv, UNCHANGED vars PROVE TemplateInv'
  BY <1>1 DEF vars, TemplateInv, batchVars, templateVars, rowVars, requestVars, history
<1> QED
  BY <1>1, TemplateStepKeeps, TemplateStartKeeps, TemplateTickKeeps DEF Next

(* The snapshot stays right from the SELECT to the INSERT: no other request *)
(* runs, and a tick only turns scheduled reminders into fired ones.        *)
LEMMA SnapshotKeeps == IInv /\ SnapshotInv /\ [Next]_vars => SnapshotInv'
<1> SUFFICES ASSUME IInv, SnapshotInv, [Next]_vars, Serial,
                    NEW h \in Handler, hpc'[h] = "insert"
             PROVE  \A x \in hsnap'[h] :
                      /\ anchor'[x.t] = hanchor'[h]
                      /\ offset'[x.t] = x.off
                      /\ \A r \in RowsOf(x.t)' : ~Active(r)'
  BY DEF SnapshotInv, Serial
<1> USE DEF IInv, TypeOK, RowsOf, Stored, Active, batchVars, templateVars, rowVars, requestVars, history
<1>1. CASE Select(h)
  BY <1>1 DEF Select, Missing
<1>2. ASSUME NEW g \in Handler, RequestStart(g) \/ (RequestStep(g) /\ ~Select(g))
      PROVE  FALSE
  <2>1. g = h
    BY DEF Serial
  <2> QED
    BY <1>2, <2>1
       DEF RequestStart, RequestStep, Reanchor, Insert, AfterMaterialize,
           Finish, WriteEvent, AdvanceStage, CreateBatch, UpdateBatch,
           DeleteBatch, BeginEvent, CreateReminder, UpdateReminder,
           CancelReminder, CreateTemplate, UpdateTemplate, DeleteTemplate
<1>3. CASE Crash
  BY <1>3 DEF Crash
<1>4. ASSUME UNCHANGED <<templateVars, tmpl, requestVars>>,
             \A r \in Reminder : status'[r] # status[r] =>
                status[r] = "scheduled" /\ status'[r] = "fired"
      PROVE  \A x \in hsnap'[h] :
               /\ anchor'[x.t] = hanchor'[h]
               /\ offset'[x.t] = x.off
               /\ \A r \in RowsOf(x.t)' : ~Active(r)'
  BY <1>4 DEF SnapshotInv
<1>5. ASSUME NEW w \in Tick, Claim(w)
      PROVE  /\ UNCHANGED <<templateVars, tmpl, requestVars>>
             /\ \A r \in Reminder : status'[r] # status[r] =>
                status[r] = "scheduled" /\ status'[r] = "fired"
  BY <1>5 DEF Claim, ClaimDueReminders, Due
<1>6. ASSUME \/ \E w \in Tick : Timeout(w) \/ \E p \in due[w] : Notify(w, p)
             \/ Elapse \/ UNCHANGED vars
      PROVE  UNCHANGED <<templateVars, status, tmpl, requestVars>>
  BY <1>6 DEF Timeout, Notify, Elapse, vars
<1>7. \A g \in Handler : g = h
  BY DEF Serial
<1> QED
  BY <1>1, <1>2, <1>3, <1>4, <1>5, <1>6, <1>7 DEF Next, TickStep, RequestStep

(* No step makes a duplicate: what the INSERT writes is for templates      *)
(* without active reminders, one for each.                                 *)
LEMMA NoDuplicateKeeps ==
  IInv /\ TemplateInv /\ SnapshotInv /\ NoDuplicateReminders /\ [Next]_vars
    => NoDuplicateReminders'
<1> SUFFICES ASSUME IInv, TemplateInv, SnapshotInv, NoDuplicateReminders,
                    [Next]_vars, Serial,
                    NEW r \in Reminder, NEW q \in Reminder, r # q,
                    r \notin reopened', q \notin reopened',
                    Active(r)', Active(q)', tmpl'[r] = tmpl'[q], tmpl'[r] # None
             PROVE  FALSE
  BY DEF NoDuplicateReminders, Serial
<1>1. CASE r \notin reopened /\ q \notin reopened /\ Active(r) /\ Active(q)
           /\ tmpl'[r] = tmpl[r] /\ tmpl'[q] = tmpl[q]
  BY <1>1 DEF NoDuplicateReminders
<1> USE DEF IInv, TypeOK, Active, Stored, batchVars, templateVars, rowVars, requestVars, history
<1>2. ASSUME NEW h \in Handler, Insert(h), ~UNCHANGED rowVars PROVE FALSE
  <2>1. PICK new, f : Adds(h, new, f)
    BY <1>2, InsertAdds
  <2>2. hpc[h] = "insert" /\ reopened' = reopened
    BY <1>2 DEF Insert
  <2>3. ASSUME NEW x \in new PROVE f[x].t \in Template /\ f[x].off = offset[f[x].t]
    BY <2>1, <2>2 DEF Adds, SnapshotInv
  <2>4. ASSUME NEW x \in new, NEW y \in Reminder \ new, Active(y)
        PROVE  tmpl[y] # f[x].t
    BY <2>1, <2>2, <2>4 DEF Adds, SnapshotInv, RowsOf
  <2>5. CASE r \in new /\ q \in new
    <3>1. f[r].t = f[q].t
      BY <2>1, <2>5 DEF Adds
    <3>2. f[r] \in [t : Template, off : Int] /\ f[q] \in [t : Template, off : Int]
      BY <2>1, <2>5 DEF Adds
    <3>3. f[r] = f[q]
      BY <2>3, <2>5, <3>1, <3>2
    <3> QED
      BY <2>1, <2>5, <3>3 DEF Adds
  <2>6. CASE r \in new /\ q \notin new
    BY <2>1, <2>4, <2>6 DEF Adds
  <2>7. CASE r \notin new /\ q \in new
    BY <2>1, <2>4, <2>7 DEF Adds
  <2>8. CASE r \notin new /\ q \notin new
    BY <1>1, <2>1, <2>2, <2>8 DEF Adds
  <2> QED
    BY <2>5, <2>6, <2>7, <2>8
<1>3. ASSUME NEW h \in Handler, NEW a \in ManualTime, CreateReminder(h, a) PROVE FALSE
  BY <1>1, <1>3 DEF CreateReminder, InsertReminder, TemplateInv
<1>4. ASSUME NEW h \in Handler, NEW x \in Reminder, NEW a \in ManualTime \cup {None},
             NEW s \in {"scheduled", "snoozed", "completed", "dismissed", None},
             UpdateReminder(h, x, s, a)
      PROVE  FALSE
  BY <1>1, <1>4 DEF UpdateReminder, SetReminder
<1>5. ASSUME NEW h \in Handler, DeleteBatch(h) PROVE FALSE
  BY <1>5 DEF DeleteBatch, DropBatch
<1>6. ASSUME NEW h \in Handler, NEW x \in Reminder, CancelReminder(h, x) PROVE FALSE
  BY <1>1, <1>6 DEF CancelReminder, SetCancelled
<1>7. ASSUME NEW w \in Tick, Claim(w) PROVE FALSE
  BY <1>1, <1>7 DEF Claim, ClaimDueReminders, Due
<1>8. CASE UNCHANGED <<status, tmpl, reopened>>
  BY <1>1, <1>8
<1>9. ASSUME NEW h \in Handler, RequestStart(h)
      PROVE  \/ UNCHANGED <<status, tmpl, reopened>>
             \/ \E a \in ManualTime : CreateReminder(h, a)
             \/ \E x \in Reminder, a \in ManualTime \cup {None},
                   s \in {"scheduled", "snoozed", "completed", "dismissed", None} :
                  UpdateReminder(h, x, s, a)
             \/ DeleteBatch(h)
             \/ \E x \in Reminder : CancelReminder(h, x)
  BY <1>9 DEF RequestStart, CreateBatch, UpdateBatch, BeginEvent, CreateTemplate,
              UpdateTemplate, DeleteTemplate
<1>10. ASSUME NEW h \in Handler, RequestStep(h)
       PROVE  UNCHANGED <<status, tmpl, reopened>> \/ (Insert(h) /\ ~UNCHANGED rowVars)
  BY <1>10 DEF RequestStep, Reanchor, Select, Insert, WriteEvent, AdvanceStage
<1>11. ASSUME \/ \E w \in Tick : Timeout(w) \/ \E p \in due[w] : Notify(w, p)
              \/ Elapse \/ Crash \/ UNCHANGED vars
       PROVE  UNCHANGED <<status, tmpl, reopened>>
  BY <1>11 DEF Timeout, Notify, Elapse, Crash, vars
<1> QED
  BY <1>2, <1>3, <1>4, <1>5, <1>6, <1>7, <1>8, <1>9, <1>10, <1>11 DEF Next, TickStep

\* What StartInv promises of a request, and when it suspends the rest.
StartOf(h) ==
  hpc[h] \in {"reanchor", "select", "insert"} /\ hanchor[h] = "batch_start"
    => hat[h] = started
Moving(h) == hpc[h] = "reanchor" /\ hanchor[h] = "batch_start"

(* A request in progress carries the batch's start: it re-anchors every    *)
(* scheduled reminder by it, and those it inserts start there.             *)
LEMMA StartStepKeeps ==
  ASSUME IInv, TemplateInv, SnapshotInv, Serial, ~Faults,
         NEW h \in Handler, StartOf(h), RequestStep(h),
         Moving(h) \/ \A r \in Reminder \ moved : AtStart(r)
  PROVE  /\ StartOf(h)'
         /\ Moving(h)' \/ \A r \in Reminder \ moved' : AtStart(r)'
<1> USE DEF IInv, TypeOK, RequestInv, StartOf, Moving, AtStart, batchVars, templateVars, rowVars, requestVars, history
<1>1. CASE Reanchor(h)
  BY <1>1 DEF Reanchor, Reanchored
<1>2. CASE Select(h)
  BY <1>2 DEF Select
<1>3. CASE Insert(h)
  <2>1. /\ hpc[h] = "insert" /\ hpc'[h] \in {"idle", "advance"}
        /\ UNCHANGED <<batch, started, anchor, offset, moved>>
    BY <1>3 DEF Insert, AfterMaterialize, Finish, batchVars
  <2>2. ASSUME NEW r \in Reminder \ moved PROVE AtStart(r)'
    <3>1. CASE UNCHANGED rowVars
      BY <2>1, <2>2, <3>1
    <3>2. ASSUME NEW new, NEW f, Adds(h, new, f) PROVE AtStart(r)'
      <4>1. CASE r \in new
        <5>1. /\ f[r] \in hsnap[h] /\ tmpl'[r] = f[r].t
              /\ fireAt'[r] = hat[h] + f[r].off
          BY <3>2, <4>1 DEF Adds
        <5>2. anchor[f[r].t] = hanchor[h] /\ f[r].off = offset[f[r].t]
          BY <2>1, <5>1 DEF SnapshotInv
        <5> QED
          BY <2>1, <5>1, <5>2
      <4>2. CASE r \notin new
        BY <2>1, <2>2, <3>2, <4>2 DEF Adds
      <4> QED
        BY <4>1, <4>2
    <3> QED
      BY <1>3, <3>1, <3>2, InsertAdds
  <2> QED
    BY <2>1, <2>2
<1>4. CASE WriteEvent(h)
  BY <1>4 DEF WriteEvent, Finish
<1>5. CASE AdvanceStage(h)
  BY <1>5 DEF AdvanceStage, Finish
<1> QED
  BY <1>1, <1>2, <1>3, <1>4, <1>5 DEF RequestStep

(* A request that starts sets the batch's start and carries it, and        *)
(* excepts from the promise what the user moves.                           *)
LEMMA StartStartKeeps ==
  ASSUME IInv, TemplateInv, Serial, ~Faults,
         NEW h \in Handler, StartOf(h), RequestStart(h),
         Moving(h) \/ \A r \in Reminder \ moved : AtStart(r)
  PROVE  /\ StartOf(h)'
         /\ Moving(h)' \/ \A r \in Reminder \ moved' : AtStart(r)'
<1> USE RemindersAssumption DEF IInv, TypeOK, TemplateInv, Live, StartOf, Moving,
           AtStart, batchVars, templateVars, rowVars, requestVars, history
<1>1. ASSUME NEW b \in Live, NEW s \in StageInput,
             NEW a \in AnchorTime \cup {None}, CreateBatch(h, b, s, a)
      PROVE  /\ StartOf(h)'
             /\ Moving(h)' \/ \A r \in Reminder \ moved' : AtStart(r)'
  BY <1>1 DEF CreateBatch, InsertBatch
<1>2. ASSUME NEW s \in StageInput \cup {None}, NEW a \in AnchorTime \cup {None},
             UpdateBatch(h, s, a)
      PROVE  /\ StartOf(h)'
             /\ Moving(h)' \/ \A r \in Reminder \ moved' : AtStart(r)'
  BY <1>2 DEF UpdateBatch, SetBatch
<1>3. CASE DeleteBatch(h)
  BY <1>3 DEF DeleteBatch, DropBatch
<1>4. ASSUME NEW k \in Kind, NEW a \in AnchorTime, BeginEvent(h, k, a)
      PROVE  /\ StartOf(h)'
             /\ Moving(h)' \/ \A r \in Reminder \ moved' : AtStart(r)'
  BY <1>4 DEF BeginEvent
<1>5. ASSUME NEW a \in ManualTime, CreateReminder(h, a)
      PROVE  /\ StartOf(h)'
             /\ Moving(h)' \/ \A r \in Reminder \ moved' : AtStart(r)'
  BY <1>5 DEF CreateReminder, InsertReminder
<1>6. ASSUME NEW r \in Reminder, NEW a \in ManualTime \cup {None},
             NEW s \in {"scheduled", "snoozed", "completed", "dismissed", None},
             UpdateReminder(h, r, s, a)
      PROVE  /\ StartOf(h)'
             /\ Moving(h)' \/ \A q \in Reminder \ moved' : AtStart(q)'
  BY <1>6 DEF UpdateReminder, SetReminder, Stored
<1>7. ASSUME NEW r \in Reminder, CancelReminder(h, r)
      PROVE  /\ StartOf(h)'
             /\ Moving(h)' \/ \A q \in Reminder \ moved' : AtStart(q)'
  BY <1>7 DEF CancelReminder, SetCancelled, Stored
<1>8. ASSUME NEW t \in Template, NEW k \in Kind \cup {"batch_start"},
             NEW o \in Offset, CreateTemplate(h, t, k, o)
      PROVE  /\ StartOf(h)'
             /\ Moving(h)' \/ \A r \in Reminder \ moved' : AtStart(r)'
  BY <1>8 DEF CreateTemplate, InsertTemplate, Anchors
<1>9. ASSUME NEW t \in Template, NEW k \in Kind \cup {"batch_start"},
             NEW o \in Offset, UpdateTemplate(h, t, k, o)
      PROVE  /\ StartOf(h)'
             /\ Moving(h)' \/ \A r \in Reminder \ moved' : AtStart(r)'
  BY <1>9 DEF UpdateTemplate, SetTemplate, RowsOf, Stored
<1>10. ASSUME NEW t \in Template, DeleteTemplate(h, t)
      PROVE  /\ StartOf(h)'
             /\ Moving(h)' \/ \A r \in Reminder \ moved' : AtStart(r)'
  BY <1>10 DEF DeleteTemplate, DropTemplate, RowsOf, Stored
<1> HIDE DEF IInv, TypeOK, TemplateInv, StartOf, Moving, AtStart
<1> QED
  BY <1>1, <1>2, <1>3, <1>4, <1>5, <1>6, <1>7, <1>8, <1>9, <1>10 DEF RequestStart

(* StartInv is preserved: ticks take reminders out of scheduled only, and  *)
(* nothing else touches them.                                              *)
LEMMA StartKeeps ==
  IInv /\ TemplateInv /\ SnapshotInv /\ StartInv /\ [Next]_vars => StartInv'
<1> SUFFICES ASSUME IInv, TemplateInv, SnapshotInv, StartInv, [Next]_vars,
                    Serial, ~Faults
             PROVE  StartInv'
  BY DEF StartInv, Serial
<1>1. ASSUME NEW h \in Handler, RequestStep(h) \/ RequestStart(h) PROVE StartInv'
  <2>1. \A g \in Handler : g = h
    BY DEF Serial
  <2>2. /\ StartOf(h)
        /\ Moving(h) \/ \A r \in Reminder \ moved : AtStart(r)
    BY <2>1 DEF StartInv, StartOf, Moving
  <2>3. /\ StartOf(h)'
        /\ Moving(h)' \/ \A r \in Reminder \ moved' : AtStart(r)'
    BY <1>1, <2>2, StartStepKeeps, StartStartKeeps
  <2> QED
    BY <2>1, <2>3 DEF StartInv, StartOf, Moving
<1>2. ASSUME UNCHANGED <<batchVars, templateVars, tmpl, fireAt, requestVars, moved>>,
             \A r \in Reminder : status'[r] # status[r] =>
                status[r] = "scheduled" /\ status'[r] = "fired"
      PROVE  StartInv'
  <2>1. \A r \in Reminder : AtStart(r) => AtStart(r)'
    BY <1>2 DEF AtStart, batchVars, templateVars
  <2> QED
    BY <1>2, <2>1 DEF StartInv, batchVars, requestVars
<1>3. ASSUME NEW w \in Tick, Claim(w)
      PROVE  /\ UNCHANGED <<batchVars, templateVars, tmpl, fireAt, requestVars, moved>>
             /\ \A r \in Reminder : status'[r] # status[r] =>
                status[r] = "scheduled" /\ status'[r] = "fired"
  BY <1>3 DEF Claim, ClaimDueReminders, Due, IInv, TypeOK, history
<1>4. ASSUME \/ \E w \in Tick : Timeout(w) \/ \E p \in due[w] : Notify(w, p)
             \/ Elapse \/ UNCHANGED vars
      PROVE  UNCHANGED <<batchVars, templateVars, status, tmpl, fireAt, requestVars, moved>>
  BY <1>4 DEF Timeout, Notify, Elapse, vars, rowVars, history
<1>5. CASE Crash
  BY <1>5 DEF Crash
<1> QED
  BY <1>1, <1>2, <1>3, <1>4, <1>5 DEF Next, TickStep

\* What holds besides IInv, and what it implies.
SerialInv == TemplateInv /\ SnapshotInv /\ NoDuplicateReminders /\ StartInv

(* Together they are preserved.                                            *)
LEMMA StepSerialInv == IInv /\ SerialInv /\ [Next]_vars => SerialInv'
  BY TemplateKeeps, SnapshotKeeps, NoDuplicateKeeps, StartKeeps DEF SerialInv

(* They hold initially: there is no reminder and no request.               *)
LEMMA InitSerialInv == Init => SerialInv
  BY DEF Init, SerialInv, TemplateInv, SnapshotInv, NoDuplicateReminders,
         StartInv, AtStart, Active, Stored

(* While requests do not overlap, materializing the templates any number   *)
(* of times leaves at most one active reminder for each, but for those the *)
(* user reopened.                                                          *)
THEOREM NoDuplicates == Spec => []NoDuplicateReminders
<1>1. SerialInv => NoDuplicateReminders
  BY DEF SerialInv
<1> QED
  BY <1>1, Invariance, InitSerialInv, StepSerialInv, PTL DEF Spec

(* While requests do not overlap and nothing fails, once a request is done *)
(* every reminder of a batch_start template fires where the batch's start  *)
(* puts it, however often the start was moved, but for those the user set. *)
THEOREM FollowsStart == Spec => []RemindersFollowStart
<1>1. SerialInv => RemindersFollowStart
  BY DEF SerialInv, StartInv, RemindersFollowStart, Quiet
<1> QED
  BY <1>1, Invariance, InitSerialInv, StepSerialInv, PTL DEF Spec

=============================================================================
