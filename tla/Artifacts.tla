----------------------------- MODULE Artifacts -----------------------------
(***************************************************************************)
(* What the export pipeline and the backup pipeline promise, seen from the *)
(* rows a client polls and the files it downloads, whoever does the work:  *)
(* a job that was requested is worked on once, its artifact is offered     *)
(* only when all of it is stored, it stays whole in the store for as long  *)
(* as it is offered, and once withdrawn it is never offered again.         *)
(*                                                                         *)
(* One step of the implementation may move several jobs, each by one Step. *)
(***************************************************************************)
CONSTANT Job

VARIABLES
  phase,  \* how far each job has come
  whole   \* the jobs whose whole artifact is in the store

Phases == {"absent", "queued", "working", "offered", "over"}

Init ==
  /\ phase = [j \in Job |-> "absent"]
  /\ whole = {}

Becomes(j, p) == phase'[j] = p /\ (j \in whole' <=> j \in whole)

Request(j)  == phase[j] = "absent" /\ Becomes(j, "queued")
Start(j)    == phase[j] = "queued" /\ Becomes(j, "working")
Offer(j)    == phase[j] = "working" /\ j \in whole /\ Becomes(j, "offered")

\* It failed, was used up, ran out, or its owner went.
Withdraw(j) == phase[j] \in {"queued", "working", "offered"} /\ Becomes(j, "over")

\* Only a job in work stores its artifact; one withdrawn meanwhile may still
\* do so, and nobody offers it any more.
Store(j) ==
  /\ phase[j] \in {"working", "over"}
  /\ j \in whole'
  /\ phase'[j] = phase[j]

\* What is offered stays.
Remove(j) ==
  /\ phase[j] # "offered"
  /\ j \notin whole'
  /\ phase'[j] = phase[j]

Same(j) == Becomes(j, phase[j])

Step(j) == Request(j) \/ Start(j) \/ Offer(j) \/ Withdraw(j) \/ Store(j)
             \/ Remove(j) \/ Same(j)

Next ==
  /\ phase' \in [Job -> Phases]
  /\ whole' \subseteq Job
  /\ \A j \in Job : Step(j)

Spec == Init /\ [][Next]_<<phase, whole>>

=============================================================================
