------------------------------ MODULE Histories ------------------------------
(***************************************************************************)
(* What recipes promise those who refer to one, however requests overlap:  *)
(* a recipe is the list of its revisions, which only grows at its end; a   *)
(* fork starts as a revision of its source; a recipe that batches or forks *)
(* refer to stays, and one that was removed never comes back.              *)
(***************************************************************************)
EXTENDS Naturals, Sequences

CONSTANTS Recipe, Snapshot, None

VARIABLES
  history,  \* the revisions of each recipe, <<>> if it is not there
  source,   \* the recipe and revision a fork was made from, or None
  held,     \* the recipes that batches refer to
  removed   \* the recipes that are no longer there

There(r) == history[r] # <<>>

Init ==
  /\ history = [r \in Recipe |-> <<>>]
  /\ source = [r \in Recipe |-> None]
  /\ held = {}
  /\ removed = {}

Grow(r) ==
  /\ Len(history'[r]) = Len(history[r]) + 1
  /\ \A n \in DOMAIN history[r] : history'[r][n] = history[r][n]
  /\ \A q \in Recipe \ {r} : history'[q] = history[q]

Appear(r) ==
  /\ ~There(r)
  /\ r \notin removed
  /\ Grow(r)
  /\ UNCHANGED <<held, removed>>

Create(r) == Appear(r) /\ UNCHANGED source

\* The ingredients may be those of a revision made while the fork was.
Fork(r, p, n) ==
  /\ Appear(r)
  /\ history'[r][1].meta = history[p][n].meta
  /\ \E k \in n..Len(history[p]) : history'[r][1].ings = history[p][k].ings
  /\ source' = [source EXCEPT ![r] = <<p, n>>]

Revise(r) ==
  /\ There(r)
  /\ Grow(r)
  /\ UNCHANGED <<source, held, removed>>

Remove(r) ==
  /\ There(r)
  /\ r \notin held
  /\ \A f \in Recipe : There(f) /\ source[f] # None => source[f][1] # r
  /\ removed' = removed \cup {r}
  /\ history' = [history EXCEPT ![r] = <<>>]
  /\ UNCHANGED <<source, held>>

Hold(r) ==
  /\ There(r)
  /\ held' = held \cup {r}
  /\ UNCHANGED <<history, source, removed>>

Release(r) ==
  /\ held' = held \ {r}
  /\ UNCHANGED <<history, source, removed>>

Next ==
  /\ \E r \in Recipe :
       \/ Create(r)
       \/ \E p \in Recipe : \E n \in DOMAIN history[p] : Fork(r, p, n)
       \/ Revise(r)
       \/ Remove(r)
       \/ Hold(r)
       \/ Release(r)
  /\ history' \in [Recipe -> Seq(Snapshot)]

Spec == Init /\ [][Next]_<<history, source, held, removed>>

=============================================================================
