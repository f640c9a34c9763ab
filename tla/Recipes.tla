------------------------------ MODULE Recipes ------------------------------
(***************************************************************************)
(* Recipes, their revisions and forks: the rows of recipes, the rows of    *)
(* recipe_ingredients, the snapshots in recipe_revisions, and the requests *)
(* that create, update, fork and delete recipes and brew from them.        *)
(*                                                                         *)
(* An update or a fork reads first and opens its transaction afterwards.   *)
(* The transaction's first statement locks the recipe's row until it ends; *)
(* READ COMMITTED gives each statement the state committed by then, and    *)
(* what a transaction writes is seen by others on commit.  A statement     *)
(* whose result nobody sees before the commit is part of the commit.       *)
(*                                                                         *)
(* Users are left out: the author may do all of this to a recipe, and a    *)
(* request of another user is the same steps, or is refused and changes    *)
(* nothing.  So are the name, which a fork may choose, likes and comments. *)
(*                                                                         *)
(* An operator Mut... is the definition below it with a plausible mistake. *)
(* No action uses it; putting it in place shows that a property notices.   *)
(***************************************************************************)
EXTENDS FiniteSets, Integers

CONSTANTS
  Recipe,       \* ids of recipes rows; bounds how many are ever created
  Handler,      \* goroutines serving a request
  Meta,         \* contents of the other columns (style, targets, ...)
  Ings,         \* lists of ingredients
  MaxRevision,  \* bounds the revisions of one recipe
  None          \* no row, no change

Snapshot == [meta : Meta, ings : Ings]

ASSUME RecipesAssumption ==
  /\ IsFiniteSet(Recipe)
  /\ MaxRevision \in Nat \ {0}
  /\ None \notin Recipe \cup Meta \cup Ings \cup Snapshot

VARIABLES
  exists,   \* "absent" before the INSERT, "live", "gone" after the DELETE
  row,      \* its columns: meta, revision_count, the number current_revision_id has
  ings,     \* its recipe_ingredients
  snap,     \* its recipe_revisions by revision_number, None where there is none
  forks,    \* its fork_count
  parent,   \* its parent_id, kept after a DELETE as history
  pin,      \* the number of the revision parent_revision_id names, or 0
  brewed,   \* recipes with a revision some batch's recipe_revision_id names
  hpc,      \* where a request stands
  target,   \* the recipe it serves
  hrow,     \* the row it goes by: as it read it, then as UpdateRecipeMeta returned it
  hings     \* the ingredients it goes by

tables  == <<exists, row, ings, snap, forks, parent, pin, brewed>>
request == <<hpc, target, hrow, hings>>
vars == <<tables, request>>

Numbers == 1..MaxRevision
Row     == [meta : Meta \cup {None}, count : 0..MaxRevision, current : 0..MaxRevision]
NoRow   == [meta |-> None, count |-> 0, current |-> 0]

(* The whole state is well formed. *)
TypeOK ==
  /\ exists \in [Recipe -> {"absent", "live", "gone"}]
  /\ row \in [Recipe -> Row]
  /\ ings \in [Recipe -> Ings \cup {None}]
  /\ snap \in [Recipe -> [Numbers -> Snapshot \cup {None}]]
  /\ forks \in [Recipe -> Nat]
  /\ parent \in [Recipe -> Recipe \cup {None}]
  /\ pin \in [Recipe -> 0..MaxRevision]
  /\ brewed \subseteq Recipe
  /\ hpc \in [Handler -> {"idle", "meta", "ings", "revise", "list", "count", "fork"}]
  /\ target \in [Handler -> Recipe \cup {None}]
  /\ hrow \in [Handler -> Row]
  /\ hings \in [Handler -> Ings \cup {None}]

Init ==
  /\ exists = [r \in Recipe |-> "absent"]
  /\ row = [r \in Recipe |-> NoRow]
  /\ ings = [r \in Recipe |-> None]
  /\ snap = [r \in Recipe |-> [n \in Numbers |-> None]]
  /\ forks = [r \in Recipe |-> 0]
  /\ parent = [r \in Recipe |-> None]
  /\ pin = [r \in Recipe |-> 0]
  /\ brewed = {}
  /\ hpc = [h \in Handler |-> "idle"]
  /\ target = [h \in Handler |-> None]
  /\ hrow = [h \in Handler |-> NoRow]
  /\ hings = [h \in Handler |-> None]

-----------------------------------------------------------------------------
(* Rows                                                                    *)

Live(r) == exists[r] = "live"

\* The request is in its transaction, past the statement that locks the row.
InTx(h) == hpc[h] \in {"ings", "revise", "fork"}

(* An UPDATE or DELETE of the row waits. *)
Locked(r) == Live(r) /\ \E h \in Handler : InTx(h) /\ target[h] = r

Finish(h) ==
  /\ hpc' = [hpc EXCEPT ![h] = "idle"]
  /\ target' = [target EXCEPT ![h] = None]
  /\ hrow' = [hrow EXCEPT ![h] = NoRow]
  /\ hings' = [hings EXCEPT ![h] = None]

-----------------------------------------------------------------------------
(* The statements of the queries package                                   *)

GetRecipeByID(h, r) ==
  /\ Live(r)
  /\ target' = [target EXCEPT ![h] = r]
  /\ hrow' = [hrow EXCEPT ![h] = row[r]]

ListRecipeIngredients(h) == hings' = [hings EXCEPT ![h] = ings[target[h]]]

(* What is not given keeps its value: COALESCE($n, column).  The statement *)
(* returns the whole row as it is now.                                     *)
UpdateRecipeMeta(h, m) ==
  hrow' = [hrow EXCEPT ![h] =
             IF m = None THEN row[target[h]]
             ELSE [row[target[h]] EXCEPT !.meta = m]]

CreateRecipeIngredients(r, i) == ings' = [ings EXCEPT ![r] = i]

(* UNIQUE (recipe_id, revision_number) refuses a number already taken. *)
CreateRecipeRevision(r, n, m, i) ==
  /\ snap[r][n] = None
  /\ snap' = [snap EXCEPT ![r][n] = [meta |-> m, ings |-> i]]

SetRecipeRevision(r, m, n) ==
  row' = [row EXCEPT ![r] = [meta    |-> m,
                             count   |-> row[r].count + 1,
                             current |-> n]]

(* A new recipe, with its ingredients and revision 1. *)
Insert(r, m, i) ==
  /\ exists' = [exists EXCEPT ![r] = "live"]
  /\ ings' = [ings EXCEPT ![r] = i]
  /\ row' = [row EXCEPT ![r] = [meta |-> m, count |-> 1, current |-> 1]]
  /\ snap' = [snap EXCEPT ![r][1] = [meta |-> m, ings |-> i]]

CreateForkedRecipe(f, r, n) ==
  /\ parent' = [parent EXCEPT ![f] = r]
  /\ pin' = [pin EXCEPT ![f] = n]

(* Ingredients and revisions go with the recipe; but                       *)
(* recipes.parent_revision_id and batches.recipe_revision_id have no ON    *)
(* DELETE, so the statement fails while a fork or a batch names one of its *)
(* revisions.                                                              *)
HasForks(r) == \E f \in Recipe : Live(f) /\ parent[f] = r

DropRecipe(r) ==
  /\ Live(r)
  /\ r \notin brewed /\ ~HasForks(r)
  /\ exists' = [exists EXCEPT ![r] = "gone"]
  /\ row' = [row EXCEPT ![r] = NoRow]
  /\ ings' = [ings EXCEPT ![r] = None]
  /\ snap' = [snap EXCEPT ![r] = [n \in Numbers |-> None]]
  /\ forks' = [forks EXCEPT ![r] = 0]

-----------------------------------------------------------------------------
(* handleCreateRecipe: one transaction, of which nothing shows before its  *)
(* commit.                                                                 *)

CreateRecipe(h, r, m, i) ==
  /\ hpc[h] = "idle"
  /\ exists[r] = "absent"
  /\ Insert(r, m, i)
  /\ UNCHANGED <<forks, parent, pin, brewed, request>>

-----------------------------------------------------------------------------
(* handleUpdateRecipe                                                      *)

(* The check of the author. *)
UpdateRead(h, r) ==
  /\ hpc[h] = "idle"
  /\ GetRecipeByID(h, r)
  /\ hpc' = [hpc EXCEPT ![h] = "meta"]
  /\ UNCHANGED <<tables, hings>>

(* UpdateRecipeMeta, the first statement of the transaction, waits for the *)
(* row and returns it as it is now; deleted meanwhile, it answers 404.     *)
UpdateMeta(h, m) ==
  /\ hpc[h] = "meta"
  /\ ~Locked(target[h])
  /\ \/ /\ Live(target[h])
        /\ row[target[h]].count < MaxRevision
        /\ hpc' = [hpc EXCEPT ![h] = "ings"]
        /\ UpdateRecipeMeta(h, m)
        /\ UNCHANGED <<target, hings>>
     \/ ~Live(target[h]) /\ Finish(h)
  /\ UNCHANGED tables

(* The ingredients of the request replace the old ones, or the old ones    *)
(* are listed for the snapshot.                                            *)
MutReplaceOutsideTx(h, i) ==
  /\ hpc[h] = "ings"
  /\ hpc' = [hpc EXCEPT ![h] = "revise"]
  /\ ings' = [ings EXCEPT ![target[h]] = IF i = None THEN @ ELSE i]
  /\ hings' = [hings EXCEPT ![h] = IF i = None THEN ings[target[h]] ELSE i]
  /\ UNCHANGED <<exists, row, snap, forks, parent, pin, brewed, target, hrow>>
UpdateIngredients(h, i) ==
  /\ hpc[h] = "ings"
  /\ hpc' = [hpc EXCEPT ![h] = "revise"]
  /\ hings' = [hings EXCEPT ![h] = IF i = None THEN ings[target[h]] ELSE i]
  /\ UNCHANGED <<tables, target, hrow>>

(* CreateRecipeRevision with the next number, SetRecipeRevision and the    *)
(* commit.  A number already taken, which UNIQUE (recipe_id,               *)
(* revision_number) refuses, leaves only Abort.                            *)
MutReviseWithoutCurrent(h) ==
  /\ hpc[h] = "revise"
  /\ LET r == target[h]
         n == hrow[h].count + 1
     IN /\ snap[r][n] = None
        /\ row' = [row EXCEPT ![r].meta = hrow[h].meta, ![r].count = n]
        /\ ings' = [ings EXCEPT ![r] = hings[h]]
        /\ snap' = [snap EXCEPT ![r][n] = [meta |-> hrow[h].meta, ings |-> hings[h]]]
  /\ Finish(h)
  /\ UNCHANGED <<exists, forks, parent, pin, brewed>>
MutReviseInPlace(h) ==
  /\ hpc[h] = "revise"
  /\ LET r == target[h]
         m == hrow[h].meta
     IN /\ snap' = [snap EXCEPT ![r][row[r].count] = [meta |-> m, ings |-> hings[h]]]
        /\ row' = [row EXCEPT ![r].meta = m]
        /\ CreateRecipeIngredients(r, hings[h])
  /\ Finish(h)
  /\ UNCHANGED <<exists, forks, parent, pin, brewed>>
Revise(h) ==
  /\ hpc[h] = "revise"
  /\ LET r == target[h]
         m == hrow[h].meta
         n == hrow[h].count + 1
     IN /\ CreateRecipeRevision(r, n, m, hings[h])
        /\ SetRecipeRevision(r, m, n)
        /\ CreateRecipeIngredients(r, hings[h])
  /\ Finish(h)
  /\ UNCHANGED <<exists, forks, parent, pin, brewed>>

-----------------------------------------------------------------------------
(* handleForkRecipe                                                        *)

ForkRead(h, r) ==
  /\ hpc[h] = "idle"
  /\ GetRecipeByID(h, r)
  /\ hpc' = [hpc EXCEPT ![h] = "list"]
  /\ UNCHANGED <<tables, hings>>

(* Still outside the transaction. *)
ForkList(h) ==
  /\ hpc[h] = "list"
  /\ hpc' = [hpc EXCEPT ![h] = "count"]
  /\ ListRecipeIngredients(h)
  /\ UNCHANGED <<tables, target, hrow>>

(* IncrementForkCount locks the row; that it finds none is no error. *)
MutCountOutsideTx(h) ==
  /\ hpc[h] = "count"
  /\ ~Locked(target[h])
  /\ hpc' = [hpc EXCEPT ![h] = "fork"]
  /\ forks' = IF Live(target[h]) THEN [forks EXCEPT ![target[h]] = @ + 1] ELSE forks
  /\ UNCHANGED <<exists, row, ings, snap, parent, pin, brewed, target, hrow, hings>>
IncrementForkCount(h) ==
  /\ hpc[h] = "count"
  /\ ~Locked(target[h])
  /\ hpc' = [hpc EXCEPT ![h] = "fork"]
  /\ UNCHANGED <<tables, target, hrow, hings>>

(* CreateForkedRecipe with the row read before, its ingredients, revision  *)
(* 1 and the commit.  A parent deleted meanwhile breaks a foreign key.     *)
MutPinCurrentNow(h) ==
  /\ hpc[h] = "fork"
  /\ Live(target[h])
  /\ \E f \in Recipe :
       /\ exists[f] = "absent"
       /\ Insert(f, hrow[h].meta, hings[h])
       /\ parent' = [parent EXCEPT ![f] = target[h]]
       /\ pin' = [pin EXCEPT ![f] = row[target[h]].current]
  /\ forks' = [forks EXCEPT ![target[h]] = @ + 1]
  /\ Finish(h)
  /\ UNCHANGED brewed
Fork(h) ==
  /\ hpc[h] = "fork"
  /\ \/ /\ Live(target[h])
        /\ \E f \in Recipe :
             /\ exists[f] = "absent"
             /\ Insert(f, hrow[h].meta, hings[h])
             /\ CreateForkedRecipe(f, target[h], hrow[h].current)
        /\ forks' = [forks EXCEPT ![target[h]] = @ + 1]
     \/ /\ ~Live(target[h])
        /\ UNCHANGED <<exists, row, ings, snap, forks, parent, pin>>
  /\ Finish(h)
  /\ UNCHANGED brewed

-----------------------------------------------------------------------------
(* handleDeleteRecipe, batches, broken-off requests                        *)

(* One statement, which waits for the row. *)
DeleteRecipe(h, r) ==
  /\ hpc[h] = "idle"
  /\ ~Locked(r)
  /\ DropRecipe(r)
  /\ UNCHANGED <<parent, pin, brewed, request>>

(* handleCreateBatch with a recipe, pinning the revision it read (the      *)
(* foreign keys want both still there), and the end of its last batch.     *)
Brew(h, r) ==
  /\ hpc[h] = "idle"
  /\ Live(r)
  /\ brewed' = brewed \cup {r}
  /\ UNCHANGED <<exists, row, ings, snap, forks, parent, pin, request>>

Unbrew(h, r) ==
  /\ hpc[h] = "idle"
  /\ brewed' = brewed \ {r}
  /\ UNCHANGED <<exists, row, ings, snap, forks, parent, pin, request>>

(* The client goes away, a statement fails or the process dies: nothing    *)
(* was committed, the transaction rolls back.                              *)
Abort(h) ==
  /\ hpc[h] # "idle"
  /\ Finish(h)
  /\ UNCHANGED tables

Next ==
  \E h \in Handler :
    \/ \E r \in Recipe :
         \/ \E m \in Meta, i \in Ings : CreateRecipe(h, r, m, i)
         \/ UpdateRead(h, r)
         \/ ForkRead(h, r)
         \/ DeleteRecipe(h, r)
         \/ Brew(h, r)
         \/ Unbrew(h, r)
    \/ \E m \in Meta \cup {None} : UpdateMeta(h, m)
    \/ \E i \in Ings \cup {None} : UpdateIngredients(h, i)
    \/ Revise(h)
    \/ ForkList(h)
    \/ IncrementForkCount(h)
    \/ Fork(h)
    \/ Abort(h)

Spec == Init /\ [][Next]_vars

-----------------------------------------------------------------------------
(* Properties                                                              *)

(* "Always creates a new revision": however updates overlap, a recipe's    *)
(* revisions are numbered 1 to revision_count without a gap, and the       *)
(* newest is the current one.                                              *)
RevisionsNumbered ==
  \A r \in Recipe :
    /\ \A n \in Numbers : snap[r][n] # None <=> n <= row[r].count
    /\ row[r].current = row[r].count
    /\ Live(r) <=> row[r].count > 0

(* The current revision is a snapshot of the recipe as it is: no update    *)
(* records ingredients or columns that another one has replaced.           *)
SnapshotIsCurrent ==
  \A r \in Recipe :
    Live(r) => snap[r][row[r].current] = [meta |-> row[r].meta, ings |-> ings[r]]

(* No update is lost to another one: the number it takes is free when it   *)
(* inserts its revision.                                                   *)
NumberIsFree ==
  \A h \in Handler : hpc[h] = "revise" => snap[target[h]][hrow[h].count + 1] = None

(* fork_count counts the forks ever made of a recipe, though forks overlap *)
(* with each other and with updates, and some of them break off.           *)
ForkCountExact ==
  \A r \in Recipe :
    Live(r) => forks[r] = Cardinality({f \in Recipe : parent[f] = r})

\* The ingredients i are those of revision k of r or of a later one.
FromRevision(r, k, i) ==
  \E n \in k..MaxRevision : snap[r][n] # None /\ snap[r][n].ings = i

(* A fork starts from its source: the revision it is pinned to is there,   *)
(* whatever was deleted since, its columns are that revision's, and its    *)
(* ingredients are those of that revision or of a later one, as an update  *)
(* may come between the two reads.                                         *)
ForkFollowsPin ==
  \A f \in Recipe :
    Live(f) /\ parent[f] # None =>
      LET source == snap[parent[f]]
      IN /\ source[pin[f]] # None
         /\ source[pin[f]].meta = snap[f][1].meta
         /\ FromRevision(parent[f], pin[f], snap[f][1].ings)

\* How recipes appear to those who refer to them.
Revisions(r) == [n \in 1..row[r].count |-> snap[r][n]]
Abstract == INSTANCE Histories WITH
  history <- [r \in Recipe |-> Revisions(r)],
  source  <- [r \in Recipe |-> IF parent[r] = None THEN None ELSE <<parent[r], pin[r]>>],
  held    <- brewed,
  removed <- {r \in Recipe : exists[r] = "gone"}

(* A recipe keeps the promise of Histories to forks and batches: no update *)
(* rewrites or drops a revision, and what they refer to is not deleted.    *)
ImplementsHistories == Abstract!Spec

-----------------------------------------------------------------------------
(* The inductive invariant behind the properties                           *)

(* Only one transaction at a time is past the lock of a row that is there, *)
(* so what an update goes by stays true until it commits.                  *)
LockInv ==
  \A h \in Handler :
    /\ hpc[h] = "idle" <=> target[h] = None
    /\ hpc[h] # "idle" => exists[target[h]] # "absent"
    /\ hpc[h] \in {"ings", "revise"} =>
         /\ Live(target[h])
         /\ hrow[h].meta \in Meta
         /\ hrow[h].count = row[target[h]].count
         /\ hrow[h].count < MaxRevision
    /\ hpc[h] = "revise" => hings[h] \in Ings
    /\ \A g \in Handler \ {h} :
         InTx(g) /\ InTx(h) /\ target[g] = target[h] => ~Live(target[h])

(* What a fork read before its transaction are columns of one revision and *)
(* ingredients of that or a later one, for as long as the source is there. *)
ForkInv ==
  \A h \in Handler :
    hpc[h] \in {"list", "count", "fork"} /\ Live(target[h]) =>
      LET source == snap[target[h]]
      IN /\ hrow[h].current \in Numbers
         /\ source[hrow[h].current] # None
         /\ source[hrow[h].current].meta = hrow[h].meta
         /\ hpc[h] # "list" => FromRevision(target[h], hrow[h].current, hings[h])

(* A source stays while it has a fork; nothing is a fork of what never was.*)
ParentInv ==
  \A r \in Recipe :
    /\ exists[r] = "absent" => parent[r] = None /\ forks[r] = 0
    /\ parent[r] # None => exists[parent[r]] # "absent" /\ pin[r] \in Numbers
    /\ Live(r) /\ parent[r] # None => Live(parent[r])

(* The conjunction that every step preserves.                              *)
IInv ==
  /\ TypeOK
  /\ LockInv
  /\ ForkInv
  /\ ParentInv
  /\ RevisionsNumbered
  /\ SnapshotIsCurrent
  /\ ForkCountExact
  /\ ForkFollowsPin

=============================================================================
