------------------------------- MODULE Lists -------------------------------
(***************************************************************************)
(* A list that a client reads page by page while others write to it:       *)
(* batches, readings and events of a batch, public recipes, recipes of an  *)
(* author, comments of a recipe, notifications.  A page is one SELECT of   *)
(* the rows after the cursor, which is the sort key and the id of the last *)
(* row of the page before; the client asks again until there is no cursor. *)
(*                                                                         *)
(* One behaviour is about one list, `list`.  A row is its sort key, 0      *)
(* where there is no row; its other columns are left out.  Ids are numbers *)
(* for their order; one is free again once its row is deleted, standing    *)
(* for a new id.  A handler that first looks whether the batch or recipe   *)
(* is there writes nothing if it goes meanwhile, by its foreign key, and   *)
(* is one action.  A time from the clock may be earlier than one already   *)
(* in the table, as now() is the start of a transaction.                   *)
(*                                                                         *)
(* An operator Mut... is the definition below it with a plausible mistake. *)
(* No action uses it; putting it in place shows that a property notices.   *)
(***************************************************************************)
EXTENDS Integers, FiniteSets

CONSTANTS
  Row,       \* ids
  MaxTime,   \* bounds the times
  MaxLimit,  \* maxPageLimit
  None

ASSUME ListsAssumption ==
  /\ Row \subseteq Nat \ {0}
  /\ IsFiniteSet(Row)
  /\ MaxTime \in Nat
  /\ MaxLimit \in Nat \ {0}
  /\ None \notin [ts : 1..MaxTime, id : Row]

VARIABLES
  list,    \* which list it is
  parent,  \* the batch or recipe it belongs to is there
  key,     \* the sort key of each row, 0 where there is none
  at,      \* the client: idle, paging, done, or failed with a 404
  cursor,  \* next_cursor of the page before
  got,     \* rows in a page so far
  twice,   \* history: rows in two of them
  moved    \* history: rows created or sorted elsewhere since the client began

reader == <<at, cursor, got, twice>>
vars == <<list, parent, key, reader, moved>>

Time == 1..MaxTime
Ascending  == {"readings", "events", "comments"}
Descending == {"batches", "public recipes", "my recipes", "notifications"}
Cursor == [ts : Time, id : Row]

(* The whole state is well formed. *)
TypeOK ==
  /\ list \in Ascending \cup Descending
  /\ parent \in BOOLEAN
  /\ key \in [Row -> 0..MaxTime]
  /\ at \in {"idle", "paging", "done", "failed"}
  /\ cursor \in Cursor \cup {None}
  /\ got \subseteq Row
  /\ twice \subseteq got
  /\ moved \subseteq Row

Init ==
  /\ list \in Ascending \cup Descending
  /\ parent = TRUE
  /\ key \in [Row -> 0..MaxTime]
  /\ at = "idle"
  /\ cursor = None
  /\ got = {}
  /\ twice = {}
  /\ moved = {}

-----------------------------------------------------------------------------
(* Pages                                                                   *)

Position(r) == [ts |-> key[r], id |-> r]

(* The row comparison (ts, id) < (ts, id) of PostgreSQL. *)
Less(p, q) == p.ts < q.ts \/ (p.ts = q.ts /\ p.id < q.id)
Before(p, q) == IF list \in Ascending THEN Less(p, q) ELSE Less(q, p)

Table == {r \in Row : key[r] # 0}

(* WHERE cursor_ts IS NULL OR (key, id) is beyond the cursor *)
MutRestByTime ==
  {r \in Table : cursor = None \/ (Before(cursor, Position(r)) /\ key[r] # cursor.ts)}
Rest == {r \in Table : cursor = None \/ Before(cursor, Position(r))}

(* ORDER BY key, id LIMIT n *)
FirstOfRest(P, n) ==
  /\ P \subseteq Rest
  /\ IF Cardinality(Rest) < n THEN P = Rest ELSE Cardinality(P) = n
  /\ \A r \in P, s \in Rest \ P : Before(Position(r), Position(s))

ListBatchesForUser(P, n)      == list = "batches" /\ FirstOfRest(P, n)
ListReadingsForBatch(P, n)    == list = "readings" /\ FirstOfRest(P, n)
ListBatchEventsForBatch(P, n) == list = "events" /\ FirstOfRest(P, n)
ListPublicRecipes(P, n)       == list = "public recipes" /\ FirstOfRest(P, n)
ListRecipesForAuthor(P, n)    == list = "my recipes" /\ FirstOfRest(P, n)
ListRecipeComments(P, n)      == list = "comments" /\ FirstOfRest(P, n)
ListNotifications(P, n)       == list = "notifications" /\ FirstOfRest(P, n)

(* A page that is not full has no next one; the others are followed by     *)
(* what comes after their last row.                                        *)
NextCursor(P, n) ==
  IF Cardinality(P) < n
  THEN cursor' = None
  ELSE \E r \in P : /\ \A s \in P : s = r \/ Before(Position(s), Position(r))
                    /\ cursor' = Position(r)

(* limit is 1..maxPageLimit, or the request answers 400. *)
ParseListPagination(n) == n \in 1..MaxLimit

-----------------------------------------------------------------------------
(* The client                                                              *)

(* It may leave off a list at any time and begin with it again. *)
Begin ==
  /\ at' = "paging"
  /\ cursor' = None
  /\ got' = {}
  /\ twice' = {}
  /\ moved' = {}
  /\ UNCHANGED <<list, parent, key>>

Serve(P, n) ==
  /\ at = "paging"
  /\ ParseListPagination(n)
  /\ NextCursor(P, n)
  /\ at' = IF cursor' = None THEN "done" ELSE "paging"
  /\ got' = got \cup P
  /\ twice' = twice \cup (got \cap P)
  /\ UNCHANGED <<list, parent, key, moved>>

HandleListBatches(P, n)       == ListBatchesForUser(P, n) /\ Serve(P, n)
HandleListReadings(P, n)      == parent /\ ListReadingsForBatch(P, n) /\ Serve(P, n)
HandleListBatchEvents(P, n)   == parent /\ ListBatchEventsForBatch(P, n) /\ Serve(P, n)
HandleListRecipes(P, n)       == ListPublicRecipes(P, n) /\ Serve(P, n)
HandleListMyRecipes(P, n)     == ListRecipesForAuthor(P, n) /\ Serve(P, n)
HandleListComments(P, n)      == parent /\ ListRecipeComments(P, n) /\ Serve(P, n)
HandleListNotifications(P, n) == ListNotifications(P, n) /\ Serve(P, n)

(* The batch or recipe is gone: the page is a 404. *)
ListFails ==
  /\ at = "paging"
  /\ ~parent
  /\ at' = "failed"
  /\ UNCHANGED <<list, parent, key, cursor, got, twice, moved>>

-----------------------------------------------------------------------------
(* Writers                                                                 *)

Insert(r, t) ==
  /\ parent
  /\ key[r] = 0
  /\ key' = [key EXCEPT ![r] = t]
  /\ moved' = moved \cup {r}
  /\ UNCHANGED <<list, parent, reader>>

(* COALESCE(t, key): a patch without a time keeps it. *)
Update(r, t) ==
  /\ r \in Table
  /\ IF t \in {0, key[r]}
     THEN UNCHANGED <<key, moved>>
     ELSE /\ key' = [key EXCEPT ![r] = t]
          /\ moved' = moved \cup {r}
  /\ UNCHANGED <<list, parent, reader>>

Delete(R) ==
  /\ key' = [r \in Row |-> IF r \in R THEN 0 ELSE key[r]]
  /\ UNCHANGED <<list, parent, reader, moved>>

CreateReading(r, t)   == list = "readings" /\ Insert(r, t)
UpdateReading(r, t)   == list = "readings" /\ Update(r, t)
DeleteReading(r)      == list = "readings" /\ Delete({r})
DeleteReadingsBulk(R) == list = "readings" /\ Delete(R)

CreateBatchEvent(r, t) == list = "events" /\ Insert(r, t)
UpdateBatchEvent(r, t) == list = "events" /\ Update(r, t)
DeleteBatchEvent(r)    == list = "events" /\ Delete({r})

(* The key of a batch is COALESCE(started_at, created_at). *)
CreateBatch(r, t) == list = "batches" /\ Insert(r, t)
UpdateBatch(r, t) == list = "batches" /\ Update(r, t)
DeleteBatch(r)    == list = "batches" /\ Delete({r})

CreateRecipeComment(r, t) == list = "comments" /\ Insert(r, t)
DeleteRecipeComment(r)    == list = "comments" /\ Delete({r})

CreateNotification(r, t)   == list = "notifications" /\ Insert(r, t)
DeleteNotificationsForUser == list = "notifications" /\ Delete(Row)

(* The key of a recipe is updated_at, which every update sets to now().    *)
(* An update that makes it public or private puts it into or out of the    *)
(* public list.                                                            *)
Recipes == {"public recipes", "my recipes"}
CreateRecipe(r, t)   == list \in Recipes /\ Insert(r, t)
UpdateRecipe(r, t)   == list \in Recipes /\ Update(r, t)
PublishRecipe(r, t)  == list = "public recipes" /\ Insert(r, t)
WithdrawRecipe(r)    == list = "public recipes" /\ Delete({r})
DeleteRecipe(r)      == list \in Recipes /\ Delete({r})

(* ON DELETE CASCADE takes the list with its batch or recipe. *)
DeleteParent ==
  /\ parent
  /\ list \in {"readings", "events", "comments"}
  /\ parent' = FALSE
  /\ key' = [r \in Row |-> 0]
  /\ UNCHANGED <<list, reader, moved>>

-----------------------------------------------------------------------------
ListPage ==
  \E P \in SUBSET Row, n \in 1..MaxLimit :
    \/ HandleListBatches(P, n)
    \/ HandleListReadings(P, n)
    \/ HandleListBatchEvents(P, n)
    \/ HandleListRecipes(P, n)
    \/ HandleListMyRecipes(P, n)
    \/ HandleListComments(P, n)
    \/ HandleListNotifications(P, n)

Create ==
  \E r \in Row, t \in Time :
    \/ CreateReading(r, t)
    \/ CreateBatchEvent(r, t)
    \/ CreateBatch(r, t)
    \/ CreateRecipeComment(r, t)
    \/ CreateNotification(r, t)
    \/ CreateRecipe(r, t)
    \/ PublishRecipe(r, t)

Change ==
  \E r \in Row :
    \/ \E t \in Time : UpdateRecipe(r, t)
    \/ \E t \in {0} \cup Time :
         UpdateReading(r, t) \/ UpdateBatchEvent(r, t) \/ UpdateBatch(r, t)

Remove ==
  \/ DeleteNotificationsForUser
  \/ \E R \in SUBSET Row : DeleteReadingsBulk(R)
  \/ \E r \in Row :
       \/ DeleteReading(r)
       \/ DeleteBatchEvent(r)
       \/ DeleteBatch(r)
       \/ DeleteRecipeComment(r)
       \/ WithdrawRecipe(r)
       \/ DeleteRecipe(r)

Next ==
  \/ Begin
  \/ ListPage
  \/ ListFails
  \/ Create
  \/ Change
  \/ Remove
  \/ DeleteParent

Spec == Init /\ [][Next]_vars

-----------------------------------------------------------------------------
(* Properties                                                              *)

(* A client that follows the cursors to the end gets every row that stayed *)
(* where it was, exactly once, whatever was written between two pages: no  *)
(* other row's insertion, deletion or move makes a page skip or repeat it. *)
PagesComplete ==
  \A r \in Row \ moved :
    /\ r \notin twice
    /\ at = "done" /\ r \in Table => r \in got

=============================================================================
