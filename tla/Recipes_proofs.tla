--------------------------- MODULE Recipes_proofs ---------------------------
(* Proofs about Recipes, for every set of recipes, requests and contents   *)
(* and every bound on the revisions.                                       *)
EXTENDS Recipes, Sequences, FiniteSetTheorems, TLAPS

\* What the tables say, whatever the requests are doing.
TableInv ==
  /\ ParentInv
  /\ RevisionsNumbered
  /\ SnapshotIsCurrent
  /\ ForkCountExact
  /\ ForkFollowsPin

(* The invariant holds before the first recipe is created.                 *)
LEMMA InitIInv == Init => IInv
<1> SUFFICES ASSUME Init PROVE IInv
  OBVIOUS
<1> USE RecipesAssumption DEF Init, NoRow, Numbers, Live
<1>1. TypeOK
  BY DEF TypeOK, Row
<1>2. LockInv /\ ForkInv /\ ParentInv
  BY DEF LockInv, ForkInv, ParentInv, InTx
<1>3. RevisionsNumbered /\ SnapshotIsCurrent /\ ForkCountExact /\ ForkFollowsPin
  BY DEF RevisionsNumbered, SnapshotIsCurrent, ForkCountExact, ForkFollowsPin
<1> QED
  BY <1>1, <1>2, <1>3 DEF IInv

(* The current revision of a recipe is its newest, and shows it as it is.  *)
LEMMA CurrentRevision ==
  ASSUME IInv, NEW r \in Recipe, Live(r)
  PROVE  /\ row[r].current \in Numbers /\ row[r].current = row[r].count
         /\ snap[r][row[r].current] \in Snapshot
         /\ snap[r][row[r].current] # None
         /\ snap[r][row[r].current].meta = row[r].meta
         /\ snap[r][row[r].current].ings = ings[r]
         /\ row[r].meta \in Meta /\ ings[r] \in Ings
<1>1. /\ row[r].count \in 0..MaxRevision /\ row[r].count > 0
      /\ row[r].current = row[r].count
      /\ \A n \in Numbers : snap[r][n] # None <=> n <= row[r].count
  BY DEF IInv, TypeOK, Row, RevisionsNumbered
<1>2. row[r].current \in Numbers
  BY <1>1, RecipesAssumption DEF Numbers
<1>3. /\ snap[r][row[r].current] \in Snapshot \cup {None}
      /\ snap[r][row[r].current] # None
  <2>1. snap[r] \in [Numbers -> Snapshot \cup {None}]
    BY DEF IInv, TypeOK
  <2>2. row[r].current <= row[r].count
    BY <1>1
  <2> QED
    BY <1>1, <1>2, <2>1, <2>2
<1>4. snap[r][row[r].current] = [meta |-> row[r].meta, ings |-> ings[r]]
  BY DEF IInv, SnapshotIsCurrent
<1> QED
  BY <1>1, <1>2, <1>3, <1>4 DEF Snapshot

(* A recipe that is not there has no revision.                             *)
LEMMA NoRevision ==
  ASSUME IInv, NEW r \in Recipe, ~Live(r)
  PROVE  row[r].count = 0 /\ row[r].current = 0 /\ \A n \in Numbers : snap[r][n] = None
<1>1. /\ row[r].count \in 0..MaxRevision /\ ~(row[r].count > 0)
      /\ row[r].current = row[r].count
      /\ \A n \in Numbers : snap[r][n] # None <=> n <= row[r].count
  BY DEF IInv, TypeOK, Row, RevisionsNumbered
<1> QED
  BY <1>1, RecipesAssumption DEF Numbers

(* Only recipes and their parents matter to the fork counts.               *)
LEMMA CountsKeep ==
  ASSUME ForkCountExact, UNCHANGED <<exists, forks, parent>>
  PROVE  ForkCountExact'
BY DEF ForkCountExact, Live

(* A step that leaves the tables alone keeps what they say.                *)
LEMMA TablesKeep ==
  ASSUME TableInv, UNCHANGED tables
  PROVE  TableInv'
BY DEF TableInv, tables, ParentInv, RevisionsNumbered, SnapshotIsCurrent,
       ForkCountExact, ForkFollowsPin, FromRevision, Live

(* So does a step of one request that only reads, or ends the request.     *)
LEMMA ReadKeeps ==
  ASSUME IInv, NEW h \in Handler,
         \/ \E r \in Recipe : UpdateRead(h, r) \/ ForkRead(h, r)
         \/ ForkList(h)
         \/ IncrementForkCount(h)
         \/ Abort(h)
  PROVE  IInv'
<1> USE RecipesAssumption DEF IInv, TypeOK, Row, NoRow, Snapshot, Numbers, Live, InTx
<1>0. TableInv' /\ UNCHANGED tables
  BY TablesKeep DEF TableInv, UpdateRead, GetRecipeByID, ForkRead, ForkList,
                     ListRecipeIngredients, IncrementForkCount, Abort
<1>1. ASSUME NEW r \in Recipe, UpdateRead(h, r) PROVE TypeOK' /\ LockInv' /\ ForkInv'
  BY <1>0, <1>1 DEF UpdateRead, GetRecipeByID, tables, LockInv, ForkInv, FromRevision
<1>2. ASSUME NEW r \in Recipe, ForkRead(h, r) PROVE TypeOK' /\ LockInv' /\ ForkInv'
  <2>1. TypeOK' /\ LockInv'
    BY <1>0, <1>2 DEF ForkRead, GetRecipeByID, tables, LockInv
  <2>2. /\ row[r].current \in Numbers
        /\ snap[r][row[r].current] # None
        /\ snap[r][row[r].current].meta = row[r].meta
    BY <1>2, CurrentRevision DEF ForkRead, GetRecipeByID
  <2>3. ForkInv'
    BY <1>0, <1>2, <2>2 DEF ForkRead, GetRecipeByID, tables, ForkInv, FromRevision
  <2> QED
    BY <2>1, <2>3
<1>3. CASE ForkList(h)
  <2>1. TypeOK' /\ LockInv'
    BY <1>0, <1>3 DEF ForkList, ListRecipeIngredients, tables, LockInv
  <2>2. ASSUME Live(target[h]) PROVE FromRevision(target[h], hrow[h].current, ings[target[h]])
    <3> DEFINE r == target[h]
    <3>1. r \in Recipe /\ hpc[h] = "list"
      BY <1>3 DEF ForkList, ListRecipeIngredients, LockInv
    <3>2. hrow[h].current \in Numbers /\ snap[r][hrow[h].current] # None
      BY <2>2, <3>1 DEF ForkInv
    <3>3. /\ row[r].current \in Numbers /\ row[r].current = row[r].count
          /\ snap[r][row[r].current] # None
          /\ snap[r][row[r].current].ings = ings[r]
      BY <2>2, <3>1, CurrentRevision
    <3>4. hrow[h].current <= row[r].current
      BY <3>1, <3>2, <3>3 DEF RevisionsNumbered
    <3> QED
      BY <3>2, <3>3, <3>4 DEF FromRevision
  <2>3. ForkInv'
    <3> SUFFICES ASSUME NEW g \in Handler, hpc'[g] \in {"list", "count", "fork"}, Live(target[g])'
                 PROVE  /\ hrow'[g].current \in Numbers
                        /\ snap'[target'[g]][hrow'[g].current] # None
                        /\ snap'[target'[g]][hrow'[g].current].meta = hrow'[g].meta
                        /\ hpc'[g] # "list" =>
                             FromRevision(target[g], hrow[g].current, hings[g])'
      BY DEF ForkInv
    <3>1. CASE g = h
      <4>1. /\ hpc[h] = "list" /\ target' = target /\ hrow' = hrow
            /\ hings'[h] = ings[target[h]] /\ snap' = snap /\ exists' = exists
        BY <1>3 DEF ForkList, ListRecipeIngredients, tables
      <4> QED
        BY <2>2, <3>1, <4>1 DEF ForkInv, FromRevision
    <3>2. CASE g # h
      <4>1. /\ hpc'[g] = hpc[g] /\ target' = target /\ hrow' = hrow
            /\ hings'[g] = hings[g] /\ snap' = snap /\ exists' = exists
        BY <1>3, <3>2 DEF ForkList, ListRecipeIngredients, tables
      <4> QED
        BY <4>1 DEF ForkInv, FromRevision
    <3> QED
      BY <3>1, <3>2
  <2> QED
    BY <1>0, <2>1, <2>3 DEF TableInv
<1>4. CASE IncrementForkCount(h)
  <2>1. TypeOK' /\ LockInv'
    BY <1>0, <1>4 DEF IncrementForkCount, tables, LockInv, Locked
  <2>2. ForkInv'
    BY <1>0, <1>4 DEF IncrementForkCount, tables, ForkInv, FromRevision
  <2> QED
    BY <1>0, <2>1, <2>2 DEF TableInv
<1>5. CASE Abort(h)
  <2>1. TypeOK' /\ LockInv'
    BY <1>0, <1>5 DEF Abort, Finish, tables, LockInv
  <2>2. ForkInv'
    BY <1>0, <1>5 DEF Abort, Finish, tables, ForkInv, FromRevision
  <2> QED
    BY <1>0, <2>1, <2>2 DEF TableInv
<1> QED
  BY <1>0, <1>1, <1>2, <1>3, <1>4, <1>5 DEF TableInv

(* The lock is free when an update takes it, and the row is the row now.   *)
LEMMA UpdateKeeps ==
  ASSUME IInv, NEW h \in Handler,
         \/ \E m \in Meta \cup {None} : UpdateMeta(h, m)
         \/ \E i \in Ings \cup {None} : UpdateIngredients(h, i)
  PROVE  IInv'
<1> USE RecipesAssumption DEF IInv, TypeOK, Row, NoRow, Snapshot, Numbers, Live, InTx
<1>0. TableInv' /\ UNCHANGED tables
  BY TablesKeep DEF TableInv, UpdateMeta, UpdateRecipeMeta, UpdateIngredients
<1>1. \A r \in Recipe : Live(r) => row[r].meta \in Meta /\ ings[r] \in Ings
  BY CurrentRevision
<1>2. ASSUME NEW m \in Meta \cup {None}, UpdateMeta(h, m)
      PROVE TypeOK' /\ LockInv' /\ ForkInv'
  <2>1. target[h] \in Recipe
    BY <1>2 DEF UpdateMeta, UpdateRecipeMeta, LockInv
  <2>2. CASE ~Live(target[h]) /\ Finish(h)
    <3>1. Abort(h)
      BY ONLY <1>0, <1>2, <2>2 DEF UpdateMeta, UpdateRecipeMeta, Abort
    <3> QED
      BY ONLY IInv, <3>1, ReadKeeps DEF IInv
  <2>3. CASE /\ Live(target[h])
             /\ row[target[h]].count < MaxRevision
             /\ hpc' = [hpc EXCEPT ![h] = "ings"]
             /\ hrow' = [hrow EXCEPT ![h] =
                           IF m = None THEN row[target[h]]
                           ELSE [row[target[h]] EXCEPT !.meta = m]]
             /\ UNCHANGED <<target, hings>>
    <3>1. /\ hrow'[h] \in Row
          /\ hrow'[h].meta \in Meta
          /\ hrow'[h].count = row[target[h]].count
      <4>1. hrow'[h] = IF m = None THEN row[target[h]]
                       ELSE [row[target[h]] EXCEPT !.meta = m]
        BY <2>3
      <4>2. row[target[h]] \in Row /\ row[target[h]].meta \in Meta
        BY <2>1, <2>3, <1>1
      <4>3. CASE m = None
        BY <4>1, <4>2, <4>3
      <4>4. CASE m # None
        BY <4>1, <4>2, <4>4
      <4> QED
        BY <4>3, <4>4
    <3>2. \A g \in Handler : InTx(g) => target[g] # target[h]
      BY <1>2, <2>3 DEF UpdateMeta, UpdateRecipeMeta, Locked
    <3>3. TypeOK' /\ LockInv'
      BY <1>0, <2>1, <2>3, <3>1, <3>2 DEF tables, LockInv
    <3>4. ForkInv'
      <4>1. /\ exists' = exists /\ snap' = snap /\ target' = target /\ hings' = hings
            /\ \A g \in Handler : hpc'[g] \in {"list", "count", "fork"} =>
                 hpc'[g] = hpc[g] /\ hrow'[g] = hrow[g]
        BY <1>0, <2>3 DEF tables
      <4>2. ForkInv
        OBVIOUS
      <4> QED
        BY ONLY <4>1, <4>2 DEF ForkInv, FromRevision, Live
    <3> QED
      BY <3>3, <3>4
  <2> QED
    BY <1>2, <2>2, <2>3 DEF UpdateMeta, UpdateRecipeMeta
<1>3. ASSUME NEW i \in Ings \cup {None}, UpdateIngredients(h, i)
      PROVE TypeOK' /\ LockInv' /\ ForkInv'
  BY <1>0, <1>1, <1>3 DEF UpdateIngredients, tables, LockInv, ForkInv, FromRevision
<1> QED
  BY <1>0, <1>2, <1>3 DEF TableInv

(* A recipe's revisions are extended while no other request is past its    *)
(* lock.                                                                   *)
LEMMA ReviseKeeps ==
  ASSUME IInv, NEW h \in Handler, Revise(h)
  PROVE  IInv'
<1> USE RecipesAssumption
    DEF IInv, TypeOK, Row, NoRow, Snapshot, Numbers, Live, InTx, Revise,
        CreateRecipeRevision, SetRecipeRevision, CreateRecipeIngredients, Finish
<1> DEFINE r == target[h]
           n == hrow[h].count + 1
<1>1. /\ r \in Recipe /\ Live(r)
      /\ hrow[h].count = row[r].count /\ n \in Numbers
      /\ hrow[h].meta \in Meta /\ hings[h] \in Ings
      /\ snap[r][n] = None
  BY DEF LockInv
<1>2. TypeOK'
  BY <1>1
<1>3. /\ \A q \in Recipe, k \in Numbers : snap[q][k] # None => snap'[q][k] = snap[q][k]
      /\ \A q \in Recipe \ {r} : UNCHANGED <<row[q], snap[q], ings[q]>>
      /\ row'[r] = [meta |-> hrow[h].meta, count |-> n, current |-> n]
      /\ snap'[r][n] = [meta |-> hrow[h].meta, ings |-> hings[h]]
      /\ ings'[r] = hings[h]
      /\ \A k \in Numbers : k # n => snap'[r][k] = snap[r][k]
  BY <1>1
<1>4. LockInv'
  BY <1>1, <1>3 DEF LockInv
<1>5. \A q \in Recipe, k \in Numbers : \A i :
        FromRevision(q, k, i) => \E j \in k..MaxRevision : snap'[q][j] # None /\ snap'[q][j].ings = i
  <2> SUFFICES ASSUME NEW q \in Recipe, NEW k \in Numbers, NEW i, FromRevision(q, k, i)
               PROVE  \E j \in k..MaxRevision : snap'[q][j] # None /\ snap'[q][j].ings = i
    OBVIOUS
  <2>1. PICK j \in k..MaxRevision : snap[q][j] # None /\ snap[q][j].ings = i
    BY DEF FromRevision
  <2>2. j \in Numbers
    OBVIOUS
  <2>3. snap'[q][j] = snap[q][j]
    BY <1>3, <2>1, <2>2
  <2> QED
    BY <2>1, <2>3
<1>6. ForkInv'
  BY <1>3, <1>5 DEF ForkInv, FromRevision, LockInv
<1>7. ParentInv' /\ ForkCountExact'
  BY CountsKeep DEF ParentInv
<1>8. RevisionsNumbered' /\ SnapshotIsCurrent'
  BY <1>1, <1>3 DEF RevisionsNumbered, SnapshotIsCurrent
<1>9. ForkFollowsPin'
  <2> SUFFICES ASSUME NEW f \in Recipe, Live(f), parent[f] # None
               PROVE  /\ snap'[parent[f]][pin[f]] # None
                      /\ snap'[parent[f]][pin[f]].meta = snap'[f][1].meta
                      /\ FromRevision(parent[f], pin[f], snap[f][1].ings)'
    BY DEF ForkFollowsPin
  <2>1. snap[f][1] # None /\ snap'[f][1] = snap[f][1]
    BY <1>3 DEF RevisionsNumbered
  <2>2. pin[f] \in Numbers /\ parent[f] \in Recipe
    BY DEF ParentInv
  <2>3. /\ snap[parent[f]][pin[f]] # None
        /\ snap[parent[f]][pin[f]].meta = snap[f][1].meta
        /\ FromRevision(parent[f], pin[f], snap[f][1].ings)
    BY DEF ForkFollowsPin
  <2>4. snap'[parent[f]][pin[f]] = snap[parent[f]][pin[f]]
    BY <1>3, <2>2, <2>3
  <2>5. \E j \in pin[f]..MaxRevision :
           snap'[parent[f]][j] # None /\ snap'[parent[f]][j].ings = snap[f][1].ings
    BY ONLY <1>5, <2>2, <2>3
  <2>6. parent' = parent /\ pin' = pin
    OBVIOUS
  <2>7. FromRevision(parent[f], pin[f], snap[f][1].ings)'
    BY ONLY <2>1, <2>5, <2>6 DEF FromRevision
  <2> QED
    BY <2>1, <2>3, <2>4, <2>7
<1> QED
  BY <1>2, <1>4, <1>6, <1>7, <1>8, <1>9

(* What a new recipe, forked or not, finds and leaves: nothing refers to   *)
(* an id before its INSERT.                                                *)
LEMMA InsertKeeps ==
  ASSUME IInv, NEW r \in Recipe, NEW m \in Meta, NEW i \in Ings,
         exists[r] = "absent", Insert(r, m, i)
  PROVE  /\ exists' \in [Recipe -> {"absent", "live", "gone"}]
         /\ row' \in [Recipe -> Row]
         /\ ings' \in [Recipe -> Ings \cup {None}]
         /\ snap' \in [Recipe -> [Numbers -> Snapshot \cup {None}]]
         /\ RevisionsNumbered' /\ SnapshotIsCurrent'
         /\ \A h \in Handler : target[h] # r
         /\ \A q \in Recipe : parent[q] # r
         /\ \A q \in Recipe \ {r} : UNCHANGED <<exists[q], row[q], ings[q], snap[q]>>
         /\ Live(r)' /\ snap'[r][1] = [meta |-> m, ings |-> i]
<1> USE RecipesAssumption
    DEF IInv, TypeOK, Row, Snapshot, Numbers, Live, Insert
<1>1. row[r].count = 0 /\ \A n \in Numbers : snap[r][n] = None
  BY NoRevision
<1>2. /\ \A h \in Handler : target[h] # r
      /\ \A q \in Recipe : parent[q] # r
  BY DEF LockInv, ParentInv
<1>3. /\ exists' \in [Recipe -> {"absent", "live", "gone"}]
      /\ row' \in [Recipe -> Row]
      /\ ings' \in [Recipe -> Ings \cup {None}]
      /\ snap' \in [Recipe -> [Numbers -> Snapshot \cup {None}]]
  OBVIOUS
<1>4. /\ \A q \in Recipe \ {r} : UNCHANGED <<exists[q], row[q], ings[q], snap[q]>>
      /\ exists'[r] = "live"
      /\ row'[r] = [meta |-> m, count |-> 1, current |-> 1]
      /\ ings'[r] = i
      /\ snap'[r][1] = [meta |-> m, ings |-> i]
      /\ \A n \in Numbers : n # 1 => snap'[r][n] = None
  BY <1>1
<1>5. RevisionsNumbered' /\ SnapshotIsCurrent'
  BY <1>4 DEF RevisionsNumbered, SnapshotIsCurrent
<1> QED
  BY <1>2, <1>3, <1>4, <1>5

(* A new recipe without a parent disturbs nothing.                         *)
LEMMA CreateKeeps ==
  ASSUME IInv, NEW h \in Handler, NEW r \in Recipe, NEW m \in Meta, NEW i \in Ings,
         CreateRecipe(h, r, m, i)
  PROVE  IInv'
<1>1. /\ exists[r] = "absent" /\ Insert(r, m, i)
      /\ UNCHANGED <<forks, parent, pin, brewed, request>>
  BY DEF CreateRecipe
<1>2. /\ exists' \in [Recipe -> {"absent", "live", "gone"}]
      /\ row' \in [Recipe -> Row]
      /\ ings' \in [Recipe -> Ings \cup {None}]
      /\ snap' \in [Recipe -> [Numbers -> Snapshot \cup {None}]]
      /\ RevisionsNumbered' /\ SnapshotIsCurrent'
      /\ \A g \in Handler : target[g] # r
      /\ \A q \in Recipe : parent[q] # r
      /\ \A q \in Recipe \ {r} : UNCHANGED <<exists[q], row[q], ings[q], snap[q]>>
      /\ Live(r)' /\ snap'[r][1] = [meta |-> m, ings |-> i]
  BY <1>1, InsertKeeps
<1> USE RecipesAssumption DEF IInv, request
<1>3. TypeOK'
  BY <1>1, <1>2 DEF TypeOK
<1>4. LockInv'
  BY <1>1, <1>2 DEF LockInv, TypeOK, Live, InTx
<1>10. ForkInv'
  <2>1. \A g \in Handler : hpc[g] \in {"list", "count", "fork"} =>
          target[g] \in Recipe \ {r}
    BY <1>2 DEF LockInv, TypeOK
  <2>2. \A g \in Handler : hpc[g] \in {"list", "count", "fork"} =>
          exists'[target[g]] = exists[target[g]] /\ snap'[target[g]] = snap[target[g]]
    BY ONLY <1>2, <2>1
  <2>3. ForkInv /\ hpc' = hpc /\ target' = target /\ hrow' = hrow /\ hings' = hings
    BY <1>1
  <2> QED
    BY ONLY <2>2, <2>3 DEF ForkInv, FromRevision, Live
<1>5. parent[r] = None /\ forks[r] = 0
  BY <1>1 DEF ParentInv
<1>6. ParentInv'
  BY <1>1, <1>2, <1>5 DEF ParentInv, TypeOK, Live
<1>7. ForkCountExact'
  <2>1. {f \in Recipe : parent[f] = r} = {}
    BY <1>2
  <2>2. Cardinality({f \in Recipe : parent[f] = r}) = 0
    BY <2>1, FS_EmptySet
  <2>3. parent' = parent /\ forks' = forks
    BY <1>1
  <2>4. \A q \in Recipe \ {r} : Live(q)' => forks[q] = Cardinality({f \in Recipe : parent[f] = q})
    <3> SUFFICES ASSUME NEW q \in Recipe \ {r}, Live(q)'
                 PROVE  forks[q] = Cardinality({f \in Recipe : parent[f] = q})
      OBVIOUS
    <3>1. Live(q)
      BY ONLY <1>2, Live(q)' DEF Live
    <3>2. ForkCountExact
      OBVIOUS
    <3> QED
      BY ONLY <3>1, <3>2 DEF ForkCountExact
  <2> QED
    BY <1>5, <2>2, <2>3, <2>4 DEF ForkCountExact
<1>8. ForkFollowsPin'
  <2> SUFFICES ASSUME NEW f \in Recipe, Live(f)', parent'[f] # None
               PROVE  /\ snap'[parent'[f]][pin'[f]] # None
                      /\ snap'[parent'[f]][pin'[f]].meta = snap'[f][1].meta
                      /\ FromRevision(parent[f], pin[f], snap[f][1].ings)'
    BY DEF ForkFollowsPin
  <2>1. parent' = parent /\ pin' = pin /\ f # r /\ parent[f] \in Recipe \ {r}
    BY <1>1, <1>2, <1>5 DEF TypeOK
  <2>2. Live(f) /\ snap'[f] = snap[f] /\ snap'[parent[f]] = snap[parent[f]]
    BY <1>2, <2>1 DEF Live
  <2> QED
    BY <2>1, <2>2 DEF ForkFollowsPin, FromRevision
<1> QED
  BY <1>2, <1>3, <1>4, <1>6, <1>7, <1>8, <1>10

(* A fork is made from what it read, which is still true of its source.    *)
LEMMA ForkKeeps ==
  ASSUME IInv, NEW h \in Handler, Fork(h)
  PROVE  IInv'
<1> USE RecipesAssumption DEF IInv, request, tables
<1> DEFINE s == target[h]
<1>1. s \in Recipe /\ exists[s] # "absent" /\ hpc[h] = "fork"
  BY DEF Fork, LockInv, TypeOK
<1>2. CASE ~Live(s) /\ UNCHANGED <<exists, row, ings, snap, forks, parent, pin>>
  <2>1. UNCHANGED tables /\ Abort(h)
    BY <1>1, <1>2 DEF Fork, Abort
  <2> QED
    BY <2>1, ReadKeeps
<1>3. ASSUME Live(s), NEW f \in Recipe, exists[f] = "absent",
             Insert(f, hrow[h].meta, hings[h]),
             parent' = [parent EXCEPT ![f] = s],
             pin' = [pin EXCEPT ![f] = hrow[h].current],
             forks' = [forks EXCEPT ![s] = @ + 1]
      PROVE  IInv'
  <2>1. /\ hrow[h].current \in Numbers
        /\ snap[s][hrow[h].current] # None
        /\ snap[s][hrow[h].current].meta = hrow[h].meta
        /\ FromRevision(s, hrow[h].current, hings[h])
    BY <1>1, <1>3 DEF ForkInv
  <2>2. hrow[h].meta \in Meta /\ hings[h] \in Ings
    BY <1>1, <2>1 DEF FromRevision, TypeOK, Snapshot, Numbers
  <2>3. /\ exists' \in [Recipe -> {"absent", "live", "gone"}]
        /\ row' \in [Recipe -> Row]
        /\ ings' \in [Recipe -> Ings \cup {None}]
        /\ snap' \in [Recipe -> [Numbers -> Snapshot \cup {None}]]
        /\ RevisionsNumbered' /\ SnapshotIsCurrent'
        /\ \A g \in Handler : target[g] # f
        /\ \A q \in Recipe : parent[q] # f
        /\ \A q \in Recipe \ {f} : UNCHANGED <<exists[q], row[q], ings[q], snap[q]>>
        /\ Live(f)' /\ snap'[f][1] = [meta |-> hrow[h].meta, ings |-> hings[h]]
    BY <1>3, <2>2, InsertKeeps
  <2>4. s # f /\ Finish(h) /\ brewed' = brewed
    BY <1>1, <1>3 DEF Fork
  <2>5. TypeOK'
    <3>1. /\ hpc' \in [Handler -> {"idle", "meta", "ings", "revise", "list", "count", "fork"}]
          /\ target' \in [Handler -> Recipe \cup {None}]
          /\ hrow' \in [Handler -> Row]
          /\ hings' \in [Handler -> Ings \cup {None}]
      BY <2>4 DEF TypeOK, Finish, NoRow, Row
    <3>2. /\ forks' \in [Recipe -> Nat]
          /\ parent' \in [Recipe -> Recipe \cup {None}]
          /\ pin' \in [Recipe -> 0..MaxRevision]
      BY <1>1, <1>3, <2>1 DEF TypeOK, Numbers
    <3> QED
      BY <2>3, <2>4, <3>1, <3>2 DEF TypeOK
  <2>6. LockInv'
    BY <2>3, <2>4 DEF LockInv, TypeOK, Live, InTx, Finish
  <2>11. ForkInv'
    <3> SUFFICES ASSUME NEW g \in Handler, hpc'[g] \in {"list", "count", "fork"}, Live(target[g])'
                 PROVE  /\ hrow'[g].current \in Numbers
                        /\ snap'[target'[g]][hrow'[g].current] # None
                        /\ snap'[target'[g]][hrow'[g].current].meta = hrow'[g].meta
                        /\ hpc'[g] # "list" =>
                             FromRevision(target[g], hrow[g].current, hings[g])'
      BY DEF ForkInv
    <3>1. /\ g # h /\ hpc'[g] = hpc[g] /\ target'[g] = target[g]
          /\ hrow'[g] = hrow[g] /\ hings'[g] = hings[g]
      BY <2>4 DEF Finish, TypeOK
    <3>2. target[g] \in Recipe \ {f}
      BY <2>3, <3>1 DEF LockInv, TypeOK
    <3>3. Live(target[g]) /\ snap'[target[g]] = snap[target[g]]
      BY <2>3, <3>1, <3>2 DEF Live
    <3> QED
      BY <3>1, <3>3 DEF ForkInv, FromRevision
  <2>7. parent[f] = None /\ forks[f] = 0
    BY <1>3 DEF ParentInv
  <2>8. ParentInv'
    BY <1>1, <1>3, <2>1, <2>3, <2>4, <2>7 DEF ParentInv, TypeOK, Live
  <2>9. ForkCountExact'
    <3> SUFFICES ASSUME NEW q \in Recipe, Live(q)'
                 PROVE  forks'[q] = Cardinality({g \in Recipe : parent'[g] = q})
      BY DEF ForkCountExact
    <3>1. CASE q = s
      <4> DEFINE F == {g \in Recipe : parent[g] = s}
      <4>1. {g \in Recipe : parent'[g] = s} = F \cup {f}
        BY <1>3 DEF TypeOK
      <4>2. IsFiniteSet(F) /\ f \notin F
        BY <2>3, <2>4, <2>7, <1>1, FS_Subset DEF TypeOK
      <4>3. Cardinality(F \cup {f}) = Cardinality(F) + 1
        BY <4>2, FS_AddElement
      <4>4. forks[s] = Cardinality(F)
        BY <1>1, <1>3 DEF ForkCountExact
      <4>5. forks'[s] = forks[s] + 1
        BY <1>1, <1>3 DEF TypeOK
      <4> QED
        BY <3>1, <4>1, <4>3, <4>4, <4>5
    <3>2. CASE q = f
      <4>1. {g \in Recipe : parent'[g] = f} = {}
        BY <1>3, <2>3, <2>4 DEF TypeOK
      <4>2. forks'[f] = 0
        BY <1>3, <2>4, <2>7 DEF TypeOK
      <4> QED
        BY <3>2, <4>1, <4>2, FS_EmptySet
    <3>3. CASE q # s /\ q # f
      <4>1. {g \in Recipe : parent'[g] = q} = {g \in Recipe : parent[g] = q}
        BY <1>3, <2>7, <3>3, RecipesAssumption DEF TypeOK
      <4>2. Live(q) /\ forks'[q] = forks[q]
        BY <1>3, <2>3, <3>3 DEF TypeOK, Live
      <4> QED
        BY <4>1, <4>2 DEF ForkCountExact
    <3> QED
      BY <3>1, <3>2, <3>3
  <2>10. ForkFollowsPin'
    <3> SUFFICES ASSUME NEW g \in Recipe, Live(g)', parent'[g] # None
                 PROVE  /\ snap'[parent'[g]][pin'[g]] # None
                        /\ snap'[parent'[g]][pin'[g]].meta = snap'[g][1].meta
                        /\ FromRevision(parent[g], pin[g], snap[g][1].ings)'
      BY DEF ForkFollowsPin
    <3>1. CASE g = f
      BY <1>1, <1>3, <2>1, <2>3, <2>4, <3>1 DEF FromRevision, TypeOK
    <3>2. CASE g # f
      <4>1. /\ parent'[g] = parent[g] /\ pin'[g] = pin[g]
            /\ parent[g] \in Recipe \ {f}
        BY <1>3, <2>3, <3>2 DEF TypeOK
      <4>2. Live(g) /\ snap'[g] = snap[g] /\ snap'[parent[g]] = snap[parent[g]]
        BY <2>3, <3>2, <4>1 DEF Live
      <4> QED
        BY <4>1, <4>2 DEF ForkFollowsPin, FromRevision
    <3> QED
      BY <3>1, <3>2
  <2> QED
    BY <2>3, <2>5, <2>6, <2>8, <2>9, <2>10, <2>11
<1> QED
  BY <1>2, <1>3 DEF Fork, CreateForkedRecipe

(* No fork and no request past the lock depends on what is deleted.        *)
LEMMA DeleteKeeps ==
  ASSUME IInv, NEW h \in Handler, NEW r \in Recipe, DeleteRecipe(h, r)
  PROVE  IInv'
<1> USE RecipesAssumption
    DEF IInv, TypeOK, Row, NoRow, Numbers, Live, InTx, request, DeleteRecipe, DropRecipe
<1>1. TypeOK'
  OBVIOUS
<1>2. \A g \in Handler : InTx(g) => target[g] # r
  BY DEF Locked
<1>3. /\ \A q \in Recipe \ {r} : UNCHANGED <<exists[q], row[q], ings[q], snap[q], forks[q]>>
      /\ exists'[r] = "gone"
      /\ row'[r] = [meta |-> None, count |-> 0, current |-> 0]
      /\ \A n \in Numbers : snap'[r][n] = None
  OBVIOUS
<1>4. LockInv'
  BY <1>2, <1>3 DEF LockInv
<1>5. ForkInv'
  BY <1>3 DEF ForkInv, FromRevision
<1>6. \A f \in Recipe : Live(f) => parent[f] # r
  BY DEF HasForks
<1>7. ParentInv'
  BY <1>3, <1>6 DEF ParentInv
<1>8. RevisionsNumbered' /\ SnapshotIsCurrent'
  BY <1>3 DEF RevisionsNumbered, SnapshotIsCurrent
<1>10. ForkCountExact'
  BY <1>3 DEF ForkCountExact
<1>9. ForkFollowsPin'
  <2> SUFFICES ASSUME NEW f \in Recipe, Live(f)', parent'[f] # None
               PROVE  /\ snap'[parent'[f]][pin'[f]] # None
                      /\ snap'[parent'[f]][pin'[f]].meta = snap'[f][1].meta
                      /\ FromRevision(parent[f], pin[f], snap[f][1].ings)'
    BY DEF ForkFollowsPin
  <2>1. parent' = parent /\ pin' = pin
    OBVIOUS
  <2>2. f # r /\ Live(f) /\ parent[f] \in Recipe \ {r}
    BY <1>3, <1>6, <2>1
  <2>3. snap'[f] = snap[f] /\ snap'[parent[f]] = snap[parent[f]]
    BY <1>3, <2>2
  <2>4. ForkFollowsPin
    OBVIOUS
  <2> QED
    BY ONLY <2>1, <2>2, <2>3, <2>4, parent'[f] # None
       DEF ForkFollowsPin, FromRevision
<1> QED
  BY <1>1, <1>4, <1>5, <1>7, <1>8, <1>9, <1>10

(* Every step keeps the invariant.                                         *)
LEMMA NextIInv == IInv /\ [Next]_vars => IInv'
<1> SUFFICES ASSUME IInv, [Next]_vars PROVE IInv'
  OBVIOUS
<1>1. ASSUME NEW h \in Handler, NEW r \in Recipe, Brew(h, r) \/ Unbrew(h, r) PROVE IInv'
  <2>1. /\ UNCHANGED <<exists, row, ings, snap, forks, parent, pin>>
        /\ UNCHANGED request /\ brewed' \subseteq Recipe
    BY <1>1 DEF Brew, Unbrew, IInv, TypeOK
  <2>2. TypeOK' /\ LockInv' /\ ForkInv'
    BY <2>1 DEF request, IInv, TypeOK, LockInv, ForkInv, FromRevision, Live, InTx
  <2>3. ParentInv' /\ RevisionsNumbered' /\ SnapshotIsCurrent' /\ ForkFollowsPin'
    BY <2>1 DEF IInv, ParentInv, RevisionsNumbered, SnapshotIsCurrent,
                ForkFollowsPin, FromRevision, Live
  <2>4. ForkCountExact'
    BY <2>1, CountsKeep DEF IInv
  <2> QED
    BY <2>2, <2>3, <2>4 DEF IInv
<1>2. CASE UNCHANGED vars
  BY <1>2 DEF vars, tables, request, IInv, TypeOK, LockInv, ForkInv, ParentInv,
              RevisionsNumbered, SnapshotIsCurrent, ForkCountExact,
              ForkFollowsPin, FromRevision, Live, InTx
<1> QED
  BY <1>1, <1>2, ReadKeeps, UpdateKeeps, ReviseKeeps, CreateKeeps, ForkKeeps,
     DeleteKeeps DEF Next

(* IInv is an invariant of the recipes.                                    *)
THEOREM Invariance == Spec => []IInv
  BY InitIInv, NextIInv, PTL DEF Spec

(* Every variable keeps its type: no column is ever NULL by a patch.       *)
THEOREM TypeCorrect == Spec => []TypeOK
  BY Invariance, PTL DEF IInv

(* However updates overlap, revisions are numbered without a gap and the   *)
(* newest is the current one.                                              *)
THEOREM Numbered == Spec => []RevisionsNumbered
  BY Invariance, PTL DEF IInv

(* The current revision always is a snapshot of the recipe as it is.       *)
THEOREM CurrentSnapshot == Spec => []SnapshotIsCurrent
  BY Invariance, PTL DEF IInv

(* No update ever meets a number that is taken.                            *)
THEOREM NoCollision == Spec => []NumberIsFree
<1>1. IInv => NumberIsFree
  BY RecipesAssumption
     DEF IInv, TypeOK, Row, Numbers, LockInv, RevisionsNumbered, NumberIsFree
<1> QED
  BY <1>1, Invariance, PTL

(* fork_count is exact for any number of forks and requests.               *)
THEOREM ForksCounted == Spec => []ForkCountExact
  BY Invariance, PTL DEF IInv

(* A fork is one of its source, at the revision it is pinned to or later.  *)
THEOREM ForksFollow == Spec => []ForkFollowsPin
  BY Invariance, PTL DEF IInv

-----------------------------------------------------------------------------
(* Refinement: recipes implement Histories                                 *)

(* The first c entries of a table, as a list.                              *)
LEMMA ListOf ==
  ASSUME NEW c \in Nat, NEW S, NEW s, \A n \in 1..c : s[n] \in S
  PROVE  LET list == [n \in 1..c |-> s[n]]
         IN  list \in Seq(S) /\ Len(list) = c /\ (list = <<>> <=> c = 0)
<1> DEFINE list == [n \in 1..c |-> s[n]]
<1>1. list \in Seq(S) /\ Len(list) = c
  OBVIOUS
<1>2. list = <<>> <=> c = 0
  BY <1>1
<1> QED
  BY <1>1, <1>2

(* What a recipe shows is a list, empty if it is not there.                *)
ListInv ==
  \A r \in Recipe :
    /\ row[r].count \in Nat
    /\ Revisions(r) \in Seq(Snapshot)
    /\ Len(Revisions(r)) = row[r].count
    /\ DOMAIN Revisions(r) = 1..row[r].count
    /\ \A n \in 1..row[r].count : Revisions(r)[n] = snap[r][n]
    /\ Revisions(r) # <<>> <=> Live(r)
    /\ row[r].count > 0 <=> Live(r)

LEMMA RevisionsList == IInv => ListInv
<1> SUFFICES ASSUME TypeOK, RevisionsNumbered, NEW r \in Recipe
             PROVE  /\ row[r].count \in Nat
                    /\ Revisions(r) \in Seq(Snapshot)
                    /\ Len(Revisions(r)) = row[r].count
                    /\ DOMAIN Revisions(r) = 1..row[r].count
                    /\ \A n \in 1..row[r].count : Revisions(r)[n] = snap[r][n]
                    /\ Revisions(r) # <<>> <=> Live(r)
                    /\ row[r].count > 0 <=> Live(r)
  BY DEF IInv, ListInv
<1>1. /\ row[r].count \in Nat
      /\ \A n \in 1..row[r].count : n \in Numbers
  BY RecipesAssumption DEF TypeOK, Row, Numbers
<1>2. \A n \in 1..row[r].count : snap[r][n] \in Snapshot
  <2> SUFFICES ASSUME NEW n \in 1..row[r].count PROVE snap[r][n] \in Snapshot
    OBVIOUS
  <2>1. n \in Numbers /\ n <= row[r].count /\ snap[r][n] \in Snapshot \cup {None}
    BY <1>1 DEF TypeOK
  <2> QED
    BY <2>1 DEF RevisionsNumbered
<1>3. (Live(r) <=> row[r].count > 0) /\ (row[r].count > 0 <=> row[r].count # 0)
  BY <1>1 DEF RevisionsNumbered
<1> QED
  BY <1>1, <1>2, <1>3, ListOf DEF Revisions

(* The rest of the state a client sees, by an action of Recipes.           *)
LEMMA SameRevisions ==
  ASSUME NEW r \in Recipe, row'[r] = row[r], snap'[r] = snap[r]
  PROVE  Revisions(r)' = Revisions(r)
BY DEF Revisions

(* A revision more for one recipe, and nothing else, makes its list grow.  *)
LEMMA OneMore ==
  ASSUME ListInv, ListInv', NEW r \in Recipe,
         \A q \in Recipe \ {r} : row'[q] = row[q] /\ snap'[q] = snap[q],
         row'[r].count = row[r].count + 1,
         \A n \in 1..row[r].count : snap'[r][n] = snap[r][n]
  PROVE  Abstract!Grow(r)
<1> DEFINE history == [q \in Recipe |-> Revisions(q)]
<1>1. Len(history'[r]) = Len(history[r]) + 1
  BY DEF ListInv
<1>2. \A n \in DOMAIN history[r] : history'[r][n] = history[r][n]
  BY DEF ListInv
<1>3. \A q \in Recipe \ {r} : history'[q] = history[q]
  BY SameRevisions
<1> QED
  BY <1>1, <1>2, <1>3 DEF Abstract!Grow

(* Every step is one of Histories, or one that its clients do not see.     *)
LEMMA StepMaps ==
  ASSUME IInv, ListInv, ListInv', Next
  PROVE  \/ Abstract!Next
         \/ UNCHANGED <<[r \in Recipe |-> Revisions(r)],
                        [r \in Recipe |-> IF parent[r] = None THEN None ELSE <<parent[r], pin[r]>>],
                        brewed, {r \in Recipe : exists[r] = "gone"}>>
<1> DEFINE history == [r \in Recipe |-> Revisions(r)]
           source  == [r \in Recipe |-> IF parent[r] = None THEN None ELSE <<parent[r], pin[r]>>]
           removed == {r \in Recipe : exists[r] = "gone"}
<1> SUFFICES Abstract!Next \/ UNCHANGED <<history, source, brewed, removed>>
  OBVIOUS
<1>0. history' \in [Recipe -> Seq(Snapshot)]
  BY DEF ListInv
<1>1. ASSUME UNCHANGED tables PROVE UNCHANGED <<history, source, brewed, removed>>
  BY <1>1, SameRevisions DEF tables
<1>2. ASSUME NEW h \in Handler, NEW r \in Recipe, NEW m \in Meta, NEW i \in Ings,
             CreateRecipe(h, r, m, i)
      PROVE  Abstract!Create(r)
  <2>1. exists[r] = "absent" /\ Insert(r, m, i) /\ UNCHANGED <<forks, parent, pin, brewed>>
    BY <1>2 DEF CreateRecipe, request
  <2>2. Abstract!Appear(r)
    <3>1. ~Live(r) /\ row[r].count = 0
      BY <2>1, NoRevision DEF Live
    <3>2. /\ row'[r].count = 1
          /\ \A q \in Recipe \ {r} : row'[q] = row[q] /\ snap'[q] = snap[q]
      BY <2>1 DEF Insert, IInv, TypeOK
    <3>3. Abstract!Grow(r)
      BY <3>1, <3>2, OneMore
    <3>4. removed' = removed /\ r \notin removed
      BY <2>1 DEF Insert, IInv, TypeOK
    <3> QED
      BY <2>1, <3>1, <3>3, <3>4 DEF Abstract!Appear, Abstract!There, ListInv
  <2>3. source' = source
    BY <2>1
  <2> QED
    BY <2>2, <2>3 DEF Abstract!Create
<1>3. ASSUME NEW h \in Handler, Revise(h)
      PROVE  \E r \in Recipe : Abstract!Revise(r)
  <2> DEFINE r == target[h]
  <2>1. /\ r \in Recipe /\ Live(r) /\ hrow[h].count = row[r].count /\ row[r].count + 1 \in Numbers
        /\ row[r].count \in Nat
    BY <1>3, RecipesAssumption DEF Revise, IInv, LockInv, TypeOK, Numbers, Row
  <2>2. /\ row'[r].count = row[r].count + 1
        /\ \A n \in 1..row[r].count : snap'[r][n] = snap[r][n]
        /\ \A q \in Recipe \ {r} : row'[q] = row[q] /\ snap'[q] = snap[q]
        /\ UNCHANGED <<exists, parent, pin, brewed>>
    BY <1>3, <2>1 DEF Revise, CreateRecipeRevision, SetRecipeRevision, IInv, TypeOK
  <2>3. Abstract!Grow(r)
    BY <2>1, <2>2, OneMore
  <2>4. source' = source /\ removed' = removed
    BY <2>2
  <2> QED
    BY <2>1, <2>2, <2>3, <2>4 DEF Abstract!Revise, Abstract!There, ListInv
<1>4. ASSUME NEW h \in Handler, NEW r \in Recipe, DeleteRecipe(h, r)
      PROVE  Abstract!Remove(r)
  <2>1. /\ Live(r) /\ r \notin brewed /\ ~HasForks(r)
        /\ exists' = [exists EXCEPT ![r] = "gone"]
        /\ row' = [row EXCEPT ![r] = NoRow]
        /\ snap' = [snap EXCEPT ![r] = [n \in Numbers |-> None]]
        /\ UNCHANGED <<parent, pin, brewed>>
    BY <1>4 DEF DeleteRecipe, DropRecipe
  <2>2. removed' = removed \cup {r} /\ source' = source
    BY <2>1 DEF IInv, TypeOK
  <2>3. history' = [history EXCEPT ![r] = <<>>]
    <3>1. ~Live(r)'
      BY <2>1 DEF Live, IInv, TypeOK
    <3>2. Revisions(r)' = <<>>
      BY <3>1 DEF ListInv
    <3>3. \A q \in Recipe \ {r} : Revisions(q)' = Revisions(q)
      BY <2>1, SameRevisions DEF IInv, TypeOK
    <3> QED
      BY <3>2, <3>3
  <2>4. \A f \in Recipe : Live(f) /\ source[f] # None => source[f][1] # r
    BY <2>1 DEF HasForks
  <2> QED
    BY <2>1, <2>2, <2>3, <2>4 DEF Abstract!Remove, Abstract!There, ListInv
<1>5. ASSUME NEW h \in Handler, NEW r \in Recipe, Brew(h, r) \/ Unbrew(h, r)
      PROVE  Abstract!Hold(r) \/ Abstract!Release(r)
  <2>1. UNCHANGED <<history, source, removed>>
    BY <1>5, SameRevisions DEF Brew, Unbrew
  <2>2. (Live(r) /\ brewed' = brewed \cup {r}) \/ brewed' = brewed \ {r}
    BY <1>5 DEF Brew, Unbrew
  <2> QED
    BY <2>1, <2>2 DEF Abstract!Hold, Abstract!Release, Abstract!There, ListInv
<1>6. ASSUME NEW h \in Handler, Fork(h), ~UNCHANGED <<exists, row, snap, parent, pin>>
      PROVE  \E f, s \in Recipe : \E n \in DOMAIN history[s] : Abstract!Fork(f, s, n)
  <2>0. target[h] \in Recipe /\ hrow[h].current \in Numbers
    BY <1>6 DEF Fork, IInv, LockInv, ForkInv, TypeOK
  <2> PICK s \in Recipe, n \in Numbers : s = target[h] /\ n = hrow[h].current
    BY <2>0
  <2>1. PICK f \in Recipe :
          /\ exists[f] = "absent"
          /\ Insert(f, hrow[h].meta, hings[h])
          /\ parent' = [parent EXCEPT ![f] = s]
          /\ pin' = [pin EXCEPT ![f] = n]
    BY <1>6 DEF Fork, CreateForkedRecipe
  <2>2. s \in Recipe /\ Live(s) /\ hpc[h] = "fork" /\ brewed' = brewed
    BY <1>6 DEF Fork, IInv, LockInv, TypeOK
  <2>3. /\ n \in Numbers
        /\ snap[s][n] # None
        /\ snap[s][n].meta = hrow[h].meta
        /\ FromRevision(s, n, hings[h])
    BY <2>2 DEF IInv, ForkInv
  <2>4. \A k \in Numbers : snap[s][k] # None => k \in 1..row[s].count /\ history[s][k] = snap[s][k]
    BY <2>2 DEF ListInv, IInv, RevisionsNumbered, Numbers
  <2>5. Abstract!Appear(f)
    <3>1. ~Live(f) /\ row[f].count = 0
      BY <2>1, NoRevision DEF Live
    <3>2. /\ row'[f].count = 1
          /\ \A q \in Recipe \ {f} : row'[q] = row[q] /\ snap'[q] = snap[q]
      BY <2>1 DEF Insert, IInv, TypeOK
    <3>3. Abstract!Grow(f)
      BY <3>1, <3>2, OneMore
    <3>4. removed' = removed /\ f \notin removed
      BY <2>1 DEF Insert, IInv, TypeOK
    <3> QED
      BY <2>2, <3>1, <3>3, <3>4 DEF Abstract!Appear, Abstract!There, ListInv
  <2>6. history'[f][1] = [meta |-> hrow[h].meta, ings |-> hings[h]]
    <3>1. row'[f].count = 1 /\ snap'[f][1] = [meta |-> hrow[h].meta, ings |-> hings[h]]
      BY <2>1, RecipesAssumption DEF Insert, IInv, TypeOK, Numbers
    <3>2. history'[f] = Revisions(f)'
      OBVIOUS
    <3> QED
      BY <3>1, <3>2 DEF ListInv
  <2>7. history'[f][1].meta = history[s][n].meta
    BY <2>3, <2>4, <2>6
  <2>8. \E k \in n..Len(history[s]) : history'[f][1].ings = history[s][k].ings
    <3>1. PICK k \in n..MaxRevision : snap[s][k] # None /\ snap[s][k].ings = hings[h]
      BY <2>3 DEF FromRevision
    <3>2. k \in Numbers
      BY <2>3, RecipesAssumption DEF Numbers
    <3>3. k \in n..Len(history[s]) /\ history[s][k] = snap[s][k]
      BY <2>2, <2>3, <2>4, <3>1, <3>2 DEF ListInv, Numbers
    <3> QED
      BY <2>6, <3>1, <3>3
  <2>9. source' = [source EXCEPT ![f] = <<s, n>>]
    BY <2>1, <2>2, RecipesAssumption DEF IInv, TypeOK
  <2>10. n \in DOMAIN history[s]
    BY <2>2, <2>3, <2>4 DEF ListInv
  <2>11. Abstract!Fork(f, s, n)
    BY <2>5, <2>7, <2>8, <2>9 DEF Abstract!Fork
  <2> QED
    BY <2>10, <2>11
<1>7. ASSUME NEW h \in Handler, Fork(h), UNCHANGED <<exists, row, snap, parent, pin>>
      PROVE  UNCHANGED <<history, source, brewed, removed>>
  BY <1>7, SameRevisions DEF Fork
<1>8. ASSUME NEW h \in Handler,
             \/ \E r \in Recipe : UpdateRead(h, r) \/ ForkRead(h, r)
             \/ \E m \in Meta \cup {None} : UpdateMeta(h, m)
             \/ \E i \in Ings \cup {None} : UpdateIngredients(h, i)
             \/ ForkList(h) \/ IncrementForkCount(h) \/ Abort(h)
      PROVE  UNCHANGED tables
  BY <1>8 DEF UpdateRead, ForkRead, UpdateMeta, UpdateIngredients, ForkList,
              IncrementForkCount, Abort
<1>9. ASSUME NEW r \in Recipe,
             \/ Abstract!Create(r) \/ Abstract!Revise(r) \/ Abstract!Remove(r)
             \/ Abstract!Hold(r) \/ Abstract!Release(r)
      PROVE  Abstract!Next
  BY <1>0, <1>9 DEF Abstract!Next
<1>10. ASSUME NEW f \in Recipe, NEW s \in Recipe, NEW n \in DOMAIN history[s], Abstract!Fork(f, s, n)
       PROVE  Abstract!Next
  BY <1>0, <1>10 DEF Abstract!Next
<1> HIDE DEF history, source, removed
<1> QED
  BY <1>1, <1>2, <1>3, <1>4, <1>5, <1>6, <1>7, <1>8, <1>9, <1>10 DEF Next

(* Recipes implement Histories: what forks and batches refer to stays as   *)
(* it was, for any number of recipes, requests and revisions.              *)
THEOREM Refines == Spec => ImplementsHistories
<1>1. Init => Abstract!Init
  <2> SUFFICES ASSUME Init PROVE Abstract!Init
    OBVIOUS
  <2>1. ListInv
    BY RevisionsList, InitIInv
  <2>2. \A r \in Recipe : exists[r] = "absent" /\ parent[r] = None
    BY DEF Init
  <2>3. \A r \in Recipe : Revisions(r) = <<>>
    BY <2>1, <2>2 DEF ListInv, Live
  <2>4. brewed = {}
    BY DEF Init
  <2> QED
    BY <2>2, <2>3, <2>4 DEF Abstract!Init
<1>2. IInv /\ IInv' /\ [Next]_vars =>
        [Abstract!Next]_<<[r \in Recipe |-> Revisions(r)],
                          [r \in Recipe |-> IF parent[r] = None THEN None ELSE <<parent[r], pin[r]>>],
                          brewed, {r \in Recipe : exists[r] = "gone"}>>
  <2> SUFFICES ASSUME IInv, IInv', [Next]_vars
               PROVE  \/ Abstract!Next
                      \/ UNCHANGED <<[r \in Recipe |-> Revisions(r)],
                                     [r \in Recipe |-> IF parent[r] = None THEN None
                                                       ELSE <<parent[r], pin[r]>>],
                                     brewed, {r \in Recipe : exists[r] = "gone"}>>
    OBVIOUS
  <2>1. ListInv /\ ListInv'
    BY RevisionsList, PTL
  <2>2. CASE Next
    BY <2>1, <2>2, StepMaps
  <2>3. CASE UNCHANGED vars
    BY <2>3, SameRevisions DEF vars, tables
  <2> QED
    BY <2>2, <2>3
<1> QED
  BY Invariance, <1>1, <1>2, PTL DEF Spec, ImplementsHistories, Abstract!Spec

=============================================================================
