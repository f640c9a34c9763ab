-------------------------- MODULE Standalone_proofs --------------------------
(* Proofs about Lists and RateLimit, two parts that share no state: for     *)
(* every set of ids, every bound of the times and every page limit, and for *)
(* every set of keys, rate, burst and idleTTL in which a bucket refills.    *)
EXTENDS Lists, RateLimit, TLAPS

-----------------------------------------------------------------------------
(* Lists                                                                   *)

(* Of the rows that stayed where they were, the client has those up to the *)
(* cursor: none of the others, and none of them twice.                     *)
PageInv ==
  /\ TypeOK
  /\ at \in {"idle", "paging"} /\ cursor = None => got = {}
  /\ at = "idle" => cursor = None
  /\ at = "paging" /\ cursor # None =>
       \A r \in Table \ moved : r \in got <=> ~Before(cursor, Position(r))
  /\ PagesComplete

(* What a handler's page leaves of the rest of the state.                  *)
Page(P, n) == n \in 1..MaxLimit /\ FirstOfRest(P, n) /\ Serve(P, n)

(* The row comparison is a strict order, whichever way the list goes.      *)
LEMMA StrictOrder ==
  ASSUME TypeOK, NEW p \in [ts : Int, id : Int], NEW q \in [ts : Int, id : Int],
         NEW r \in [ts : Int, id : Int]
  PROVE  /\ ~Before(p, p)
         /\ Before(p, q) => ~Before(q, p)
         /\ Before(p, q) /\ Before(q, r) => Before(p, r)
<1>1. ~Less(p, p) /\ ~Less(q, q)
  BY DEF Less
<1>2. (Less(p, q) => ~Less(q, p)) /\ (Less(q, p) => ~Less(p, q))
  BY DEF Less
<1>3. /\ Less(p, q) /\ Less(q, r) => Less(p, r)
      /\ Less(r, q) /\ Less(q, p) => Less(r, p)
  BY DEF Less
<1> QED
  BY <1>1, <1>2, <1>3 DEF Before

(* A cursor is the position of a row.                                      *)
LEMMA CursorType ==
  ASSUME TypeOK
  PROVE  /\ Cursor \subseteq [ts : Int, id : Int]
         /\ \A r \in Row : Position(r) \in [ts : Int, id : Int]
         /\ \A r \in Table : Position(r) \in Cursor
         /\ None \notin Cursor
<1> USE ListsAssumption DEF TypeOK, Time
<1>1. \A r \in Row : r \in Int /\ key[r] \in Int
  OBVIOUS
<1>2. \A r \in Table : key[r] \in 1..MaxTime /\ r \in Row
  BY DEF Table
<1>3. Cursor \subseteq [ts : Int, id : Int]
  <2>1. 1..MaxTime \subseteq Int /\ Row \subseteq Int
    OBVIOUS
  <2> QED
    BY <2>1 DEF Cursor
<1>4. \A r \in Row : Position(r) \in [ts : Int, id : Int]
  BY <1>1 DEF Position
<1>5. \A r \in Table : Position(r) \in Cursor
  BY <1>2 DEF Cursor, Position
<1>6. None \notin Cursor
  BY DEF Cursor
<1> QED
  BY <1>3, <1>4, <1>5, <1>6

(* A page: the rows it adds come right after those the client has.         *)
LEMMA PageStep ==
  ASSUME PageInv, NEW P \in SUBSET Row, NEW n \in 1..MaxLimit, Page(P, n)
  PROVE  PageInv'
<1> USE DEF PageInv, Table, Rest
<1> DEFINE pos(r) == Position(r)
<1>1. /\ P \subseteq Rest /\ at = "paging"
      /\ at' = IF cursor' = None THEN "done" ELSE "paging"
      /\ got' = got \cup P /\ twice' = twice \cup (got \cap P)
      /\ UNCHANGED <<list, parent, key, moved>>
      /\ UNCHANGED Table
  BY DEF Page, FirstOfRest, Serve
<1>2. \A r \in Rest \ moved : r \notin got
  BY <1>1
<1>3. \A r \in Table \ moved : r \notin Rest => r \in got /\ cursor # None
  BY <1>1
<1>4. CASE Cardinality(P) < n
  <2>1. P = Rest
    BY <1>4 DEF Page, FirstOfRest
  <2>2. cursor' = None
    BY <1>4 DEF Page, Serve, NextCursor
  <2>3. PagesComplete'
    BY <1>1, <1>2, <1>3, <2>1, <2>2 DEF PagesComplete
  <2> QED
    BY <1>1, <2>2, <2>3 DEF TypeOK
<1>5. CASE ~(Cardinality(P) < n)
  <2>1. PICK r \in P : /\ \A s \in P : s = r \/ Before(pos(s), pos(r))
                       /\ cursor' = pos(r)
    BY <1>5 DEF Page, Serve, NextCursor
  <2>2. cursor' \in Cursor /\ cursor' # None
    BY <1>1, <2>1, CursorType
  <2>3. ASSUME NEW s \in Table \ moved
        PROVE  s \in got' <=> ~Before(pos(r), pos(s))
    <3>1. pos(s) \in [ts : Int, id : Int] /\ pos(r) \in [ts : Int, id : Int]
      BY <1>1, CursorType
    <3>2. CASE s \in P
      BY <1>1, <2>1, <3>1, <3>2, StrictOrder
    <3>3. CASE s \in Rest \ P
      <4>1. Before(pos(r), pos(s))
        BY <3>3 DEF Page, FirstOfRest
      <4> QED
        BY <1>1, <1>2, <3>3, <4>1
    <3>4. CASE s \notin Rest
      <4>1. s \in got /\ cursor # None /\ ~Before(cursor, pos(s))
        BY <1>1, <1>3, <3>4
      <4>2. Before(cursor, pos(r))
        BY <1>1, <4>1
      <4>3. cursor \in [ts : Int, id : Int]
        BY <4>1, CursorType DEF TypeOK
      <4>4. ~Before(pos(r), pos(s))
        BY <3>1, <4>1, <4>2, <4>3, StrictOrder
      <4> QED
        BY <1>1, <4>1, <4>4
    <3> QED
      BY <3>2, <3>3, <3>4
  <2>4. at' = "paging"
    BY <1>1, <2>2
  <2>5. PagesComplete'
    BY <1>1, <1>2, <2>4 DEF PagesComplete
  <2>6. \A s \in Table \ moved : s \in got' <=> ~Before(cursor', pos(s))
    BY <2>1, <2>3
  <2> QED
    BY <1>1, <2>2, <2>4, <2>5, <2>6 DEF TypeOK, Position, Before, Less
<1> QED
  BY <1>4, <1>5

(* A write that creates, moves or deletes rows leaves the others where     *)
(* they are.                                                               *)
LEMMA OthersStay ==
  ASSUME PageInv,
         UNCHANGED <<list, reader>>,
         parent' \in BOOLEAN,
         key' \in [Row -> 0..MaxTime],
         moved \subseteq moved', moved' \subseteq Row,
         \A s \in Row \ moved' : key'[s] \in {0, key[s]}
  PROVE  PageInv'
<1>2. /\ (Table \ moved)' \subseteq Table \ moved
      /\ \A s \in (Table \ moved)' : key'[s] = key[s]
      /\ UNCHANGED <<at, cursor, got, twice, list>>
  BY DEF Table, reader
<1>3. TypeOK'
  BY <1>2 DEF PageInv, TypeOK, Cursor, Time
<1>4. PagesComplete'
  BY <1>2 DEF PageInv, PagesComplete
<1>5. ASSUME at' = "paging", cursor' # None, NEW s \in (Table \ moved)'
      PROVE  s \in got <=> ~Before(cursor, Position(s))
  BY <1>2, <1>5 DEF PageInv
<1> QED
  BY <1>2, <1>3, <1>4, <1>5 DEF PageInv, Position, Before, Less

(* An INSERT or an UPDATE of one row.                                      *)
LEMMA WriteKeeps ==
  ASSUME PageInv, NEW r \in Row, NEW t \in {0} \cup Time,
         (t \in Time /\ Insert(r, t)) \/ Update(r, t)
  PROVE  PageInv'
<1>1. t \in 0..MaxTime
  BY ListsAssumption DEF Time
<1>2. CASE Insert(r, t)
  BY <1>1, <1>2, OthersStay DEF Insert, PageInv, TypeOK
<1>3. CASE Update(r, t)
  BY <1>1, <1>3, OthersStay DEF Update, PageInv, TypeOK
<1> QED
  BY <1>2, <1>3

(* A DELETE of any rows, and of the batch or recipe with all of them.      *)
LEMMA DeleteKeeps ==
  ASSUME PageInv, (\E R \in SUBSET Row : Delete(R)) \/ DeleteParent
  PROVE  PageInv'
<1> USE ListsAssumption DEF PageInv, TypeOK
<1>1. ASSUME NEW R \in SUBSET Row, Delete(R) PROVE PageInv'
  BY <1>1, OthersStay DEF Delete
<1>2. CASE DeleteParent
  <2>1. key' \in [Row -> 0..MaxTime] /\ \A s \in Row : key'[s] = 0
    BY <1>2 DEF DeleteParent
  <2>2. UNCHANGED <<list, reader>> /\ moved' = moved /\ parent' \in BOOLEAN
    BY <1>2 DEF DeleteParent
  <2> QED
    BY <2>1, <2>2, OthersStay
<1> QED
  BY <1>1, <1>2

(* The client begins a list or finds it gone.                              *)
LEMMA ClientKeeps ==
  ASSUME PageInv, Begin \/ ListFails
  PROVE  PageInv'
<1>1. CASE Begin
  BY <1>1 DEF Begin, PageInv, TypeOK, PagesComplete, Cursor, Time, Position, Before, Less
<1>2. CASE ListFails
  BY <1>2 DEF ListFails, PageInv, TypeOK, PagesComplete, Cursor, Time, Position, Before,
              Less
<1> QED
  BY <1>1, <1>2

(* The invariant holds in every state of the specification.                *)
THEOREM Invariance == Spec => []PageInv
<1>1. Init => PageInv
  BY ListsAssumption DEF Init, PageInv, TypeOK, PagesComplete
<1>2. PageInv /\ [Next]_vars => PageInv'
  <2> SUFFICES ASSUME PageInv, [Next]_vars PROVE PageInv'
    OBVIOUS
  <2> USE DEF Time
  <2>1. CASE Begin \/ ListFails
    BY <2>1, ClientKeeps
  <2>2. CASE ListPage
    <3>1. PICK P \in SUBSET Row, n \in 1..MaxLimit : FirstOfRest(P, n) /\ Serve(P, n)
      BY <2>2 DEF ListPage, HandleListBatches, HandleListReadings, HandleListBatchEvents,
           HandleListRecipes, HandleListMyRecipes, HandleListComments,
           HandleListNotifications, ListBatchesForUser, ListReadingsForBatch,
           ListBatchEventsForBatch, ListPublicRecipes, ListRecipesForAuthor,
           ListRecipeComments, ListNotifications
    <3> QED
      BY <3>1, PageStep DEF Page
  <2>3. CASE Create
    <3>1. PICK r \in Row, t \in Time : Insert(r, t)
      BY <2>3 DEF Create, CreateReading, CreateBatchEvent, CreateBatch,
           CreateRecipeComment, CreateNotification, CreateRecipe, PublishRecipe
    <3> QED
      BY <3>1, WriteKeeps
  <2>4. CASE Change
    <3>1. PICK r \in Row, t \in {0} \cup Time : Update(r, t)
      BY <2>4 DEF Change, UpdateRecipe, UpdateReading, UpdateBatchEvent, UpdateBatch
    <3> QED
      BY <3>1, WriteKeeps
  <2>5. CASE Remove
    <3>1. PICK R \in SUBSET Row : Delete(R)
      BY <2>5 DEF Remove, DeleteNotificationsForUser, DeleteReadingsBulk, DeleteReading,
           DeleteBatchEvent, DeleteBatch, DeleteRecipeComment, WithdrawRecipe, DeleteRecipe
    <3> QED
      BY <3>1, DeleteKeeps
  <2>6. CASE DeleteParent
    BY <2>6, DeleteKeeps
  <2>7. CASE UNCHANGED vars
    BY <2>7 DEF vars, reader, PageInv, TypeOK, PagesComplete, Cursor, Time, Table,
                Position, Before, Less
  <2> QED
    BY <2>1, <2>2, <2>3, <2>4, <2>5, <2>6, <2>7 DEF Next
<1> QED
  BY <1>1, <1>2, PTL DEF Spec

(* A client that follows the cursors to the end gets every row that stayed *)
(* where it was, exactly once.                                             *)
THEOREM CompletePages == Spec => []PagesComplete
  BY Invariance, PTL DEF PageInv

-----------------------------------------------------------------------------
(* RateLimit                                                               *)

(* A bucket was seen no earlier than it last let a request through.        *)
SeenInv ==
  /\ LimiterTypeOK
  /\ \A k \in buckets : last[k] <= lastSeen[k] /\ lastSeen[k] <= now

(* A full bucket pays for one request, and refills within idleTTL.         *)
LEMMA CapacityFacts ==
  /\ Every \in Nat /\ 0 < Every
  /\ Capacity \in Nat
  /\ Every <= Capacity
  /\ IdleTTL \in Nat
  /\ Capacity <= IdleTTL
<1>1. \A b \in Nat \ {0} : Every <= Every * b
  BY RateLimitAssumption, SMT
<1> QED
  BY <1>1, RateLimitAssumption DEF Capacity

(* What a bucket holds is between nothing and Capacity.                    *)
LEMMA LevelRange ==
  ASSUME SeenInv, NEW k \in Key
  PROVE  Level(k) \in 0..Capacity
BY CapacityFacts DEF SeenInv, LimiterTypeOK, Level

(* Every step of the limiter keeps the invariant.                          *)
LEMMA SeenStep ==
  ASSUME SeenInv, [LimiterNext]_limiterVars
  PROVE  SeenInv'
<1> USE CapacityFacts DEF SeenInv, LimiterTypeOK
<1>1. ASSUME NEW k \in Key, Allow(k) PROVE SeenInv'
  <2> DEFINE kept == IF EvictionDue THEN EvictIdleLocked ELSE buckets
             level == IF k \in kept THEN Level(k) ELSE Capacity
  <2>1. kept \subseteq buckets
    BY DEF EvictIdleLocked
  <2>2. level \in 0..Capacity
    BY LevelRange
  <2>3. level >= Every => level - Every \in 0..Capacity
    BY <2>2
  <2> HIDE DEF kept, level
  <2>4. /\ lastEviction' \in {now, lastEviction}
        /\ buckets' = kept \cup {k}
        /\ lastSeen' = [lastSeen EXCEPT ![k] = now]
        /\ IF level >= Every
           THEN /\ tokens' = [tokens EXCEPT ![k] = level - Every]
                /\ last' = [last EXCEPT ![k] = now]
                /\ answer' = <<k, TRUE>>
           ELSE answer' = <<k, FALSE>> /\ UNCHANGED <<tokens, last>>
        /\ now' = now
    BY <1>1 DEF Allow, kept, level
  <2>5. CASE level >= Every
    <3>1. answer' \in Key \X BOOLEAN
      <4>1. answer' = <<k, TRUE>>
        BY <2>4, <2>5
      <4> QED
        BY <4>1, Zenon
    <3>2. \A j \in buckets' : last'[j] <= lastSeen'[j] /\ lastSeen'[j] <= now'
      BY <2>1, <2>4, <2>5
    <3>3. tokens' \in [Key -> 0..Capacity] /\ last' \in [Key -> Nat]
      BY <2>3, <2>4, <2>5
    <3> QED
      BY <2>1, <2>4, <3>1, <3>2, <3>3
  <2>6. CASE ~(level >= Every)
    <3>1. k \in kept
      BY <2>6 DEF level
    <3>2. answer' \in Key \X BOOLEAN
      <4>1. answer' = <<k, FALSE>>
        BY <2>4, <2>6
      <4> QED
        BY <4>1, Zenon
    <3>3. \A j \in buckets' : last'[j] <= lastSeen'[j] /\ lastSeen'[j] <= now'
      BY <2>1, <2>4, <2>6, <3>1
    <3> QED
      BY <2>1, <2>4, <2>6, <3>2, <3>3
  <2> QED
    BY <2>5, <2>6
<1>2. CASE Tick
  BY <1>2 DEF Tick, entries
<1>3. CASE UNCHANGED limiterVars
  BY <1>3 DEF limiterVars, entries
<1> QED
  BY <1>1, <1>2, <1>3 DEF LimiterNext

(* What the buckets hold after a request: nothing is gained by forgetting  *)
(* one, since it had refilled before it was forgotten.                     *)
LEMMA AllowLevels ==
  ASSUME SeenInv, NEW k \in Key, Allow(k)
  PROVE  /\ answer' = IF Level(k) >= Every THEN <<k, TRUE>> ELSE <<k, FALSE>>
         /\ \A j \in Key \ {k} : Level(j)' = Level(j)
         /\ Level(k)' = IF Level(k) >= Every THEN Level(k) - Every ELSE Level(k)
<1> USE CapacityFacts DEF SeenInv, LimiterTypeOK
<1> DEFINE kept == IF EvictionDue THEN EvictIdleLocked ELSE buckets
           level == IF k \in kept THEN Level(k) ELSE Capacity
<1>1. /\ kept \subseteq buckets
      /\ \A j \in buckets \ kept : now - lastSeen[j] > IdleTTL
  BY DEF EvictIdleLocked
<1>2. \A j \in Key \ kept : Level(j) = Capacity
  <2>1. TAKE j \in Key \ kept
  <2>2. CASE j \in buckets
    <3>1. now - lastSeen[j] > IdleTTL
      BY <1>1, <2>2
    <3>2. tokens[j] + (now - last[j]) >= Capacity
      BY <3>1, <2>2
    <3> QED
      BY <3>2, <2>2 DEF Level
  <2> QED
    BY <2>2 DEF Level
<1>3. level = Level(k)
  BY <1>2
<1> HIDE DEF kept, level
<1>4. /\ buckets' = kept \cup {k}
      /\ IF level >= Every
         THEN /\ tokens' = [tokens EXCEPT ![k] = level - Every]
              /\ last' = [last EXCEPT ![k] = now]
              /\ answer' = <<k, TRUE>>
         ELSE answer' = <<k, FALSE>> /\ UNCHANGED <<tokens, last>>
      /\ now' = now
  BY DEF Allow, kept, level
<1>5. Level(k) \in 0..Capacity
  BY LevelRange
<1>6. ASSUME NEW j \in Key \ {k} PROVE Level(j)' = Level(j)
  <2>1. tokens'[j] = tokens[j] /\ last'[j] = last[j] /\ now' = now
    BY <1>4
  <2>2. CASE j \in kept
    <3>1. j \in buckets /\ j \in buckets'
      BY <1>1, <1>4, <2>2
    <3> QED
      BY <2>1, <3>1 DEF Level, Capacity
  <2>3. CASE j \notin kept
    <3>1. j \notin buckets'
      BY <1>4, <2>3
    <3> QED
      BY <1>2, <2>3, <3>1 DEF Level, Capacity
  <2> QED
    BY <2>2, <2>3
<1>7. CASE level >= Every
  <2>1. k \in buckets' /\ tokens'[k] = level - Every /\ last'[k] = now /\ now' = now
    BY <1>4, <1>7
  <2>2. Level(k)' = level - Every
    BY <2>1, <1>3, <1>5 DEF Level, Capacity
  <2> QED
    BY <1>3, <1>4, <1>6, <1>7, <2>2
<1>8. CASE ~(level >= Every)
  <2>1. k \in kept
    BY <1>8 DEF level
  <2>2. k \in buckets /\ k \in buckets' /\ UNCHANGED <<tokens, last, now>>
    BY <1>1, <1>4, <1>8, <2>1
  <2>3. Level(k)' = Level(k)
    BY <2>2 DEF Level, Capacity
  <2> QED
    BY <1>3, <1>4, <1>6, <1>8, <2>3
<1> QED
  BY <1>7, <1>8

(* The limiter answers every request as one that never evicts a bucket     *)
(* does, if a bucket refills within idleTTL (Every * Burst <= IdleTTL).    *)
THEOREM LimiterImplements == LimiterSpec => ImplementsTokenBucket
<1> DEFINE levels == [k \in Key |-> Level(k)]
<1>1. LimiterInit => SeenInv
  BY CapacityFacts DEF LimiterInit, SeenInv, LimiterTypeOK
<1>2. SeenInv /\ [LimiterNext]_limiterVars => SeenInv'
  BY SeenStep
<1>3. LimiterInit => Unevicted!Init
  BY DEF LimiterInit, Unevicted!Init, Level
<1>4. SeenInv /\ [LimiterNext]_limiterVars => [Unevicted!Next]_<<levels, answer>>
  <2> SUFFICES ASSUME SeenInv, [LimiterNext]_limiterVars
               PROVE  [Unevicted!Next]_<<levels, answer>>
    OBVIOUS
  <2> USE CapacityFacts
  <2>1. ASSUME NEW k \in Key, Allow(k) PROVE Unevicted!Next
    <3>1. Level(k) \in 0..Capacity
      BY LevelRange
    <3>2. /\ answer' = IF Level(k) >= Every THEN <<k, TRUE>> ELSE <<k, FALSE>>
          /\ \A j \in Key \ {k} : Level(j)' = Level(j)
          /\ Level(k)' = IF Level(k) >= Every THEN Level(k) - Every ELSE Level(k)
      BY <2>1, AllowLevels
    <3>3. CASE Level(k) >= Every
      <4>1. answer' = <<k, TRUE>>
        BY <3>2, <3>3
      <4>2. levels' = [levels EXCEPT ![k] = levels[k] - Every]
        BY <3>2, <3>3
      <4> QED
        BY <3>3, <4>1, <4>2 DEF Unevicted!Next, Unevicted!Pass
    <3>4. CASE ~(Level(k) >= Every)
      <4>1. answer' = <<k, FALSE>>
        BY <3>2, <3>4
      <4>2. levels' = levels
        BY <3>2, <3>4
      <4> QED
        BY <3>1, <3>4, <4>1, <4>2 DEF Unevicted!Next, Unevicted!Refuse
    <3> QED
      BY <3>3, <3>4
  <2>2. CASE Tick
    <3>1. now' = now + 1 /\ UNCHANGED <<buckets, tokens, last, answer>>
      BY <2>2 DEF Tick, entries
    <3>2. ASSUME NEW k \in Key
          PROVE  Level(k)' = IF Level(k) < Capacity THEN Level(k) + 1 ELSE Capacity
      BY <3>1 DEF Level, Capacity, SeenInv, LimiterTypeOK
    <3> QED
      BY <3>1, <3>2 DEF Unevicted!Next, Unevicted!Refill
  <2>3. CASE UNCHANGED limiterVars
    BY <2>3 DEF limiterVars, entries, Level, Capacity
  <2> QED
    BY <2>1, <2>2, <2>3 DEF LimiterNext
<1> QED
  BY <1>1, <1>2, <1>3, <1>4, PTL
     DEF LimiterSpec, ImplementsTokenBucket, Unevicted!Spec

=============================================================================
