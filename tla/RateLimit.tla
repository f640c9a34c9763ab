----------------------------- MODULE RateLimit -----------------------------
(***************************************************************************)
(* The in-memory limiter: a map from keys (addresses, user names, users)   *)
(* to token buckets, created at the first request of a key and evicted     *)
(* once idle.  A call of Allow holds the mutex from its first to its last  *)
(* line and is one action.  The bucket itself is golang.org/x/time/rate.   *)
(*                                                                         *)
(* Time is counted in units, and so is what a bucket holds: a token is     *)
(* Every units, the time it takes to refill it.                            *)
(*                                                                         *)
(* An operator Mut... is the definition below it with a plausible mistake. *)
(* No action uses it; putting it in place shows that a property notices.   *)
(***************************************************************************)
EXTENDS Integers

CONSTANTS
  Key,      \* what requests are counted by
  Every,    \* time for one token
  Burst,    \* tokens of a full bucket
  IdleTTL,  \* a bucket not asked for longer may be evicted
  MaxNow    \* bounds the time

(* The three limiters of server.New allow 10 requests and one every 2 s,   *)
(* 5 and one every 12 s, 5 and one every 2 min; idleTTL is 30 min.         *)
ASSUME RateLimitAssumption ==
  /\ Every \in Nat \ {0}
  /\ Burst \in Nat \ {0}
  /\ Every * Burst \in Nat
  /\ IdleTTL \in Nat
  /\ Every * Burst <= IdleTTL
  /\ MaxNow \in Nat

VARIABLES
  now,           \* the clock
  buckets,       \* keys in the map
  tokens,        \* what a bucket held when it last let a request through
  last,          \* when that was
  lastSeen,      \* entry.lastSeen
  lastEviction,  \* Limiter.lastEviction
  answer         \* the last request's key and result

entries == <<buckets, tokens, last, lastSeen>>
limiterVars == <<now, entries, lastEviction, answer>>

Capacity == Every * Burst

(* The whole state is well formed. *)
LimiterTypeOK ==
  /\ now \in Nat
  /\ buckets \subseteq Key
  /\ tokens \in [Key -> 0..Capacity]
  /\ last \in [Key -> Nat]
  /\ lastSeen \in [Key -> Nat]
  /\ lastEviction \in Nat
  /\ answer \in {<<>>} \cup (Key \X BOOLEAN)

LimiterInit ==
  /\ now = 0
  /\ buckets = {}
  /\ tokens = [k \in Key |-> 0]
  /\ last = [k \in Key |-> 0]
  /\ lastSeen = [k \in Key |-> 0]
  /\ lastEviction = 0
  /\ answer = <<>>

-----------------------------------------------------------------------------
(* rate.Limiter: what the bucket of k holds now; a new one is full. *)
Level(k) ==
  IF k \notin buckets THEN Capacity
  ELSE LET level == tokens[k] + (now - last[k])
       IN IF level < Capacity THEN level ELSE Capacity

(* The buckets that stay: those seen since now - idleTTL. *)
MutKeepHalf == {k \in buckets : 2 * (now - lastSeen[k]) <= IdleTTL}
EvictIdleLocked == {k \in buckets : now - lastSeen[k] <= IdleTTL}

(* At most twice in idleTTL. *)
EvictionDue == 2 * (now - lastEviction) > IdleTTL

Allow(k) ==
  LET kept == IF EvictionDue THEN EvictIdleLocked ELSE buckets
      level == IF k \in kept THEN Level(k) ELSE Capacity
  IN /\ lastEviction' = IF EvictionDue THEN now ELSE lastEviction
     /\ buckets' = kept \cup {k}
     /\ lastSeen' = [lastSeen EXCEPT ![k] = now]
     /\ IF level >= Every
        THEN /\ tokens' = [tokens EXCEPT ![k] = level - Every]
             /\ last' = [last EXCEPT ![k] = now]
             /\ answer' = <<k, TRUE>>
        ELSE /\ answer' = <<k, FALSE>>
             /\ UNCHANGED <<tokens, last>>
     /\ UNCHANGED now

Tick ==
  /\ now < MaxNow
  /\ now' = now + 1
  /\ UNCHANGED <<entries, lastEviction, answer>>

LimiterNext ==
  \/ \E k \in Key : Allow(k)
  \/ Tick

LimiterSpec == LimiterInit /\ [][LimiterNext]_limiterVars

-----------------------------------------------------------------------------
(* Properties                                                              *)

(* The limiter answers every request as one that never evicts a bucket     *)
(* does: forgetting a key gives it no request more, as long as a bucket    *)
(* refills within idleTTL.                                                 *)
Unevicted == INSTANCE TokenBucket
             WITH level <- [k \in Key |-> Level(k)], Capacity <- Capacity
ImplementsTokenBucket == Unevicted!Spec

=============================================================================
