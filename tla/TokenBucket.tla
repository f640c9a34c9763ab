---------------------------- MODULE TokenBucket ----------------------------
(***************************************************************************)
(* Abstract: a limiter that has a bucket for every key from the start and  *)
(* never forgets one.  A bucket holds up to Capacity, gains one unit in a  *)
(* unit of time, and a request that is let through costs Every units.      *)
(***************************************************************************)
EXTENDS Integers

CONSTANTS Key, Every, Capacity

VARIABLES
  level,  \* what each bucket holds
  answer  \* the last request's key and whether it was let through

Init ==
  /\ level = [k \in Key |-> Capacity]
  /\ answer = <<>>

Refill ==
  /\ level' = [k \in Key |-> IF level[k] < Capacity THEN level[k] + 1 ELSE Capacity]
  /\ UNCHANGED answer

Pass(k) ==
  /\ level[k] >= Every
  /\ level' = [level EXCEPT ![k] = level[k] - Every]
  /\ answer' = <<k, TRUE>>

Refuse(k) ==
  /\ level[k] < Every
  /\ answer' = <<k, FALSE>>
  /\ UNCHANGED level

Next == Refill \/ \E k \in Key : Pass(k) \/ Refuse(k)

Spec == Init /\ [][Next]_<<level, answer>>

=============================================================================
