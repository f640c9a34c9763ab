---------------------------- MODULE MCStandalone ----------------------------
(* The instances of Lists, RateLimit and Delivery for TLC.  They share no  *)
(* state, so each behaviour moves only one of them, the chosen part.       *)
EXTENDS Lists, RateLimit, Delivery, TLC

Symmetry ==
  Permutations(Key) \cup Permutations(Address) \cup Permutations(Token)
    \cup Permutations(Patcher)

VARIABLE part

StandaloneInit ==
  /\ part \in {"lists", "limiter", "delivery"}
  /\ Init
  /\ part # "lists" => list = "batches" /\ key = [r \in Row |-> 0]
  /\ LimiterInit
  /\ DeliveryInit

StandaloneNext ==
  /\ UNCHANGED part
  /\ \/ part = "lists" /\ Next /\ UNCHANGED <<limiterVars, deliveryVars>>
     \/ part = "limiter" /\ LimiterNext /\ UNCHANGED <<vars, deliveryVars>>
     \/ part = "delivery" /\ DeliveryNext /\ UNCHANGED <<vars, limiterVars>>

StandaloneSpec ==
  StandaloneInit /\ [][StandaloneNext]_<<part, vars, limiterVars, deliveryVars>>

=============================================================================
