--------------------------- MODULE MCEmailChange ---------------------------
(* The instance of EmailChange for TLC: three addresses, the third free. *)
EXTENDS EmailChange, TLC

CONSTANTS u1, u2, e1, e2, e3

FirstAddresses == u1 :> e1 @@ u2 :> e2

=============================================================================
