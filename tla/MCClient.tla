------------------------------ MODULE MCClient ------------------------------
(* The instance of Client for TLC: every pair of a call that tries again and a  *)
(* call that runs beside it.                                                    *)
EXTENDS Client, TLC

CONSTANTS c1, c2

MCKinds == (c1 :> {"read", "asyncRead", "idem", "tx"})
           @@ (c2 :> {"write", "asyncWrite", "imp"})

=============================================================================
