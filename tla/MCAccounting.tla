---------------------------- MODULE MCAccounting ----------------------------
(* Model checking of Accounting: every tuple has a key and a legacy key of  *)
(* its own.                                                                 *)
EXTENDS Accounting

DistinctKeys == [c \in Conns |-> <<"key", c>>]
DistinctLegacy == [c \in Conns |-> <<"legacy", c>>]
=============================================================================
