------------------------------ MODULE MCDrain ------------------------------
(* An instance of Drain: two jobs of one workflow run pin one service.      *)
EXTENDS Drain, TLC

CONSTANTS a, b, s1, r1

OneService == [k \in Calls |-> s1]
OneRun == [k \in Calls |-> r1]
=============================================================================
