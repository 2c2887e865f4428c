---------------------------- MODULE MCDeployment ----------------------------
(***************************************************************************)
(* A small instance of Deployment: two threads of one evaluator.           *)
(***************************************************************************)
EXTENDS Deployment

CONSTANTS p1, x, w1, c1, t1, t2

Anyone == [c \in Connection |-> Identity]
OneEvaluator == [t \in Caller |-> w1]
OnePublisher == [w \in Worker |-> x]
=============================================================================
