---------------------------- MODULE MCCoordinator ----------------------------
(***************************************************************************)
(* Small instances of Coordinator.                                         *)
(***************************************************************************)
EXTENDS Coordinator, TLC

CONSTANTS p1, x, y, w1, w2, c1, c2

\* A worker for each connection; one that connects again while its first connection is
\* still served; or one that uses two publisher ids on its one connection.
OneEach == c1 :> {<<x, w1>>} @@ c2 :> {<<y, w2>>}
Reconnecting == c1 :> {<<x, w1>>} @@ c2 :> {<<x, w1>>}
TwoNames == c1 :> {<<x, w1>>, <<y, w1>>} @@ c2 :> {<<y, w2>>}
=============================================================================
