--------------------------- MODULE MCLeaderBalance ---------------------------
(* An instance of LeaderBalance for TLC. *)
EXTENDS LeaderBalance

\* Root group on nodes 1-2; groups 1 and 3 on all three nodes; group 2 on 1 and 3.
PlacementP == (0 :> {1, 2}) @@ (1 :> {1, 2, 3}) @@ (2 :> {1, 3}) @@ (3 :> {1, 2, 3})
\* The replica_state of group 1 and group 3 on node 1 may be missing.
MayLackM == {<<1, 1>>, <<3, 1>>}
====
