---------------------------- MODULE MCShardLocator ----------------------------
(* ShardLocator for TLC: restrict Init to one partition mode per run. *)
EXTENDS ShardLocator

HashInit == Init /\ mode = "hash"
RangeInit == Init /\ mode = "range"
HashSpec == HashInit /\ [][Next]_vars
RangeSpec == RangeInit /\ [][Next]_vars
====
