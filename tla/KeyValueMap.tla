----------------------------- MODULE KeyValueMap -----------------------------
(***************************************************************************)
(* What KeySpace promises its callers: a map from keys to objects, and    *)
(* the call that last changed or read it.  An insert binds the key to the *)
(* object it passes, a remove unbinds the key, a get leaves the map as it *)
(* is, a sample returns up to n distinct objects of it, and a drain       *)
(* removes some bindings and hands them back.                             *)
(***************************************************************************)
EXTENDS Naturals, FiniteSets, Functions, TLC

CONSTANTS Keys, Objects, Limits, NONE

VARIABLES map, call

Init ==
    /\ map = <<>>
    /\ call = [op |-> "none", key |-> NONE, obj |-> NONE]

Put(k, o) ==
    /\ call' = [op |-> "insert", key |-> k, obj |-> o]
    /\ map' = (k :> o) @@ map

Del(k) ==
    /\ call' = [op |-> "remove", key |-> k, obj |-> NONE]
    /\ map' = Restrict(map, DOMAIN map \ {k})

Read(k) ==
    /\ call' = [op |-> "get", key |-> k, obj |-> NONE]
    /\ UNCHANGED map

\* Up to n objects of the map, none twice: all of them when n exceeds its size.
Sample(n) ==
    LET size == IF Cardinality(DOMAIN map) < n THEN Cardinality(DOMAIN map) ELSE n
    IN /\ \E o \in [1..size -> Range(map)] :
             /\ IsInjective(o)
             /\ call' = [op |-> "sample", key |-> NONE, obj |-> o]
       /\ UNCHANGED map

\* Some of the bindings are removed and handed back.
Drain ==
    /\ \E D \in SUBSET DOMAIN map :
          /\ call' = [op |-> "drain", key |-> NONE, obj |-> Restrict(map, D)]
          /\ map' = Restrict(map, DOMAIN map \ D)

Next ==
    \/ \E k \in Keys : Del(k) \/ Read(k) \/ \E o \in Objects : Put(k, o)
    \/ \E n \in Limits : Sample(n)
    \/ Drain

Spec == Init /\ [][Next]_<<map, call>>
=============================================================================
