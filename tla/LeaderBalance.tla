---------------------------- MODULE LeaderBalance ----------------------------
(***************************************************************************)
(* LeaderCountPolicy (src/src/server/src/root/allocator/policy_leader_cnt *)
(* .rs): the root's choice of one leader transfer that moves a group      *)
(* leader off a node holding more than its share.                         *)
(*                                                                         *)
(* The AllocSource the policy reads is the cluster state itself: a node's *)
(* capacity.leader_count is the number of groups it leads, and a         *)
(* replica's replica_state, when there is one, gives its current role.    *)
(* Some replicas have no replica_state yet (the case the code comments    *)
(* on at line 93); a report adds it.  The mean is a rational; the code's *)
(* f64 comparisons with mean +- 0.5 are exact at these sizes, and are     *)
(* made here in integers scaled by 2 * |schedulable|.                     *)
(*                                                                         *)
(* What the root does with the answer is outside this file and modelled   *)
(* from the spec: a Shed is carried out by transferring the group's       *)
(* leadership, which raft refuses when the target replica is a learner,  *)
(* and Raft elections may move leaders on their own, a bounded number of *)
(* times.                                                                 *)
(***************************************************************************)
EXTENDS Integers, Sequences, SequencesExt, FiniteSets

CONSTANTS
    Nodes,        \* node ids
    Schedulable,  \* the nodes NodeFilter::Schedulable lets through
    Groups,       \* group ids
    RootGroup,    \* ROOT_GROUP_ID
    Placement,    \* group -> the nodes holding one of its replicas
    Learners,     \* replicas <<group, node>> whose ReplicaRole is not Voter
    MayLack,      \* replicas whose replica_state may not have arrived yet
    MaxElect,     \* bound on elections that move a leader
    NONE

Replicas == {r \in Groups \X Nodes : r[2] \in Placement[r[1]]}
Voters == Replicas \ Learners

VARIABLES
    leader,    \* group -> node of its raft leader
    reported,  \* replicas that have a replica_state
    elects,    \* elections so far
    action     \* the last LeaderAction compute_balance returned

vars == <<leader, reported, elects, action>>

Noop == [kind |-> "noop", group |-> NONE, src |-> NONE, target |-> NONE]
Shed(g, s, t) == [kind |-> "shed", group |-> g, src |-> s, target |-> t]

\* capacity.leader_count of a node.
LeaderCount(n) == Cardinality({g \in Groups : leader[g] = n})

\* mean_leader_count, as the pair total / count; the sum of the leader
\* counts of the schedulable nodes is the number of groups they lead.
mean_leader_count ==
    [total |-> Cardinality({g \in Groups : leader[g] \in Schedulable}),
     count |-> Cardinality(Schedulable)]

\* leader_balance_state(num, mean) with delta 0.5: num > mean + 0.5 is
\* 2*num*count > 2*total + count.  With no node the mean is NaN, every
\* comparison is false and the node is Balanced; so it is here.
leader_balance_state(num, m) ==
    IF 2 * num * m.count > 2 * m.total + m.count THEN "Overfull"
    ELSE IF 2 * num * m.count < 2 * m.total - m.count THEN "Underfull"
    ELSE "Balanced"

(***************************************************************************)
(* rank_nodes_for_leader: each node with its status, sorted by the        *)
(* comparator of sort_by.  The nodes come from a HashMap in any order and *)
(* the sort is stable, so the result is any order the comparator allows. *)
(***************************************************************************)
rank_nodes_for_leader(m) ==
    LET st  == [n \in Schedulable |-> leader_balance_state(LeaderCount(n), m)]
        cmp(n1, n2) ==
            IF st[n2] = "Overfull" /\ st[n1] # "Overfull" THEN "Greater"
            ELSE IF st[n2] = "Underfull" /\ st[n1] # "Underfull" THEN "Less"
            ELSE IF LeaderCount(n2) > LeaderCount(n1) THEN "Greater"
            ELSE IF LeaderCount(n2) < LeaderCount(n1) THEN "Less"
            ELSE "Equal"
    IN {[i \in DOMAIN p |-> [node |-> p[i], status |-> st[p[i]]]] :
           p \in {p \in SetToSeqs(Schedulable) :
                     \A i, j \in DOMAIN p : i < j => cmp(p[i], p[j]) # "Greater"}}

\* Mutant: the role check dropped.
try_descrease_node_leader_count_any_role(n, ranked, m) ==
    LET targets   == SelectSeq(Reverse(ranked), LAMBDA e : e.status = "Underfull")
        ok(g, t)  == /\ leader_balance_state(LeaderCount(t) + 1, m) # "Overfull"
                     /\ t # n
                     /\ t \in Placement[g]
        first(g)  == SelectInSeq(targets, LAMBDA e : ok(g, e.node))
        cands     == {g \in Groups : /\ n \in Placement[g]
                                     /\ g # RootGroup
                                     /\ <<g, n>> \notin Learners
                                     /\ <<g, n>> \in reported}
    IN {Shed(g, n, targets[first(g)].node) : g \in {g \in cands : first(g) # 0}}

\* Mutant: source and target swapped in the decision.
try_descrease_node_leader_count_swapped(n, ranked, m) ==
    LET targets   == SelectSeq(Reverse(ranked), LAMBDA e : e.status = "Underfull")
        ok(g, t)  == /\ leader_balance_state(LeaderCount(t) + 1, m) # "Overfull"
                     /\ t # n
                     /\ t \in Placement[g]
        first(g)  == SelectInSeq(targets, LAMBDA e : ok(g, e.node))
        cands     == {g \in Groups : /\ n \in Placement[g]
                                     /\ g # RootGroup
                                     /\ <<g, n>> \notin Learners
                                     /\ <<g, n>> \in reported
                                     /\ leader[g] = n}
    IN {Shed(g, targets[first(g)].node, n) : g \in {g \in cands : first(g) # 0}}

(***************************************************************************)
(* try_descrease_node_leader_count(n): over node n's replicas, skipping   *)
(* the root group, non-voters, replicas without replica_state and        *)
(* non-leaders, the first whose group has a replica on an Underfull node, *)
(* taken in reverse rank order, that one more leader would not make       *)
(* Overfull.  node_replicas lists replicas in no set order, so any        *)
(* candidate with a target may be the first: the answer is the set of     *)
(* decisions the code can return, {} for None.                            *)
(***************************************************************************)
try_descrease_node_leader_count(n, ranked, m) ==
    LET targets   == SelectSeq(Reverse(ranked), LAMBDA e : e.status = "Underfull")
        ok(g, t)  == /\ leader_balance_state(LeaderCount(t) + 1, m) # "Overfull"
                     /\ t # n
                     /\ t \in Placement[g]
        first(g)  == SelectInSeq(targets, LAMBDA e : ok(g, e.node))
        cands     == {g \in Groups : /\ n \in Placement[g]
                                     /\ g # RootGroup
                                     /\ <<g, n>> \notin Learners
                                     /\ <<g, n>> \in reported
                                     /\ leader[g] = n}
    IN {Shed(g, n, targets[first(g)].node) : g \in {g \in cands : first(g) # 0}}

\* compute_balance: the first Overfull node, in rank order, that yields a
\* decision sheds; Noop when none does.  Any rank order may be the one.
compute_balance ==
    LET m == mean_leader_count
        Decide(ranked) ==
            LET over == SelectSeq(ranked, LAMBDA e : e.status = "Overfull")
                ds   == [i \in DOMAIN over |-> try_descrease_node_leader_count(over[i].node, ranked, m)]
                k    == SelectInSeq(ds, LAMBDA d : d # {})
            IN IF k = 0 THEN {Noop} ELSE ds[k]
    IN UNION {Decide(r) : r \in rank_nodes_for_leader(m)}
-----------------------------------------------------------------------------
Init ==
    /\ leader \in {l \in [Groups -> Nodes] : \A g \in Groups : <<g, l[g]>> \in Voters}
    /\ reported = Replicas \ MayLack
    /\ elects = 0
    /\ action = Noop

\* The root's balancing round: compute_balance over the current state, and
\* a Shed carried out as a leadership transfer (refused towards a learner).
Balance ==
    \E a \in compute_balance :
        /\ action' = a
        /\ leader' = IF a.kind = "shed" /\ <<a.group, a.target>> \notin Learners
                     THEN [leader EXCEPT ![a.group] = a.target]
                     ELSE leader
        /\ UNCHANGED <<reported, elects>>

\* A node's heartbeat brings the replica_state of one of its replicas.
Report(r) ==
    /\ r \in Replicas \ reported
    /\ reported' = reported \cup {r}
    /\ UNCHANGED <<leader, elects, action>>

\* Raft elects another voter of g on its own.
Elect(g, n) ==
    /\ elects < MaxElect
    /\ <<g, n>> \in Voters
    /\ leader[g] # n
    /\ leader' = [leader EXCEPT ![g] = n]
    /\ elects' = elects + 1
    /\ UNCHANGED <<reported, action>>

Next ==
    \/ Balance
    \/ \E r \in Replicas : Report(r)
    \/ \E g \in Groups, n \in Nodes : Elect(g, n)

\* The root runs its balancing round periodically for as long as it lives.
Spec == Init /\ [][Next]_vars /\ WF_vars(Balance)

-----------------------------------------------------------------------------
\* Sum of the squared leader counts of the schedulable nodes.
Spread(l) == MapThenSumSet(LAMBDA n : Cardinality({g \in Groups : l[g] = n}) ^ 2, Schedulable)

(***************************************************************************)
(* Every transfer the policy asks for lowers the spread of leader counts:*)
(* the source is above mean + 0.5 and the target stays at or below it    *)
(* after the move (policy_leader_cnt.rs:116-137, 170-179), so balancing   *)
(* rounds cannot undo one another.                                        *)
(***************************************************************************)
ShedLowersSpread ==
    [][action'.kind = "shed" /\ elects' = elects /\ reported' = reported
         => Spread(leader') < Spread(leader)]_vars

(***************************************************************************)
(* Once elections stop, repeated balancing rounds settle: compute_balance *)
(* eventually answers Noop for good, whatever replica_state is missing and*)
(* in whatever order nodes and replicas are listed                        *)
(* (policy_leader_cnt.rs:43-77).                                          *)
(***************************************************************************)
BalanceSettles == <>[](action.kind = "noop")
====
