------------------------------ MODULE KeySpace ------------------------------
(***************************************************************************)
(* KeySpace (src/src/engine/src/key_space.rs): the object table of the    *)
(* engine, two hashbrown RawTables with an incremental rehash.             *)
(*                                                                         *)
(* A table is a function from the keys it holds to their objects.  The     *)
(* iteration order of a RawTable depends on hashes, so advance_rehash      *)
(* moves any Step + 1 entries.  Capacities keep the code's rule: the       *)
(* rehash starts when len * 100 >= 86 * capacity, into a table of twice    *)
(* the capacity; ADVANCE_STEP (64) and the first capacity (28 for 16       *)
(* buckets) are scaled down to Step and MinCap.  Each insert passes a      *)
(* fresh object, numbered by the operation count.                         *)
(***************************************************************************)
EXTENDS Naturals, FiniteSets, Sequences, Functions, TLC

Seqs == INSTANCE SequencesExt

CONSTANTS
    Keys,      \* user keys
    Step,      \* ADVANCE_STEP
    MinCap,    \* capacity of RawTable::with_capacity(MIN_NUM_BUCKETS)
    MaxOps,    \* bound on operations
    Limits,    \* limits passed to random_objects
    NONE

VARIABLES
    ks,     \* [cur, nxt, cap, ncap]: current_space, next_space (or NONE), capacities
    ops,    \* operations performed
    last    \* the last call: [op, key, obj, ret, prev]

vars == <<ks, ops, last>>

Objects == 1..MaxOps

Drop(t, S) == Restrict(t, DOMAIN t \ S)

\* advance_rehash: move entries one by one; return once more than Step
\* moved, else swap the tables and end the rehash.
advance_rehash(s) ==
    IF s.nxt = NONE THEN {s}
    ELSE IF Cardinality(DOMAIN s.cur) > Step
    THEN {[s EXCEPT !.cur = Drop(s.cur, M), !.nxt = Restrict(s.cur, M) @@ s.nxt] :
            M \in {M \in SUBSET DOMAIN s.cur : Cardinality(M) = Step + 1}}
    ELSE {[s EXCEPT !.cur = s.cur @@ s.nxt, !.nxt = NONE, !.cap = s.ncap]}

\* Mutant: the next table is made with the same capacity.
ensure_enough_space_same_cap(s) ==
    IF s.nxt = NONE /\ Cardinality(DOMAIN s.cur) * 100 >= 86 * s.cap
    THEN advance_rehash([s EXCEPT !.nxt = <<>>, !.ncap = s.cap])
    ELSE {s}

\* ensure_enough_space: only expansion, and not during a rehash.
ensure_enough_space(s) ==
    IF s.nxt = NONE /\ Cardinality(DOMAIN s.cur) * 100 >= 86 * s.cap
    THEN advance_rehash([s EXCEPT !.nxt = <<>>, !.ncap = 2 * s.cap])
    ELSE {s}

\* The object a lookup answers: next_space first, then current_space.
Lookup(s, k) ==
    IF s.nxt # NONE /\ k \in DOMAIN s.nxt THEN s.nxt[k]
    ELSE IF k \in DOMAIN s.cur THEN s.cur[k]
    ELSE NONE

\* The map the tables stand for.
View(s) == [k \in DOMAIN s.cur \cup (IF s.nxt = NONE THEN {} ELSE DOMAIN s.nxt) |-> Lookup(s, k)]

\* Results of an operation: the tables after it and its return value.
Res(s, r) == [st |-> s, ret |-> r]

\* Mutant: the new entry goes to next_space, the old one stays behind.
insert_keep_current(s, k, o) ==
    IF s.nxt # NONE
    THEN IF k \in DOMAIN s.nxt THEN {Res([s EXCEPT !.nxt[k] = o], s.nxt[k])}
         ELSE {Res([s EXCEPT !.nxt = (k :> o) @@ s.nxt], NONE)}
    ELSE IF k \in DOMAIN s.cur THEN {Res([s EXCEPT !.cur[k] = o], s.cur[k])}
    ELSE {Res(t, NONE) : t \in ensure_enough_space([s EXCEPT !.cur = (k :> o) @@ s.cur])}

\* KeySpace::insert after its advance_rehash.
insert(s, k, o) ==
    IF s.nxt # NONE
    THEN IF k \in DOMAIN s.nxt THEN {Res([s EXCEPT !.nxt[k] = o], s.nxt[k])}
         ELSE {Res([s EXCEPT !.nxt = (k :> o) @@ s.nxt, !.cur = Drop(s.cur, {k})], NONE)}
    ELSE IF k \in DOMAIN s.cur THEN {Res([s EXCEPT !.cur[k] = o], s.cur[k])}
    ELSE {Res(t, NONE) : t \in ensure_enough_space([s EXCEPT !.cur = (k :> o) @@ s.cur])}

\* Mutant: remove looks in current_space only.
remove_current_only(s, k) ==
    {Res([s EXCEPT !.cur = Drop(s.cur, {k})],
         IF k \in DOMAIN s.cur THEN s.cur[k] ELSE NONE)}

\* KeySpace::remove after its advance_rehash.
remove(s, k) ==
    IF s.nxt # NONE /\ k \in DOMAIN s.nxt
    THEN {Res([s EXCEPT !.nxt = Drop(s.nxt, {k})], s.nxt[k])}
    ELSE {Res([s EXCEPT !.cur = Drop(s.cur, {k})], Lookup(s, k))}

\* KeySpace::get after its advance_rehash.
get(s, k) == {Res(s, Lookup(s, k))}

\* random_objects_from_space: iter_with_hint from a random bucket takes up
\* to limit objects through the end of the table, and iteration from bucket
\* 0 tops them up.  The buckets hold the keys in an order set by hashes.
random_objects_from_space(t, limit) ==
    LET n == IF Cardinality(DOMAIN t) < limit THEN Cardinality(DOMAIN t) ELSE limit
        Take(s, m) == SubSeq(s, 1, IF Len(s) < m THEN Len(s) ELSE m)
        Pick(order, h) ==
            LET first == Take(SubSeq(order, h + 1, Len(order)), n)
            IN first \o Take(order, n - Len(first))
    IN {[i \in 1..n |-> t[p[i]]] :
          p \in {Pick(order, h) : order \in Seqs!SetToSeqs(DOMAIN t),
                                  h \in 0..Cardinality(DOMAIN t)}}

\* random_objects: from current_space first, the rest from next_space.
random_objects(s, limit) ==
    UNION {IF s.nxt = NONE \/ limit - Len(c) = 0 THEN {c}
           ELSE {c \o x : x \in random_objects_from_space(s.nxt, limit - Len(c))} :
             c \in random_objects_from_space(s.cur, limit)}

\* drain_next_space: empties next_space, which stays Some; without one it
\* answers None, which drains nothing (<<>>).
drain_next_space(s) ==
    IF s.nxt = NONE THEN Res(s, <<>>) ELSE Res([s EXCEPT !.nxt = <<>>], s.nxt)

\* drain_current_space: empties current_space.
drain_current_space(s) == Res([s EXCEPT !.cur = <<>>], s.cur)

Init ==
    /\ ks = [cur |-> <<>>, nxt |-> NONE, cap |-> MinCap, ncap |-> 0]
    /\ ops = 0
    /\ last = [op |-> "none", key |-> NONE, obj |-> NONE, ret |-> NONE, prev |-> NONE]

\* One public call, which has advanced the rehash: its results rs.
Call(op, k, o, rs) ==
    /\ ops < MaxOps
    /\ ops' = ops + 1
    /\ \E r \in rs :
          /\ ks' = r.st
          /\ last' = [op |-> op, key |-> k, obj |-> o, ret |-> r.ret,
                       prev |-> Lookup(ks, k)]

Insert(k) == \E a \in advance_rehash(ks) : Call("insert", k, ops + 1, insert(a, k, ops + 1))
Remove(k) == \E a \in advance_rehash(ks) : Call("remove", k, NONE, remove(a, k))
Get(k) == \E a \in advance_rehash(ks) : Call("get", k, NONE, get(a, k))

\* The calls that neither advance the rehash nor name a key.
Other(op, r) ==
    /\ ops < MaxOps
    /\ ops' = ops + 1
    /\ ks' = r.st
    /\ last' = [op |-> op, key |-> NONE, obj |-> NONE, ret |-> r.ret, prev |-> NONE]

RandomObjects(limit) ==
    \E o \in random_objects(ks, limit) : Other("sample", Res(ks, o))
DrainNext == Other("drain", drain_next_space(ks))
DrainCurrent == Other("drain", drain_current_space(ks))

Next ==
    \/ \E k \in Keys : Insert(k) \/ Remove(k) \/ Get(k)
    \/ \E l \in Limits : RandomObjects(l)
    \/ DrainNext
    \/ DrainCurrent

Spec == Init /\ [][Next]_vars

-----------------------------------------------------------------------------
\* The key space implements a plain map under the View mapping.
AbstractKV == INSTANCE KeyValueMap
    WITH map <- View(ks),
         call <- [op |-> last.op, key |-> last.key,
                  obj |-> IF last.op \in {"sample", "drain"} THEN last.ret ELSE last.obj]

(***************************************************************************)
(* Whatever entries advance_rehash moves and whenever an insert, remove or *)
(* get falls inside a rehash, the objects reachable through get are those *)
(* of a map in which each insert binds its key to its object, each remove *)
(* unbinds its key and each get changes nothing (key_space.rs:43-131).    *)
(***************************************************************************)
KeySpaceIsAMap == AbstractKV!Spec

(***************************************************************************)
(* No key is in both tables while a rehash is in progress, so remove,     *)
(* which returns from next_space first, never leaves a stale object in    *)
(* current_space (key_space.rs:49-55, 96-117).                            *)
(***************************************************************************)
KeyInOneTable ==
    ks.nxt # NONE => DOMAIN ks.cur \cap DOMAIN ks.nxt = {}

(***************************************************************************)
(* insert_no_grow is unsafe: it must never be called on a full table.    *)
(* Neither table ever holds more entries than its capacity: inserts      *)
(* outside a rehash land in current_space only below the 86% threshold   *)
(* that ensure_enough_space checks after each of them, and inserts during*)
(* a rehash land in a next_space of twice the capacity, which the moved  *)
(* entries and the new keys must not outgrow before the swap             *)
(* (key_space.rs:53, 60, 105, 119-131).                                  *)
(***************************************************************************)
TablesWithinCapacity ==
    /\ Cardinality(DOMAIN ks.cur) <= ks.cap
    /\ ks.nxt # NONE => Cardinality(DOMAIN ks.nxt) <= ks.ncap

(***************************************************************************)
(* insert, remove and get return the object the key was bound to before  *)
(* the call, as a map's insert and remove do (key_space.rs:43-94); a      *)
(* replaced object returned as None is never freed by the caller.         *)
(***************************************************************************)
ReturnsPreviousObject ==
    last.op \in {"insert", "remove", "get"} => last.ret = last.prev
=============================================================================
