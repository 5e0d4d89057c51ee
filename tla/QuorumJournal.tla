---------------------------- MODULE QuorumJournal ----------------------------
(***************************************************************************)
(* QuorumJournal::append and its QuorumFuture                             *)
(* (src/engula/src/journal/quorum_journal.rs).                            *)
(*                                                                         *)
(* An append sends one flight per replica client and awaits               *)
(* timeout(self.timeout, QuorumFuture).  Each flight is an `async fn`      *)
(* future of the journal client: it answers Ok or Err once, in any order, *)
(* and polling it again after it returned Ready panics.  QuorumFuture is   *)
(* polled when a flight wakes it; tokio's Timeout polls the inner future   *)
(* first and fails only if it is still pending when the timer fires.       *)
(* Appends are serialised by the clients mutex.                            *)
(***************************************************************************)
EXTENDS Naturals, FiniteSets

CONSTANTS
    Replicas,     \* the journal clients, one flight each
    MaxAppends    \* bound on append calls

VARIABLES
    flight,   \* flight[r]: "pending", "ok" or "err"
    taken,    \* replicas whose flight already returned Ready to a poll
    woken,    \* a flight woke the task since the last poll
    outcome,  \* "idle", "running", "ok", "timeout" or "panic"
    appends   \* append calls made

vars == <<flight, taken, woken, outcome, appends>>

\* `count > self.futures.len() / 2`.
QuorumReached(count) == count > Cardinality(Replicas) \div 2

\* The flights a poll finds Ready: every one that has answered.
Answered == {r \in Replicas : flight[r] # "pending"}

(***************************************************************************)
(* QuorumFuture::poll: poll every flight and count those Ready in this    *)
(* poll alone; a flight that returned Ready before panics when polled.    *)
(* Its result: "panic", "ready" or "pending", with the flights taken.     *)
(***************************************************************************)
PollResult ==
    IF Answered \cap taken # {} THEN "panic"
    ELSE IF QuorumReached(Cardinality(Answered)) THEN "ready"
    ELSE "pending"

\* The outcome of append once the poll returns r; pending keeps running.
AfterPoll(r, whenPending) ==
    CASE r = "panic" -> "panic"
      [] r = "ready" -> "ok"
      [] OTHER -> whenPending

Init ==
    /\ flight = [r \in Replicas |-> "pending"]
    /\ taken = {}
    /\ woken = FALSE
    /\ outcome = "idle"
    /\ appends = 0

\* QuorumJournal::append: lock the clients, start a flight per client and
\* poll the timed quorum once.
Append ==
    /\ outcome \in {"idle", "ok", "timeout"}
    /\ appends < MaxAppends
    /\ appends' = appends + 1
    /\ flight' = [r \in Replicas |-> "pending"]
    /\ taken' = {}
    /\ woken' = TRUE
    /\ outcome' = "running"

\* A replica answers its flight, Ok or Err, and wakes the task.
Answer(r, v) ==
    /\ outcome = "running"
    /\ flight[r] = "pending"
    /\ flight' = [flight EXCEPT ![r] = v]
    /\ woken' = TRUE
    /\ UNCHANGED <<taken, outcome, appends>>

\* The task is polled after a wake: Timeout polls the QuorumFuture.
Poll ==
    /\ outcome = "running"
    /\ woken
    /\ woken' = FALSE
    /\ taken' = taken \cup Answered
    /\ outcome' = AfterPoll(PollResult, "running")
    /\ UNCHANGED <<flight, appends>>

\* The timer fires: Timeout polls the QuorumFuture once more and, if it
\* is still pending, append returns the Elapsed error; the flights drop.
TimerFires ==
    /\ outcome = "running"
    /\ taken' = taken \cup Answered
    /\ woken' = FALSE
    /\ outcome' = AfterPoll(PollResult, "timeout")
    /\ UNCHANGED <<flight, appends>>

Next ==
    \/ Append
    \/ \E r \in Replicas, v \in {"ok", "err"} : Answer(r, v)
    \/ Poll
    \/ TimerFires

Spec == Init /\ [][Next]_vars

-----------------------------------------------------------------------------
(***************************************************************************)
(* QuorumFuture never polls a flight that already returned Ready: the     *)
(* spec (9) has it track per-future completion, and a completed `async   *)
(* fn` future panics when polled again (quorum_journal.rs:68-73).         *)
(***************************************************************************)
NeverPollsCompletedFlight == outcome # "panic"
=============================================================================
