--------------------------- MODULE ChildBranches ---------------------------
(***************************************************************************)
(* The branches that rlm_complete_batch runs in parallel: _run_branch,     *)
(* _handle_action, _parallel_map and _call_model of                        *)
(* src/src/rlm/engine.py, with the host's side of a cell in executor.py.   *)
(*                                                                         *)
(* A run is a tree of branches.  A cell that asks for children waits on    *)
(* the host's thread of its branch while a pool of that thread's own runs  *)
(* them; a child may do the same.  All share one ledger: its deadline, its *)
(* budget of subcalls and its permits for model calls.  The root runs on   *)
(* the caller's thread, which an interrupt may reach.                      *)
(*                                                                         *)
(* A branch has one turn here; turns and repairs are BranchLoop's, and the *)
(* steps within a model call are ModelCalls'.                              *)
(***************************************************************************)
EXTENDS Integers, FiniteSets, Sequences, SequencesExt

CONSTANTS
    Root,
    Children,       \* branch -> the children its cell asks for, in request order
    MaxParallel,    \* limits.max_parallel_model_calls: of permits, and of a pool's workers
    MaxSubcalls,
    Timeout,        \* limits.execution_timeout_seconds
    Deadline        \* of the run; also where the clock stops

Branches == DOMAIN Children
ChildrenOf(p) == Range(Children[p])
ParentOf(b) == CHOOSE p \in Branches : b \in ChildrenOf(p)

\* The branches above b, the nearest first.
Above[b \in Branches] == IF b = Root THEN <<>> ELSE <<ParentOf(b)>> \o Above[ParentOf(b)]
Ancestors(b) == Range(Above[b])
Earlier(b) ==
    LET all == Children[ParentOf(b)]
        at == CHOOSE i \in DOMAIN all : all[i] = b
    IN  {all[i] : i \in 1..(at - 1)}

VARIABLES
    clock,
    pc,             \* where each branch is
    err,            \* what it fails with, and the branch that comes from
    due,            \* the deadline of its cell
    live,           \* the branches with a running interpreter
    used            \* subcalls reserved

vars == <<clock, pc, err, due, live, used>>

NoError == [kind |-> "none", from |-> Root]
Error(kind, b) == [kind |-> kind, from |-> b]

\* timeout: an ExecutionTimeoutError; base: no Exception, as an interrupt;
\* remote: any other error, which has its own record and causal parent.
Kinds == {"none", "timeout", "base", "remote"}
Settled(b) == pc[b] \in {"done", "cancelled"}
Active(b) == pc[b] \notin {"none", "queued", "done", "cancelled"}
Least(a, b) == IF a < b THEN a ELSE b

\* Enough of the run has gone by that the cell of b's parent is over.
Over(b) == clock >= Least(Deadline, due[ParentOf(b)])

\* The timeout of a cell.  The seeded mistake forgets the cell it is a part of.
CellDeadlineFault(b) == Least(clock + Timeout, Deadline)
CellDeadline(b) == Least(clock + Timeout, Least(Deadline, due[ParentOf(b)]))

\* The run, at the first cell of the root.
Init ==
    /\ clock = 0
    /\ pc = [b \in Branches |-> IF b = Root THEN "cell" ELSE "none"]
    /\ err = [b \in Branches |-> NoError]
    /\ due = [b \in Branches |-> IF b = Root THEN Least(Timeout, Deadline) ELSE 0]
    /\ live = {Root}
    /\ used = 0

Tick == clock < Deadline /\ clock' = clock + 1 /\ UNCHANGED <<pc, err, due, live, used>>

Goes(b, place) == pc' = [pc EXCEPT ![b] = place]
FailsWith(b, e, place) == Goes(b, place) /\ err' = [err EXCEPT ![b] = e]

-----------------------------------------------------------------------------
(* A worker of a pool runs a branch                                        *)

\* The seeded mistake lets every pool have a thread for each child.
FreeWorkerFault(p) == TRUE
FreeWorker(p) ==
    Cardinality({c \in ChildrenOf(p) : Active(c)}) < Least(MaxParallel, Len(Children[p]))

Taken(b) ==
    /\ pc[b] = "queued"
    /\ FreeWorker(ParentOf(b))
    /\ \A c \in Earlier(b) : pc[c] # "queued"

\* The head of _run_branch: the deadlines are looked at before the branch exists.
Refused(b) ==
    /\ Taken(b) /\ Over(b)
    /\ FailsWith(b, Error(IF clock >= Deadline THEN "remote" ELSE "timeout", b), "done")
    /\ UNCHANGED <<clock, due, live, used>>

Opens(b) ==
    /\ Taken(b) /\ ~Over(b)
    /\ Goes(b, "asking")
    /\ live' = live \cup {b}
    /\ UNCHANGED <<clock, err, due, used>>

\* The interpreter does not come up, in time or at all.
OpenFails(b) ==
    /\ Taken(b) /\ ~Over(b)
    /\ \E kind \in {"timeout", "remote"} : FailsWith(b, Error(kind, b), "done")
    /\ UNCHANGED <<clock, due, live, used>>

\* The controller's call takes a permit; the timeout of the call is read under
\* it.  The seeded mistake keeps the permit for as long as the branch lasts.
PermitFault == Cardinality({b \in Branches \ {Root} : pc[b] \in {"calling", "cell", "waiting"}}) < MaxParallel
Permit == Cardinality({b \in Branches : pc[b] = "calling"}) < MaxParallel

Calls(b) ==
    /\ pc[b] = "asking" /\ Permit /\ ~Over(b)
    /\ Goes(b, "calling")
    /\ UNCHANGED <<clock, err, due, live, used>>

\* There is no time for a call, or no permit before the deadline of the run.
CallTooLate(b) ==
    /\ pc[b] = "asking"
    /\ (Permit /\ Over(b)) \/ clock >= Deadline
    /\ FailsWith(b, Error("remote", b), "closing")
    /\ UNCHANGED <<clock, due, live, used>>

CallReturns(b) ==
    /\ pc[b] = "calling" /\ ~Over(b)
    /\ Goes(b, "cell")
    /\ due' = [due EXCEPT ![b] = CellDeadline(b)]
    /\ UNCHANGED <<clock, err, live, used>>

\* An error of the backend, or an answer after the deadline.
CallFails(b) ==
    /\ pc[b] = "calling"
    /\ \E kind \in {"remote"} \cup (IF Over(b) THEN {} ELSE {"base"}) : FailsWith(b, Error(kind, b), "closing")
    /\ UNCHANGED <<clock, due, live, used>>

-----------------------------------------------------------------------------
(* A cell and its children                                                 *)

\* reserve_subcalls.  The seeded mistake reserves a batch as one call.
AffordableFault(b) == used < MaxSubcalls
Affordable(b) == used + Len(Children[b]) <= MaxSubcalls

CellAsks(b) ==
    /\ pc[b] = "cell" /\ err[b] = NoError /\ clock < due[b]
    /\ Children[b] # <<>> /\ \A c \in ChildrenOf(b) : pc[c] = "none"
    /\ IF ~Affordable(b)
       THEN FailsWith(b, Error("remote", b), "cell") /\ used' = used
       ELSE /\ used' = used + Len(Children[b])
            /\ pc' = [c \in Branches |-> IF c = b THEN "waiting" ELSE IF c \in ChildrenOf(b) THEN "queued" ELSE pc[c]]
            /\ err' = err
    /\ UNCHANGED <<clock, due, live>>

\* The cell ends in time: with a final response, or with the failure that its
\* host has told it of.
CellEnds(b) ==
    /\ pc[b] = "cell" /\ clock < due[b]
    /\ Goes(b, "closing")
    /\ UNCHANGED <<clock, err, due, live, used>>

CellTimesOut(b) ==
    /\ pc[b] = "cell" /\ clock >= due[b]
    /\ FailsWith(b, Error("timeout", b), "closing")
    /\ UNCHANGED <<clock, due, live, used>>

\* The first failure of a batch in request order.
Failing(p) == {c \in ChildrenOf(p) : err[c].kind # "none"}
\* The seeded mistake takes the failure of the last.
OutcomeFault(p) ==
    IF Failing(p) = {} THEN NoError
    ELSE err[CHOOSE c \in Failing(p) : Failing(p) \subseteq Earlier(c) \cup {c}]
Outcome(p) ==
    IF Failing(p) = {} THEN NoError
    ELSE err[CHOOSE c \in Failing(p) : Failing(p) \cap Earlier(c) = {}]

\* Every future was read.  The host looks at the cell's deadline before it
\* answers, and takes a timeout of a child for the cell's own.
BatchReturns(p) ==
    /\ pc[p] = "waiting"
    /\ \A c \in ChildrenOf(p) : pc[c] = "done" /\ err[c].kind # "base"
    /\ IF clock >= due[p] \/ Outcome(p).kind = "timeout"
       THEN FailsWith(p, Error("timeout", p), "closing")
       ELSE FailsWith(p, Outcome(p), "cell")
    /\ UNCHANGED <<clock, due, live, used>>

\* What was not taken is cancelled.
Cancel(p, e) ==
    /\ pc' = [c \in Branches |-> IF c = p THEN "cleanup"
                                 ELSE IF c \in ChildrenOf(p) /\ pc[c] = "queued" THEN "cancelled" ELSE pc[c]]
    /\ err' = [err EXCEPT ![p] = e]
    /\ UNCHANGED <<clock, due, live, used>>

\* The futures are read in order, until one has no Exception.
BatchBreaks(p) ==
    /\ pc[p] = "waiting"
    /\ \E c \in ChildrenOf(p) :
          /\ pc[c] = "done" /\ err[c].kind = "base"
          /\ \A d \in Earlier(c) : pc[d] = "done" /\ err[d].kind # "base"
          /\ Cancel(p, err[c])

\* The caller's thread is interrupted while it waits for a future.
Interrupt == pc[Root] = "waiting" /\ Cancel(Root, Error("base", Root))

\* shutdown(wait=True).  The seeded mistake does not wait.
JoinedFault(p) == TRUE
Joined(p) == \A c \in ChildrenOf(p) : Settled(c)

Cleaned(p) ==
    /\ pc[p] = "cleanup" /\ Joined(p)
    /\ Goes(p, "closing")
    /\ UNCHANGED <<clock, err, due, live, used>>

\* The end of the with statement of _run_branch closes the interpreter.
Leaves(b) ==
    /\ pc[b] = "closing"
    /\ Goes(b, "done") /\ live' = live \ {b}
    /\ UNCHANGED <<clock, err, due, used>>

Step(b) ==
    \/ b # Root /\ (Refused(b) \/ Opens(b) \/ OpenFails(b))
    \/ Calls(b) \/ CallTooLate(b) \/ CallReturns(b) \/ CallFails(b)
    \/ CellAsks(b) \/ CellEnds(b) \/ CellTimesOut(b)
    \/ BatchReturns(b) \/ BatchBreaks(b) \/ Cleaned(b) \/ Leaves(b)

Next == Tick \/ Interrupt \/ \E b \in Branches : Step(b)

Spec == Init /\ [][Next]_vars

\* Threads go on, interpreters and backends answer; no one waits for the clock.
FairSpec == Spec /\ \A b \in Branches : WF_vars(Step(b))

-----------------------------------------------------------------------------
(* Properties                                                              *)

TypeOK ==
    /\ clock \in 0..Deadline
    /\ pc \in [Branches -> {"none", "queued", "asking", "calling", "cell", "waiting", "cleanup", "closing", "done", "cancelled"}]
    /\ err \in [Branches -> [kind : Kinds, from : Branches]]
    /\ due \in [Branches -> 0..Deadline]
    /\ live \subseteq Branches
    /\ used \in 0..MaxSubcalls

\* Structured: a branch runs only while the branch that asked for it waits, and
\* when that one leaves, none below it is running or has its interpreter
\* (_parallel_map joins its pool on every path).
Structured ==
    \A b \in Branches \ {Root} :
        /\ Active(b) => pc[ParentOf(b)] \in {"waiting", "cleanup"}
        /\ Settled(ParentOf(b)) => b \notin live

\* FirstFailureAtEveryLevel: the failure a branch raises for a batch of its
\* children is, at each level down to the branch where it arose, the first one
\* in request order ("the first failure in request order", _parallel_map).
FirstFailureAtEveryLevel ==
    \A p \in Branches :
        pc[p] = "done" /\ err[p].kind = "remote" =>
            \A a \in {err[p].from} \cup Ancestors(err[p].from) :
                a \notin {p} \cup Ancestors(p) => \A d \in Earlier(a) : err[d] = NoError

\* InterpretersBounded: with pools inside pools there are no more interpreters
\* of a depth than the workers of that many pools can run; the permits bound
\* model calls only.
InterpretersBounded ==
    \A d \in 1..Cardinality(Branches) : Cardinality({b \in live : Len(Above[b]) = d}) <= MaxParallel^d

\* NoLateCall: no branch starts a model call when the cell of any branch above
\* it is over: the deadline of a cell reaches all that it has asked for
\* (action_deadline).
NoLateCall ==
    [][\A b \in Branches : pc[b] # "calling" /\ pc'[b] = "calling" =>
          \A a \in Ancestors(b) : clock < due[a]]_vars

\* AllSettle: whatever fails and whoever waits for a permit, the run comes to an
\* end with every branch settled, and not because a deadline freed it.
AllSettle == <>(\A b \in Branches : pc[b] \in {"none", "done", "cancelled"})

=============================================================================
