---------------------------- MODULE MCBranchLoop ----------------------------
(***************************************************************************)
(* The branches of a run, for TLC: the conversation of one branch after    *)
(* the other (BranchLoop), the branches of a batch on the worker threads   *)
(* of nested pools (ChildBranches), and the way of one failure up through  *)
(* the branches to the caller (FailureRecords).  A behaviour follows one   *)
(* of them, which `scenario` names; the others rest where they start.      *)
(***************************************************************************)
EXTENDS BranchLoop

CONSTANTS
    BatchRoot, BatchChildren,   \* the branches of a run, as in ChildBranches
    BatchDepth,                 \* limits.max_depth, and the other limits:
    BatchParallel, BatchSubcalls, BatchTimeout, BatchDeadline

VARIABLES
    scenario,       \* "conversation", "batch" or "failure"
    batchClock, pc, err, due, live, used,
    origin, level, place, flying, frame, request, failed, answer

batchVars == <<batchClock, pc, err, due, live, used>>
failureVars == <<origin, level, place, flying, frame, request, failed, answer>>
restVars == <<scenario, vars, batchVars, failureVars>>

Batch == INSTANCE ChildBranches WITH
    clock <- batchClock, Root <- BatchRoot, Children <- BatchChildren, MaxParallel <- BatchParallel,
    MaxSubcalls <- BatchSubcalls, Timeout <- BatchTimeout, Deadline <- BatchDeadline

\* Every branch but the root is a child of one branch, which asks for it once, and
\* _ensure_recursion bounds how deep they go (engine.py:710-747, 877-882).
ASSUME BranchesAssumption ==
    /\ {BatchDepth, BatchParallel, BatchSubcalls, BatchTimeout, BatchDeadline} \subseteq Nat
    /\ BatchRoot \in Batch!Branches
    /\ \A p \in Batch!Branches :
          /\ BatchChildren[p] \in Seq(Batch!Branches)
          /\ \A i, j \in DOMAIN BatchChildren[p] : BatchChildren[p][i] = BatchChildren[p][j] => i = j
          /\ \A q \in Batch!Branches \ {p} : Batch!ChildrenOf(p) \cap Batch!ChildrenOf(q) = {}
    /\ \A b \in Batch!Branches \ {BatchRoot} : \E p \in Batch!Branches : b \in Batch!ChildrenOf(p)
    /\ \E depth \in [Batch!Branches -> 0..BatchDepth] :
          /\ depth[BatchRoot] = 0
          /\ \A p \in Batch!Branches : \A c \in Batch!ChildrenOf(p) : depth[c] = depth[p] + 1

\* Three children on two workers; below the first a branch with two of its
\* own, below the second one child, and subcalls for either but not for both.
MCChildren == [b \in {"root", "a", "b", "c", "d", "e", "f", "g"} |->
    CASE b = "root" -> <<"a", "b", "c">> [] b = "a" -> <<"d">> [] b = "d" -> <<"f", "g">> [] b = "b" -> <<"e">>
      [] OTHER -> <<>>]

\* What can fail, with the record the code makes of it.
ErrorRecord(type, code, status, details) ==
    [type |-> type, code |-> code, status |-> status, body |-> [of |-> type], details |-> details, strict |-> TRUE]
InternalError(type) == ErrorRecord(type, "internal_error", 500, "source")
ProviderError(status) ==
    [type |-> "UpstreamError", code |-> "upstream_error", status |-> status, body |-> [of |-> "provider"],
     details |-> "provider", strict |-> TRUE]

\* A failure of a model call of either role, and one before any call.
InCall(name, class, record) ==
    {[name |-> name, class |-> class, record |-> record, place |-> "call", role |-> role] :
        role \in {"controller", "subcall"}}
Before(name, class, record, where) ==
    [name |-> name, class |-> class, record |-> record, place |-> where, role |-> "none"]

FailureOrigins ==
    (UNION {
        InCall("provider", "rlm", ProviderError(400)), InCall("provider", "rlm", ProviderError(503)),
        InCall("protocol", "rlm", ErrorRecord("BackendProtocolError", "backend_protocol_error", 502, "none")),
        InCall("response", "rlm",
            ErrorRecord("BackendResponseError", "backend_response_error", 502, "response")),
        InCall("late", "rlm", ErrorRecord("ExecutionTimeoutError", "execution_timeout", 500, "none")),
        InCall("backend", "exception", InternalError("KeyError")),
        InCall("interrupt", "interrupt", InternalError("KeyboardInterrupt")) })
    \union
    { Before("limit", "rlm", ErrorRecord("LimitExceededError", "max_model_calls_exceeded", 500, "none"), "handler"),
      Before("limit", "rlm", ErrorRecord("LimitExceededError", "max_turns_exceeded", 500, "none"), "branch"),
      Before("timeout", "timeout", ErrorRecord("ExecutionTimeoutError", "execution_timeout", 500, "none"), "handler"),
      Before("abort", "rlm",
          ErrorRecord("RecoveryAbortedError", "recovery_aborted", 500, "fault"), "branch"),
      Before("malformed request", "rlm", ErrorRecord("InvalidRequestError", "invalid_request", 400, "none"), "handler") }

Failure == INSTANCE FailureRecords WITH Origins <- FailureOrigins, NoEvent <- "no event"

RestingOrigin == Before("limit", "rlm", ErrorRecord("LimitExceededError", "max_turns_exceeded", 500, "none"), "branch")

ScenarioInit ==
    /\ \/ scenario = "conversation"
       \/ scenario \in {"batch", "failure"} /\ mode = "repair"
    /\ scenario = "failure" \/ (origin = RestingOrigin /\ level = 0)
    /\ Init /\ Batch!Init /\ Failure!Init

ConversationStep == scenario = "conversation" /\ Next /\ UNCHANGED <<scenario, batchVars, failureVars>>
BatchStep == scenario = "batch" /\ Batch!Next /\ UNCHANGED <<scenario, vars, failureVars>>
FailureStep == scenario = "failure" /\ Failure!Next /\ UNCHANGED <<scenario, vars, batchVars>>

BatchOver ==
    /\ scenario = "batch" /\ batchClock = BatchDeadline
    /\ \A b \in Batch!Branches : pc[b] \in {"none", "done", "cancelled"}
    /\ UNCHANGED restVars
FailureOver == scenario = "failure" /\ place \in {"recovered", "end"} /\ UNCHANGED restVars

ScenarioNext == ConversationStep \/ BatchStep \/ FailureStep \/ BatchOver \/ FailureOver

\* Threads go on, interpreters and backends answer; no one waits for a clock.
ScenarioSpec ==
    /\ ScenarioInit
    /\ [][ScenarioNext]_restVars
    /\ WF_vars(scenario = "conversation" /\ BranchStep)
    /\ WF_vars(scenario = "conversation" /\ RunStep)
    /\ \A b \in Batch!Branches : WF_batchVars(scenario = "batch" /\ Batch!Step(b))

-----------------------------------------------------------------------------
(* Properties of the components, of the behaviours that follow them        *)

\* "the first failure in request order" (_parallel_map), at each level down to
\* the branch where it arose.
FirstFailureAtEveryLevel == Batch!FirstFailureAtEveryLevel

\* A branch runs only while the branch that asked for it waits, and leaves no
\* interpreter behind it (_parallel_map joins its pool on every path).
Structured == Batch!Structured

\* run.failed points at the model call that failed, not at the branch above it.
ParentIsCause == Failure!ParentIsCause

\* "Provider, limit, and transport failures stay fatal."
OnlyOwnMistakesRecover == scenario = "failure" => Failure!OnlyOwnMistakesRecover

\* A failure ends the run under its own cause, unless it is a mistake of the
\* cell, which the cell hears of instead.
FailureRouted == ParentIsCause /\ OnlyOwnMistakesRecover

\* Child branches run inside the batch that asked for them, and the batch fails
\* as its first failing request does.
BatchSound == Structured /\ FirstFailureAtEveryLevel

\* A branch starts no model call once the cell of a branch above it is over:
\* the deadline of a cell reaches everything it asked for.
NoLateCall == Batch!NoLateCall

\* A run closes although its controller never submits, and a batch settles
\* whatever fails and whoever waits for a thread.
NobodyStuck ==
    /\ scenario = "conversation" => RunCloses
    /\ scenario = "batch" => Batch!AllSettle
=============================================================================
