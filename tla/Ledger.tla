------------------------------- MODULE Ledger -------------------------------
(***************************************************************************)
(* The run-wide budget object of src/src/rlm/ledger.py, one per run and    *)
(* shared by the root branch, every recursive child and every pool worker. *)
(*                                                                         *)
(* This module has the methods and no threads: an operator named for a     *)
(* method states what one critical section of it changes, and its guard is *)
(* the condition under which the section does not raise.  RunLedger and    *)
(* ModelCalls give the methods to concurrent callers.                      *)
(*                                                                         *)
(* Time is a counter of ticks since started_at; input and output tokens    *)
(* are one total, the only form in which the code compares them.           *)
(*                                                                         *)
(* Operators whose name ends in Fault are seeded mistakes of the operator  *)
(* that follows; no specification uses them.  They exist to show which     *)
(* property notices which mistake.                                         *)
(***************************************************************************)
EXTENDS Integers, FiniteSets

CONSTANTS
    MaxModelCalls,      \* limits.max_model_calls
    MaxSubcalls,        \* limits.max_subcalls
    MaxParallel,        \* limits.max_parallel_model_calls
    TokenBudgeted,      \* limits.max_total_tokens is not None
    MaxTotalTokens,     \* limits.max_total_tokens, when there is one
    Deadline,           \* limits.deadline_seconds, in ticks
    UsageSizes          \* the token counts a response may report

\* What RunLimits.__post_init__ (config.py:29-60) admits, and a little more.
ASSUME LimitsAssumption ==
    /\ MaxModelCalls \in Nat \ {0}
    /\ MaxSubcalls \in Nat
    /\ MaxParallel \in Nat \ {0}
    /\ TokenBudgeted \in BOOLEAN
    /\ MaxTotalTokens \in Nat
    /\ Deadline \in Nat \ {0}
    /\ UsageSizes \subseteq Nat

VARIABLES
    clock,          \* ticks since started_at
    modelCalls,     \* _model_calls
    subcalls,       \* _subcalls
    permits,        \* the value of the semaphore _model_slots
    active,         \* _active_model_calls
    peak,           \* _peak_parallel_model_calls
    tokens,         \* _input_tokens + _output_tokens
    unreported      \* _unreported_calls

counters == <<modelCalls, subcalls, permits, active, peak, tokens, unreported>>
ledgerVars == <<clock, counters>>

LedgerTypeOK ==
    /\ clock \in Nat
    /\ modelCalls \in Nat
    /\ subcalls \in Nat
    /\ permits \in Nat
    /\ active \in Nat
    /\ peak \in Nat
    /\ tokens \in Nat
    /\ unreported \in Nat

LedgerInit ==
    /\ clock = 0
    /\ modelCalls = 0
    /\ subcalls = 0
    /\ permits = MaxParallel
    /\ active = 0
    /\ peak = 0
    /\ tokens = 0
    /\ unreported = 0

-----------------------------------------------------------------------------
(* The deadline *)

Expired == clock >= Deadline

\* Without the max with 0.
RemainingFault == Deadline - clock

Remaining == IF Expired THEN 0 ELSE Deadline - clock

-----------------------------------------------------------------------------
(* Reservations *)

CanReserveModelCallFault == ~Expired /\ modelCalls <= MaxModelCalls

CanReserveModelCall == ~Expired /\ modelCalls < MaxModelCalls

ReserveModelCall ==
    /\ modelCalls' = modelCalls + 1
    /\ UNCHANGED <<clock, subcalls, permits, active, peak, tokens, unreported>>

CanReserveSubcalls(n) == ~Expired /\ subcalls + n <= MaxSubcalls

ReserveSubcalls(n) ==
    /\ subcalls' = subcalls + n
    /\ UNCHANGED <<clock, modelCalls, permits, active, peak, tokens, unreported>>

-----------------------------------------------------------------------------
(* model_slot: a semaphore permit around the locked active counter *)

TakePermit ==
    /\ permits > 0
    /\ permits' = permits - 1
    /\ UNCHANGED <<clock, modelCalls, subcalls, active, peak, tokens, unreported>>

EnterSlotFault ==
    /\ active' = active + 1
    /\ peak' = peak + 1
    /\ UNCHANGED <<clock, modelCalls, subcalls, permits, tokens, unreported>>

EnterSlot ==
    /\ active' = active + 1
    /\ peak' = IF active + 1 > peak THEN active + 1 ELSE peak
    /\ UNCHANGED <<clock, modelCalls, subcalls, permits, tokens, unreported>>

LeaveSlot ==
    /\ active' = active - 1
    /\ UNCHANGED <<clock, modelCalls, subcalls, permits, peak, tokens, unreported>>

ReleasePermit ==
    /\ permits' = permits + 1
    /\ UNCHANGED <<clock, modelCalls, subcalls, active, peak, tokens, unreported>>

-----------------------------------------------------------------------------
(* record_response: what usage_from_response makes of the usage field of a *)
(* response, and the totals it is added to                                 *)

Usages ==
    [kind : {"reported"}, size : UsageSizes]
        \cup [kind : {"unreported", "malformed"}, size : {0}]

Accepted(u) ==
    \/ u.kind = "reported"
    \/ u.kind = "unreported" /\ ~TokenBudgeted

OverBudget(u) == TokenBudgeted /\ tokens + u.size > MaxTotalTokens

\* The error record_response raises, "none" when it returns.
RecordErrorFault(u) ==
    IF ~Accepted(u) THEN "protocol"
    ELSE IF TokenBudgeted /\ tokens > MaxTotalTokens THEN "token_limit"
    ELSE "none"

RecordError(u) ==
    IF ~Accepted(u) THEN "protocol"
    ELSE IF OverBudget(u) THEN "token_limit"
    ELSE "none"

RecordResponseFault(u) ==
    /\ tokens' = tokens + u.size
    /\ unreported' = IF u.kind = "reported" THEN unreported ELSE unreported + 1
    /\ UNCHANGED <<clock, modelCalls, subcalls, permits, active, peak>>

\* A response over the budget stays counted although the call then fails.
RecordResponse(u) ==
    /\ tokens' = IF Accepted(u) THEN tokens + u.size ELSE tokens
    /\ unreported' = IF Accepted(u) /\ u.kind = "unreported"
                        THEN unreported + 1 ELSE unreported
    /\ UNCHANGED <<clock, modelCalls, subcalls, permits, active, peak>>
=============================================================================
