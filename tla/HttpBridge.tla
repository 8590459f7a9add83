----------------------------- MODULE HttpBridge -----------------------------
(***************************************************************************)
(* OpenAIEndpoint's bridge to asyncio, _run_in_helper_thread of            *)
(* src/src/rlm/backend.py: a caller whose own thread already runs an event *)
(* loop hands the HTTP request to a helper thread with a loop of its own   *)
(* and joins it.  KeyboardInterrupts reach the caller only; they are       *)
(* turned into a cancellation of the request, which the helper may not yet *)
(* have started or may just have finished.                                 *)
(*                                                                         *)
(* The helper's loop runs its callbacks in the order they were scheduled:  *)
(* the first step of the task, then what call_soon_threadsafe queued.      *)
(***************************************************************************)
EXTENDS Naturals

CONSTANT MaxInterrupts      \* bound on the KeyboardInterrupts that arrive

ASSUME MaxInterruptsAssumption == MaxInterrupts \in Nat

VARIABLES
    pc,             \* the caller
    resume,         \* the loop the exception handler goes back to
    interrupts,     \* KeyboardInterrupts so far
    interruption,   \* the first one is remembered
    escaped,        \* an interrupt came where nothing catches it
    answer,         \* what the caller returned or raised
    helper,         \* the helper thread
    task,           \* the task that runs the request
    outcome,        \* what the task ends with
    discarded,      \* operation.close() was called on the request
    cancelRequested,    \* _HelperTaskCancellation._cancel_requested
    cancels         \* calls of task.cancel queued on the helper's loop

callerVars == <<pc, resume, interrupts, interruption, escaped, answer>>
helperVars == <<helper, task, outcome>>
handoffVars == <<discarded, cancelRequested, cancels>>
vars == <<callerVars, helperVars, handoffVars>>

Outcomes == {"none", "result", "http_error", "status_error", "timeout", "cancelled", "other_error"}

TypeOK ==
    /\ pc \in {"start", "starting", "check", "join", "reap", "cancel", "schedule", "ended"}
    /\ resume \in {"check", "reap"}
    /\ interrupts \in 0..MaxInterrupts
    /\ interruption \in BOOLEAN /\ escaped \in BOOLEAN
    /\ answer \in {"none", "result", "upstream", "cancelled", "interrupt", "other_error"}
    /\ helper \in {"unborn", "begun", "binding", "awaiting", "closed", "completed", "dead"}
    /\ task \in {"pending", "reading", "cleaning", "done"}
    /\ outcome \in Outcomes
    /\ discarded \in BOOLEAN /\ cancelRequested \in BOOLEAN
    /\ cancels \in 0..MaxInterrupts

Init ==
    /\ pc = "start" /\ resume = "check"
    /\ interrupts = 0 /\ interruption = FALSE /\ escaped = FALSE
    /\ answer = "none"
    /\ helper = "unborn" /\ task = "pending" /\ outcome = "none"
    /\ discarded = FALSE /\ cancelRequested = FALSE /\ cancels = 0

-----------------------------------------------------------------------------
(* The caller *)

Goto(from, to) == pc = from /\ pc' = to

\* completed is set, and so is the outcome, before the thread ends.
Completed == helper \in {"completed", "dead"}

End(value) == pc' = "ended" /\ answer' = value

\* thread.start(): the new thread runs before its start is acknowledged.
Start ==
    /\ Goto("start", "starting")
    /\ helper' = "begun"
    /\ UNCHANGED <<resume, interrupts, interruption, escaped, answer, task, outcome, handoffVars>>

StartFails ==
    /\ pc = "start"
    /\ End("other_error")
    /\ discarded' = TRUE
    /\ UNCHANGED <<resume, interrupts, interruption, escaped, helperVars, cancelRequested, cancels>>

Started ==
    /\ Goto("starting", "check")
    /\ UNCHANGED <<resume, interrupts, interruption, escaped, answer, helperVars, handoffVars>>

Check ==
    /\ Goto("check", IF Completed THEN "reap" ELSE "join")
    /\ UNCHANGED <<resume, interrupts, interruption, escaped, answer, helperVars, handoffVars>>

\* A thread that was joined has set completed.
Join ==
    /\ helper = "dead"
    /\ Goto("join", "reap")
    /\ UNCHANGED <<resume, interrupts, interruption, escaped, answer, helperVars, handoffVars>>

\* What _run_async makes of the outcome.
AnswerTo(o) ==
    CASE o = "result" -> "result"
      [] o \in {"http_error", "status_error", "timeout"} -> "upstream"
      [] OTHER -> o

\* The exception of the task is raised first.
ReapAnswerFault ==
    /\ pc = "reap" /\ helper = "dead"
    /\ End(IF outcome # "result" THEN AnswerTo(outcome)
           ELSE IF interruption THEN "interrupt" ELSE "result")
    /\ UNCHANGED <<resume, interrupts, interruption, escaped, helperVars, handoffVars>>

\* The outcome is enough; the thread is not joined again.
ReapEarlyFault ==
    /\ pc = "reap"
    /\ End(IF interruption THEN "interrupt" ELSE AnswerTo(outcome))
    /\ UNCHANGED <<resume, interrupts, interruption, escaped, helperVars, handoffVars>>

\* The last join; an interrupt goes before whatever the task ended with.
Reap ==
    /\ pc = "reap" /\ helper = "dead"
    /\ End(IF interruption THEN "interrupt" ELSE AnswerTo(outcome))
    /\ UNCHANGED <<resume, interrupts, interruption, escaped, helperVars, handoffVars>>

-----------------------------------------------------------------------------
(* KeyboardInterrupts *)

Interrupted ==
    /\ interrupts < MaxInterrupts
    /\ interrupts' = interrupts + 1

\* In either loop: remembered, and the request is cancelled.
InterruptJoin ==
    /\ Interrupted
    /\ pc \in {"check", "join", "reap"}
    /\ pc' = "cancel"
    /\ resume' = IF pc = "reap" THEN "reap" ELSE "check"
    /\ interruption' = TRUE
    /\ UNCHANGED <<escaped, answer, helperVars, handoffVars>>

\* While thread.start() waits for the thread it has launched: the request is
\* closed under the helper and the helper is not joined.  Closing a coroutine
\* that is being executed is an error of its own.
InterruptStart ==
    /\ Interrupted
    /\ pc = "starting"
    /\ escaped' = TRUE
    /\ discarded' = TRUE
    /\ \/ End("interrupt")
       \/ task = "reading" /\ End("other_error")
    /\ UNCHANGED <<resume, interruption, helperVars, cancelRequested, cancels>>

\* Inside the handler: a second interrupt leaves the function.
InterruptHandler ==
    /\ Interrupted
    /\ pc \in {"cancel", "schedule"}
    /\ escaped' = TRUE
    /\ End("interrupt")
    /\ UNCHANGED <<resume, interruption, helperVars, handoffVars>>

Bound == helper \notin {"unborn", "begun"}

\* The cancellation is scheduled by bind, and once more here.
RequestCancelFault ==
    /\ Goto("cancel", "schedule")
    /\ cancelRequested' = TRUE
    /\ UNCHANGED <<resume, interrupts, interruption, escaped, answer, helperVars, discarded, cancels>>

\* request_cancel, under its lock; the handoff may find no task yet.
RequestCancel ==
    /\ Goto("cancel", IF Bound THEN "schedule" ELSE resume)
    /\ cancelRequested' = TRUE
    /\ UNCHANGED <<resume, interrupts, interruption, escaped, answer, helperVars, discarded, cancels>>

LoopClosed == helper \in {"closed", "completed", "dead"}

\* _schedule_cancel, after the lock; a closed loop is not an error.
ScheduleCancel ==
    /\ Goto("schedule", resume)
    /\ cancels' = IF LoopClosed THEN cancels ELSE cancels + 1
    /\ UNCHANGED <<resume, interrupts, interruption, escaped, answer, helperVars,
                   discarded, cancelRequested>>

-----------------------------------------------------------------------------
(* The helper thread *)

\* The task is bound although a cancellation came before it.
BindFault ==
    /\ helper = "begun"
    /\ helper' = "awaiting"
    /\ UNCHANGED <<callerVars, task, outcome, handoffVars>>

\* create_task and bind, under the lock of the handoff.
Bind ==
    /\ helper = "begun"
    /\ helper' = IF cancelRequested THEN "binding" ELSE "awaiting"
    /\ UNCHANGED <<callerVars, task, outcome, handoffVars>>

\* The cancellation that came before the task is scheduled now.
BindCancels ==
    /\ helper = "binding"
    /\ helper' = "awaiting"
    /\ cancels' = cancels + 1
    /\ UNCHANGED <<callerVars, task, outcome, discarded, cancelRequested>>

TaskStarts ==
    /\ helper = "awaiting"
    /\ task = "pending"
    /\ IF discarded THEN task' = "done" /\ outcome' = "other_error"
                    ELSE task' = "reading" /\ UNCHANGED outcome
    /\ UNCHANGED <<callerVars, helper, handoffVars>>

\* The response, a failure of the transport or of the provider, or wait_for's
\* timeout; a request closed under the task fails when it is resumed.
NetworkEnds ==
    /\ helper = "awaiting"
    /\ task = "reading"
    /\ task' = "cleaning"
    /\ outcome' \in IF discarded THEN {"other_error"}
                                 ELSE {"result", "http_error", "status_error", "timeout"}
    /\ UNCHANGED <<callerVars, helper, handoffVars>>

\* task.cancel(): a request that is cleaning up is cancelled as well.
CancelDelivered ==
    /\ helper = "awaiting"
    /\ cancels > 0
    /\ task # "pending"
    /\ cancels' = cancels - 1
    /\ IF task = "done" THEN UNCHANGED <<task, outcome>>
                        ELSE task' = "cleaning" /\ outcome' = "cancelled"
    /\ UNCHANGED <<callerVars, helper, discarded, cancelRequested>>

\* The connection is closed, which may fail.
CleanUp ==
    /\ helper = "awaiting"
    /\ task = "cleaning"
    /\ task' = "done"
    /\ outcome' \in {outcome, "http_error"}
    /\ UNCHANGED <<callerVars, helper, handoffVars>>

\* asyncio.run is over; then completed is set; then the thread ends.
HelperEnds ==
    /\ \/ helper = "awaiting" /\ task = "done" /\ helper' = "closed"
       \/ helper = "closed" /\ helper' = "completed"
       \/ helper = "completed" /\ helper' = "dead"
    /\ UNCHANGED <<callerVars, task, outcome, handoffVars>>

-----------------------------------------------------------------------------
CallerStep ==
    Start \/ StartFails \/ Started \/ Check \/ Join \/ Reap \/ RequestCancel \/ ScheduleCancel

Interrupt == InterruptJoin \/ InterruptStart \/ InterruptHandler

HelperStep ==
    Bind \/ BindCancels \/ TaskStarts \/ CancelDelivered \/ CleanUp \/ HelperEnds

\* The caller is gone and so is the helper, if there ever was one.
Terminated == pc = "ended" /\ helper \in {"unborn", "dead"} /\ UNCHANGED vars

Next == CallerStep \/ Interrupt \/ HelperStep \/ NetworkEnds \/ Terminated

Spec == Init /\ [][Next]_vars

\* The two threads are scheduled; nothing is assumed of the network, not even
\* its timeout.
PromptSpec == Spec /\ WF_vars(CallerStep) /\ WF_vars(HelperStep)

-----------------------------------------------------------------------------
(* Properties *)

\* test_backend.py:202, "joins its helper before reraising an interrupt": the
\* caller leaves only once the helper has ended, its request cleaned up.
JoinedBeforeReturn == pc = "ended" => helper \in {"unborn", "dead"}

\* backend.py:299-318.  The same of every interrupt that the two loops catch.
JoinedUnlessEscaped == ~escaped => JoinedBeforeReturn

\* backend.py:319-322, test_backend.py:240.  An interrupt is never answered with
\* a result, and the CancelledError it causes in the helper never replaces it.
InterruptWins ==
    pc = "ended" /\ ~escaped =>
        /\ interrupts > 0 <=> answer = "interrupt"
        /\ answer # "cancelled"

\* Whenever its interrupts come, the caller leaves with the right outcome, and
\* unless one escaped it leaves no helper behind.
BridgeSafe == JoinedUnlessEscaped /\ InterruptWins

\* backend.py:241-256, test_backend.py:287.  An interrupt ends the request even
\* if it comes before the task is bound, and although the network never answers.
CancelNotLost == interrupts > 0 ~> helper = "dead" \/ escaped
=============================================================================
