-------------------------- MODULE ModelCallsProofs --------------------------
(***************************************************************************)
(* Proofs about ModelCalls, for any number of calls, workers and budgets   *)
(* and with an interrupt anywhere.  They come in three parts:              *)
(*                                                                         *)
(*  - where a call is says what it carries (EngineInv);                    *)
(*  - the calls of a run are callers of RunLedger, so that what is proved  *)
(*    there holds of every run (ImplementsLedger);                         *)
(*  - where a call is says which of its events the trace has (TraceInv),   *)
(*    and a closed trace is one that the reader accepts.                   *)
(***************************************************************************)
EXTENDS ModelCalls, FiniteSetTheorems, SequenceTheorems, TLAPS

\* A call that has not failed yet, and one that is not made, or not any more.
Unfailed == {"unused", "queued", "reserve", "request", "slot", "checked", "timed", "acquired",
             "entered", "backend", "response", "recheck", "record", "cancelled"}
Unmade == {"unused", "queued", "reserve", "cancelled"}
Over == {"unused", "done", "cancelled"}

\* A call that was requested and has neither an answer on record nor a failure.
Calling == {"slot", "checked", "timed", "acquired", "entered", "backend", "exiting",
            "releasing", "response"}

\* The calls that were asked for are 1..high; before the operation all are over.
Numbering ==
    /\ low \in 1..(high + 1)
    /\ \A c \in Calls : pc[c] = "unused" <=> c > high
    /\ \A c \in Calls : c < low => pc[c] \in Over
    /\ phase # "waiting" => \A c \in Calls : pc[c] \in Over
    /\ phase = "starting" => high = 0

\* Where a call carries an exception, and when it has no answer.
Carried ==
    \A c \in Calls :
        /\ pc[c] \in Unfailed => err[c] = "none"
        /\ pc[c] = "failing" => err[c] # "none"
        /\ pc[c] \in Unmade => arrived[c] = 0
        /\ err[c] # "abandoned"

\* The ledger's own types are RunLedger's to keep.
EngineInv ==
    /\ clock \in Nat
    /\ CallsTypeOK
    /\ Numbering
    /\ Carried

-----------------------------------------------------------------------------
(* Where a call is says what it carries *)

\* No call is asked for at first.
LEMMA EngineInit == Init => EngineInv
<1> SUFFICES ASSUME Init PROVE EngineInv
    OBVIOUS
<1>1. clock \in Nat /\ CallsTypeOK
    <2>1. interrupted \in BOOLEAN
        BY Zenon DEF Init
    <2> QED  BY <2>1, NCallsAssumption
             DEF Init, LedgerInit, CallsTypeOK, Phases, Places, Errors, Replies
<1>2. Numbering /\ Carried
    BY NCallsAssumption DEF Init, Numbering, Carried, Calls, Over
<1> QED  BY <1>1, <1>2 DEF EngineInv

\* A call that is under way moves on, and its operation with it.
LEMMA MovesPreserve ==
    ASSUME EngineInv, NEW c \in Calls, NEW from \in Places \ Over,
           NEW to \in Places \ {"unused"}, Goto(c, from, to),
           UNCHANGED <<phase, low, high>>
    PROVE  /\ pc' \in [Calls -> Places] /\ pc[c] = from
           /\ \A d \in Calls : pc'[d] = IF d = c THEN to ELSE pc[d]
           /\ Numbering'
<1>1. /\ pc' \in [Calls -> Places] /\ pc[c] = from
      /\ \A d \in Calls : pc'[d] = IF d = c THEN to ELSE pc[d]
    BY DEF Goto, EngineInv, CallsTypeOK
<1>2. phase = "waiting" /\ low <= c
    BY <1>1 DEF EngineInv, Numbering, CallsTypeOK, Calls
<1> QED  BY <1>1, <1>2 DEF EngineInv, Numbering, CallsTypeOK, Calls, Over

\* The steps of a call and of its backend keep the invariant.
LEMMA CallStepsPreserve ==
    ASSUME EngineInv, NEW c \in Calls, CallStep(c) \/ BackendStep(c) \/ CellTimeout(c) \/ InterruptCall(c)
    PROVE  EngineInv'
<1> USE LimitsAssumption
    DEF EngineInv, CallsTypeOK, Carried, Unfailed, Unmade, Over, Places, Errors, Replies,
        engineVars, callVars, ledgerVars, counters, Raise
<1>1. CASE WorkerTakes(c)
    <2>1. Goto(c, "queued", "reserve")
        BY <1>1 DEF WorkerTakes, Goto, Queued, IsFirst
    <2> QED  BY <1>1, <2>1, MovesPreserve DEF WorkerTakes
<1>2. CASE Reserve(c)
    BY <1>2, MovesPreserve DEF Reserve, ReserveModelCall
<1>3. CASE Request(c)
    BY <1>3, MovesPreserve DEF Request
<1>4. CASE CheckSlot(c)
    BY SMTT(20), <1>4, MovesPreserve DEF CheckSlot, Move, Fail
<1>5. CASE ReadRemaining(c)
    BY <1>5, MovesPreserve DEF ReadRemaining, Remaining, Expired
<1>6. CASE Acquire(c)
    BY <1>6, MovesPreserve DEF Acquire, TakePermit
<1>7. CASE EnterOrExpire(c)
    BY <1>7, MovesPreserve DEF EnterOrExpire, EnterSlot
<1>8. CASE StartBackend(c)
    BY <1>8, MovesPreserve DEF StartBackend, Move
<1>9. CASE ExitSlot(c)
    BY <1>9, MovesPreserve DEF ExitSlot, LeaveSlot
<1>10. CASE ReleaseSlot(c)
    BY <1>10, MovesPreserve DEF ReleaseSlot, ReleasePermit
<1>11. CASE Response(c)
    BY <1>11, MovesPreserve DEF Response, Fail
<1>12. CASE Recheck(c)
    BY <1>12, MovesPreserve DEF Recheck, Move, Fail
<1>13. CASE \E u \in Usages : Record(c, u)
    BY <1>13, MovesPreserve, SMTT(30) DEF Record, RecordResponse, RecordError, Fail
<1>14. CASE FailedEvent(c)
    BY <1>14, MovesPreserve DEF FailedEvent
<1>15. CASE BackendReturns(c)
    BY <1>15, MovesPreserve DEF BackendReturns
<1>16. CASE BackendRaises(c)
    BY <1>16, MovesPreserve DEF BackendRaises
<1>17. CASE CellTimeout(c)
    <2>1. CASE Goto(c, "entered", "exiting") /\ Raise(c, "cell_timeout")
               /\ UNCHANGED <<ledgerVars, engineVars, reply, wait, arrived>>
        BY <2>1, MovesPreserve
    <2>2. CASE Fail(c, "recheck", "cell_timeout")
        BY <2>2, MovesPreserve DEF Fail
    <2> QED  BY <1>17, <2>1, <2>2 DEF CellTimeout
<1>18. CASE InterruptCall(c)
    BY <1>18, MovesPreserve DEF InterruptCall
<1> QED  BY <1>1, <1>2, <1>3, <1>4, <1>5, <1>6, <1>7, <1>8, <1>9, <1>10, <1>11, <1>12, <1>13, <1>14, <1>15, <1>16, <1>17, <1>18 DEF CallStep, BackendStep

\* New calls take the numbers from high on; no call before them is under way.
LEMMA AskPreserves ==
    ASSUME EngineInv, NEW kind \in {"controller", "subcall", "batch"}, NEW n \in Nat \ {0},
           NEW place \in {"queued", "reserve"}, Ask(kind, n, place), clock' = clock
    PROVE  EngineInv'
<1> USE NCallsAssumption
    DEF EngineInv, CallsTypeOK, Numbering, Carried, Calls, Unfailed, Unmade, Over, Places,
        Phases
<1>1. /\ pc' \in [Calls -> Places] /\ role' \in [Calls -> {"none", "controller", "subcall"}]
      /\ high' \in 0..NCalls /\ low' \in Nat /\ low' \in 1..(high' + 1)
      /\ \A c \in Calls : pc'[c] = IF c \in (high + 1)..(high + n) THEN place ELSE pc[c]
    BY DEF Ask
<1>2. /\ phase = "running" /\ phase' = "waiting" /\ low' = high + 1 /\ high' = high + n
      /\ op' = kind /\ UNCHANGED <<interrupted, fatal, err, reply, wait, arrived>>
    BY DEF Ask
<1>3. CallsTypeOK'
    BY <1>1, <1>2
<1>4. Numbering'
    BY <1>1, <1>2
<1>5. Carried'
    BY <1>1, <1>2
<1> QED  BY <1>3, <1>4, <1>5

\* So do those of the engine, the cell and the clock.
LEMMA EngineStepsPreserve ==
    ASSUME EngineInv, Tick \/ EngineStep \/ CellStep \/ InterruptBatch \/ UNCHANGED vars
    PROVE  EngineInv'
<1> USE NCallsAssumption DEF EngineInv
<1>1. CASE Tick
    BY <1>1 DEF Tick, CallsTypeOK, Numbering, Carried, engineVars, callVars
<1>2. CASE StartRun \/ CompleteRun \/ FailedRun \/ CloseRun
    BY <1>2 DEF StartRun, CompleteRun, FailedRun, CloseRun, CallsTypeOK, Numbering, Carried,
                callVars, ledgerVars, Phases
<1>3. CASE OperationEnds
    <2>1. \A c \in Calls : pc[c] \in Over
        BY <1>3 DEF OperationEnds, Settled, Operation, Numbering, Calls, Over, CallsTypeOK
    <2>2. UNCHANGED <<low, high, op, role, interrupted, clock, callVars>>
        BY <1>3 DEF OperationEnds, OperationOutcome, ledgerVars
    <2>3. fatal'.error \in Errors /\ phase' \in {"failing", "running"}
        <3>1. ASSUME NEW error \in Errors, NEW cause, FailRun(error, cause)
              PROVE  fatal'.error \in Errors /\ phase' = "failing"
            BY <3>1 DEF FailRun
        <3>2. \A c \in Operation : err[c] \in Errors
            BY DEF Operation, CallsTypeOK, Numbering, Calls
        <3>3. fatal.error \in Errors
            BY DEF CallsTypeOK
        <3> QED  BY <1>3, <3>1, <3>2, <3>3 DEF OperationEnds, OperationOutcome, Errors
    <2> QED  BY <2>1, <2>2, <2>3 DEF CallsTypeOK, Numbering, Carried, callVars, Phases
<1>4. CASE AskController
    BY <1>4, AskPreserves DEF AskController, ledgerVars
<1>5. CASE AskSubcall
    BY <1>5, AskPreserves DEF AskSubcall, ReserveSubcalls
<1>6. CASE \E n \in 2..NCalls : AskBatch(n)
    BY <1>6, AskPreserves DEF AskBatch, ReserveSubcalls
<1>7. CASE InvalidSubcall
    BY <1>7 DEF InvalidSubcall, ReserveSubcalls, CallsTypeOK, Numbering, Carried,
                engineVars, callVars
<1>8. CASE AbandonRun \/ \E n \in 1..NCalls : RefuseSubcalls(n)
    BY <1>8 DEF AbandonRun, RefuseSubcalls, FailRun, CallsTypeOK, Numbering, Carried, callVars,
                ledgerVars, Phases, Errors
<1>9. CASE InterruptBatch
    BY <1>9 DEF InterruptBatch, Queued, CallsTypeOK, Numbering, Carried, Over, Unfailed, Unmade,
                Places, ledgerVars
<1>10. CASE UNCHANGED vars
    BY <1>10 DEF vars, CallsTypeOK, Numbering, Carried, engineVars, callVars, ledgerVars
<1> QED  BY <1>1, <1>2, <1>3, <1>4, <1>5, <1>6, <1>7, <1>8, <1>9, <1>10 DEF EngineStep, CellStep

\* So does every step.
LEMMA EngineNext == EngineInv /\ [Next]_vars => EngineInv'
BY CallStepsPreserve, EngineStepsPreserve DEF Next, Interrupt, Terminated

\* The inductive invariant behind the theorems about calls (engine.py): where a call
\* is says what it carries, and the calls asked for are numbered without a gap.
THEOREM EngineInvariant == Spec => []EngineInv
BY EngineInit, EngineNext, PTL DEF Spec

-----------------------------------------------------------------------------
(* The calls of a run are callers of RunLedger *)

\* A step of one call is a step of one caller.
LEMMA CallerMoves ==
    ASSUME EngineInv, NEW c \in Calls, NEW from, NEW to, Goto(c, from, to),
           UNCHANGED err \/ \E error : Raise(c, error)
    PROVE  /\ Caller!Goto(c, CallerAt(from), CallerAt(to))
           /\ Caller!Raise(c, CallerOutcome(c)')
           /\ CallerOutcome(c)' = CallerOutcome(c) =>
                 UNCHANGED [d \in Calls |-> CallerOutcome(d)]
           /\ pc[c] = from /\ pc'[c] = to
<1>1. pc[c] = from /\ pc'[c] = to /\ \A d \in Calls : d # c => pc'[d] = pc[d]
    BY DEF Goto, EngineInv, CallsTypeOK
<1>2. \A d \in Calls : d # c => err'[d] = err[d]
    BY DEF Raise, EngineInv, CallsTypeOK
<1>3. \A d \in Calls : d # c => CallerOutcome(d)' = CallerOutcome(d)
    BY <1>1, <1>2 DEF CallerOutcome
<1> QED  BY <1>1, <1>3 DEF Caller!Goto, Caller!Raise

\* What a call under way does without an exception leaves its outcome alone.
LEMMA OutcomeRests ==
    ASSUME NEW c \in Calls, pc[c] \notin Unmade \cup {"done"}, pc'[c] \notin Unmade \cup {"done"},
           err'[c] = err[c]
    PROVE  CallerOutcome(c)' = CallerOutcome(c)
BY DEF CallerOutcome, Unmade

\* An exception is the outcome of its call at once.
LEMMA OutcomeRaised ==
    ASSUME EngineInv, NEW c \in Calls, NEW error \in Errors \ {"none", "status", "interrupt"},
           Raise(c, error)
    PROVE  CallerOutcome(c)' = error
BY DEF CallerOutcome, Raise, EngineInv, CallsTypeOK

\* A step that RunLedger does not tell apart from none.
LEMMA CallersRest ==
    ASSUME \A c \in Calls : CallerAt(pc'[c]) = CallerAt(pc[c])
                            /\ CallerOutcome(c)' = CallerOutcome(c),
           UNCHANGED <<ledgerVars, wait, arrived>>
    PROVE  UNCHANGED Caller!vars
BY DEF Caller!vars, Caller!ledgerVars, Caller!counters, ledgerVars, counters

\* A step of a call is one of a caller of the ledger, or a stutter.
LEMMA CallImplements ==
    ASSUME EngineInv, EngineInv', NEW c \in Calls,
           CallStep(c) \/ BackendStep(c) \/ CellTimeout(c) \/ InterruptCall(c)
    PROVE  Caller!CallerStep(c) \/ UNCHANGED Caller!vars
<1> USE DEF Caller!CallerStep, Caller!RuntimeStep, Caller!BackendStep
<1>0. pc[c] \in Unfailed => err[c] = "none"
    BY DEF EngineInv, Carried
<1>1. CASE WorkerTakes(c)
    <2>1. Goto(c, "queued", "reserve") /\ UNCHANGED <<ledgerVars, err, wait, arrived>>
        BY <1>1 DEF WorkerTakes, Goto, IsFirst, Queued
    <2>2. \A d \in Calls : CallerAt(pc'[d]) = CallerAt(pc[d])
                           /\ CallerOutcome(d)' = CallerOutcome(d)
        BY <2>1 DEF Goto, CallerAt, CallerOutcome, EngineInv, CallsTypeOK
    <2> QED  BY <2>1, <2>2, CallersRest
<1>2. CASE Reserve(c)
    <2>1. CASE CanReserveModelCall /\ ReserveModelCall /\ Goto(c, "reserve", "request")
               /\ UNCHANGED <<err, wait, arrived>>
        <3>1. CallerOutcome(c)' = "pending"
            BY <2>1, <1>0, CallerMoves DEF CallerOutcome, Unfailed
        <3>2. arrived' = [arrived EXCEPT ![c] = 0]
            BY <2>1, CallerMoves DEF EngineInv, CallsTypeOK, Carried, Unmade
        <3>3. Caller!BeginCall(c)
            BY <2>1, <3>1, <3>2, CallerMoves, ZenonT(60)
               DEF Caller!BeginCall, CallerAt, CanReserveModelCall, Caller!CanReserveModelCall,
                   ReserveModelCall, Caller!ReserveModelCall, Expired, Caller!Expired
        <3> QED  BY <3>3
    <2>2. CASE /\ ~CanReserveModelCall /\ Goto(c, "reserve", "done")
               /\ Raise(c, IF Expired THEN "deadline" ELSE "call_limit")
               /\ UNCHANGED <<ledgerVars, wait, arrived>>
        <3>1. CallerOutcome(c)' = IF Expired THEN "deadline" ELSE "call_limit"
            BY <2>2, OutcomeRaised DEF Errors
        <3>2. Caller!RefuseCall(c)
            BY <2>2, <3>1, CallerMoves
               DEF Caller!RefuseCall, Caller!FailCall, CallerAt, CanReserveModelCall,
                   Caller!CanReserveModelCall, Expired, Caller!Expired,
                   Caller!ledgerVars, Caller!counters, ledgerVars, counters
        <3> QED  BY <3>2
    <2> QED  BY <1>2, <2>1, <2>2 DEF Reserve
<1>a. ASSUME NEW from, NEW to, Move(c, from, to),
             from \notin Unmade \cup {"done"}, to \notin Unmade \cup {"done"}
      PROVE  Caller!Move(c, CallerAt(from), CallerAt(to))
    <2>1. Goto(c, from, to) /\ UNCHANGED <<ledgerVars, err, wait, arrived>>
        BY <1>a DEF Move
    <2>2. CallerOutcome(c)' = CallerOutcome(c)
        BY <1>a, <2>1, CallerMoves, OutcomeRests
    <2> QED  BY <2>1, <2>2, CallerMoves
             DEF Caller!Move, Caller!ledgerVars, Caller!counters, ledgerVars, counters
<1>b. ASSUME NEW from, NEW error \in Errors \ {"none", "status", "interrupt"}, Fail(c, from, error)
      PROVE  Caller!FailCall(c, CallerAt(from), error)
    <2>1. Goto(c, from, "failing") /\ Raise(c, error) /\ UNCHANGED <<ledgerVars, wait, arrived>>
        BY <1>b DEF Fail
    <2>2. CallerOutcome(c)' = error
        BY <2>1, OutcomeRaised
    <2> QED  BY <2>1, <2>2, CallerMoves
             DEF Caller!FailCall, CallerAt, Caller!ledgerVars, Caller!counters, ledgerVars, counters
<1>c. ASSUME NEW from, NEW to, Goto(c, from, to), UNCHANGED err,
             from \notin Unmade \cup {"done"}, to \notin Unmade \cup {"done"}
      PROVE  /\ Caller!Goto(c, CallerAt(from), CallerAt(to))
             /\ UNCHANGED [d \in Calls |-> CallerOutcome(d)]
    BY <1>c, CallerMoves, OutcomeRests
<1>d. ASSUME NEW from, NEW to, NEW error \in Errors \ {"none", "status", "interrupt"},
             Goto(c, from, to), Raise(c, error)
      PROVE  Caller!Goto(c, CallerAt(from), CallerAt(to)) /\ Caller!Raise(c, error)
    BY <1>d, CallerMoves, OutcomeRaised
<1>e. ASSUME NEW from, NEW to, Goto(c, from, to), UNCHANGED <<ledgerVars, err, wait, arrived>>,
             CallerAt(from) = CallerAt(to), CallerOutcome(c)' = CallerOutcome(c)
      PROVE  UNCHANGED Caller!vars
    <2>1. \A d \in Calls : CallerAt(pc'[d]) = CallerAt(pc[d])
        BY <1>e DEF Goto, EngineInv, CallsTypeOK
    <2>2. \A d \in Calls : CallerOutcome(d)' = CallerOutcome(d)
        BY <1>e DEF Goto, CallerOutcome, EngineInv, CallsTypeOK
    <2> QED  BY <1>e, <2>1, <2>2, CallersRest
<1>3. CASE Request(c)
    <2>1. Goto(c, "request", "slot") /\ UNCHANGED <<ledgerVars, err, wait, arrived>>
        BY <1>3 DEF Request
    <2>2. CallerOutcome(c)' = CallerOutcome(c)
        BY <2>1, CallerMoves, OutcomeRests DEF Unmade
    <2> QED  BY <2>1, <2>2, <1>e DEF CallerAt
<1> USE DEF Errors, Unmade, CallerAt, Expired, Caller!Expired,
            Caller!ledgerVars, Caller!counters, ledgerVars, counters
<1>4. CASE CheckSlot(c)
    <2>1. Caller!CheckSlot(c)
        BY <1>4, <1>a, <1>b DEF CheckSlot, Caller!CheckSlot
    <2> QED  BY <2>1
<1>5. CASE ReadRemaining(c)
    <2>1. Caller!ReadRemaining(c)
        BY <1>5, <1>c DEF ReadRemaining, Caller!ReadRemaining, Remaining, Caller!Remaining
    <2> QED  BY <2>1
<1>6. CASE Acquire(c)
    <2>1. Caller!AcquireAtOnce(c)
        BY <1>6, <1>c DEF Acquire, Caller!AcquireAtOnce, Caller!Acquire, TakePermit, Caller!TakePermit
    <2> QED  BY <2>1
<1>7. CASE EnterOrExpire(c)
    <2>1. Caller!EnterOrExpire(c)
        BY <1>7, <1>c, <1>d DEF EnterOrExpire, Caller!EnterOrExpire, EnterSlot, Caller!EnterSlot
    <2> QED  BY <2>1
<1>8. CASE StartBackend(c)
    <2>1. Caller!StartBackend(c)
        BY <1>8, <1>a, <1>d DEF StartBackend, Caller!StartBackend
    <2> QED  BY <2>1
<1>9. CASE ExitSlot(c)
    <2>1. Caller!ExitSlot(c)
        BY <1>9, <1>c DEF ExitSlot, Caller!ExitSlot, LeaveSlot, Caller!LeaveSlot
    <2> QED  BY <2>1
<1>10. CASE ReleaseSlot(c)
    <2>1. pc[c] = "releasing" /\ (CallerOutcome(c) = "pending" <=> err[c] = "none")
        BY <1>10, CallerMoves DEF ReleaseSlot, Goto, CallerOutcome, EngineInv, CallsTypeOK
    <2>2. UNCHANGED <<err, wait, arrived>>
        BY <1>10 DEF ReleaseSlot
    <2>3. CASE err[c] = "none"
        <3>1. Goto(c, "releasing", "response")
            BY <1>10, <2>3 DEF ReleaseSlot, Goto
        <3>2. Caller!ReleaseSlot(c)
            BY <1>10, <1>c, <2>1, <2>2, <2>3, <3>1
               DEF ReleaseSlot, Caller!ReleaseSlot, Caller!Goto, ReleasePermit, Caller!ReleasePermit
        <3> QED  BY <3>2
    <2>4. CASE err[c] # "none"
        <3>1. Goto(c, "releasing", "failing")
            BY <1>10, <2>4 DEF ReleaseSlot, Goto
        <3>2. Caller!ReleaseSlot(c)
            BY <1>10, <1>c, <2>1, <2>2, <2>4, <3>1
               DEF ReleaseSlot, Caller!ReleaseSlot, Caller!Goto, ReleasePermit, Caller!ReleasePermit
        <3> QED  BY <3>2
    <2> QED  BY <2>3, <2>4
<1>11. CASE Response(c)
    <2>1. CASE Goto(c, "response", "recheck") /\ UNCHANGED <<ledgerVars, err, wait, arrived>>
        <3>1. CallerOutcome(c)' = CallerOutcome(c)
            BY <2>1, CallerMoves, OutcomeRests
        <3> QED  BY <2>1, <3>1, <1>e
    <2>2. CASE Fail(c, "response", "protocol")
        <3>1. Caller!RejectResponse(c)
            BY <2>2, <1>b DEF Caller!RejectResponse
        <3> QED  BY <3>1
    <2> QED  BY <1>11, <2>1, <2>2 DEF Response
<1>12. CASE Recheck(c)
    <2>1. Caller!RecheckDeadline(c)
        BY <1>12, <1>a, <1>b DEF Recheck, Caller!RecheckDeadline
    <2> QED  BY <2>1
<1>13. ASSUME NEW u \in Usages, Record(c, u)
       PROVE  Caller!CallerStep(c)
    <2>1. CASE Fail(c, "record", "protocol")
        <3>1. Caller!RejectResponse(c)
            BY <2>1, <1>b DEF Caller!RejectResponse
        <3> QED  BY <3>1
    <2>2. CASE reply[c] # "bad_envelope"
        <3>1. PICK error \in {"none", "status", "protocol", "token_limit"} :
                  /\ error \in {"none", "status"} <=> RecordError(u) = "none"
                  /\ error \notin {"none", "status"} => error = RecordError(u)
                  /\ Raise(c, error)
                  /\ Goto(c, "record", IF error = "none" THEN "done" ELSE "failing")
                  /\ RecordResponse(u) /\ UNCHANGED <<wait, arrived>>
            BY <1>13, <2>2 DEF Record, RecordError
        <3>2. CallerOutcome(c)' = IF RecordError(u) = "none" THEN "ok" ELSE RecordError(u)
            <4>1. err'[c] = error /\ (error = "none" => pc'[c] = "done")
                BY <3>1 DEF Raise, Goto, EngineInv, CallsTypeOK
            <4> QED  BY <3>1, <4>1 DEF CallerOutcome
        <3>3. Caller!Goto(c, "recording", "idle") /\ Caller!Raise(c, CallerOutcome(c)')
            BY <3>1, CallerMoves
        <3>4. Caller!RecordUsage(c, u)
            BY <3>1, <3>2, <3>3
               DEF Caller!RecordUsage, RecordResponse, Caller!RecordResponse, RecordError,
                   Caller!RecordError, Accepted, Caller!Accepted, OverBudget, Caller!OverBudget
        <3>5. u \in Caller!Usages
            BY DEF Usages, Caller!Usages
        <3> QED  BY <3>4, <3>5
    <2> QED  BY <1>13, <2>1, <2>2 DEF Record
<1>14. CASE FailedEvent(c)
    <2>1. Goto(c, "failing", "done") /\ UNCHANGED <<ledgerVars, err, wait, arrived>>
        BY <1>14 DEF FailedEvent
    <2>2. err[c] # "none"
        BY <2>1, CallerMoves DEF EngineInv, Carried
    <2>3. CallerOutcome(c)' = CallerOutcome(c)
        BY <2>1, <2>2 DEF CallerOutcome
    <2> QED  BY <2>1, <2>3, <1>e
<1>15. CASE BackendReturns(c)
    <2>1. Caller!BackendReturns(c)
        BY <1>15, <1>c DEF BackendReturns, Caller!BackendReturns
    <2> QED  BY <2>1
<1>16. CASE BackendRaises(c)
    <2>1. Caller!BackendRaises(c)
        BY <1>16, <1>d DEF BackendRaises, Caller!BackendRaises
    <2> QED  BY <2>1
<1>17. CASE CellTimeout(c)
    <2>1. Caller!CellTimeout(c)
        BY <1>17, <1>b, <1>d DEF CellTimeout, Caller!CellTimeout
    <2> QED  BY <2>1
<1>18. CASE InterruptCall(c)
    <2>1. /\ Goto(c, "backend", "exiting") /\ Raise(c, "interrupt")
          /\ UNCHANGED <<ledgerVars, wait, arrived>>
        BY <1>18 DEF InterruptCall
    <2>2. CallerOutcome(c)' = "upstream"
        <3>1. err'[c] = "interrupt"
            BY <2>1 DEF Raise, EngineInv, CallsTypeOK
        <3> QED  BY <3>1 DEF CallerOutcome
    <2>3. Caller!BackendRaises(c)
        BY <2>1, <2>2, CallerMoves DEF Caller!BackendRaises
    <2> QED  BY <2>3
<1>19. CASE \E u \in Usages : Record(c, u)
    BY <1>13, <1>19
<1> QED  BY <1>1, <1>2, <1>3, <1>4, <1>5, <1>6, <1>7, <1>8, <1>9, <1>10, <1>11, <1>12,
            <1>14, <1>15, <1>16, <1>17, <1>18, <1>19 DEF CallStep, BackendStep

\* What the engine's own thread does: it reserves subcalls, on behalf of a call
\* that is not under way, or leaves the ledger alone.
LEMMA EngineImplements ==
    ASSUME EngineInv, EngineInv', Tick \/ EngineStep \/ CellStep \/ InterruptBatch
    PROVE  Caller!Next \/ UNCHANGED Caller!vars
<1> USE DEF Caller!vars, Caller!ledgerVars, Caller!counters, ledgerVars, counters
<1>1. CASE Tick
    <2>1. Caller!Tick
        BY <1>1 DEF Tick, Caller!Tick, callVars, CallerOutcome
    <2> QED  BY <2>1 DEF Caller!Next
<1>2. CASE StartRun \/ CompleteRun \/ FailedRun \/ CloseRun \/ OperationEnds \/ AbandonRun
           \/ \E n \in 1..NCalls : RefuseSubcalls(n)
    <2>1. UNCHANGED <<ledgerVars, callVars>>
        BY <1>2 DEF StartRun, CompleteRun, FailedRun, CloseRun, OperationEnds, OperationOutcome,
                    AbandonRun, RefuseSubcalls
    <2> QED  BY <2>1 DEF callVars, CallerOutcome
<1>3. ASSUME NEW kind, NEW n \in 1..NCalls, NEW place \in {"queued", "reserve"},
             Ask(kind, n, place)
      PROVE  /\ UNCHANGED [c \in Calls |-> CallerAt(pc[c])]
             /\ UNCHANGED [c \in Calls |-> CallerOutcome(c)]
             /\ UNCHANGED <<wait, arrived>>
             /\ high + 1 \in Calls /\ CallerAt(pc[high + 1]) = "idle"
    <2>1. /\ high + n <= NCalls
          /\ pc' = [c \in Calls |-> IF c \in (high + 1)..(high + n) THEN place ELSE pc[c]]
          /\ UNCHANGED <<wait, arrived, err>>
        BY <1>3 DEF Ask
    <2>2. \A c \in (high + 1)..(high + n) : c \in Calls /\ pc[c] = "unused" /\ err[c] = "none"
        BY <2>1, NCallsAssumption DEF EngineInv, Numbering, Carried, Unfailed, CallsTypeOK, Calls
    <2>3. \A c \in Calls : CallerAt(pc'[c]) = CallerAt(pc[c])
                           /\ CallerOutcome(c)' = CallerOutcome(c)
        <3>1. SUFFICES ASSUME NEW c \in Calls
                       PROVE  CallerAt(pc'[c]) = CallerAt(pc[c])
                              /\ CallerOutcome(c)' = CallerOutcome(c)
            OBVIOUS
        <3>2. CASE c \in (high + 1)..(high + n)
            BY <2>1, <2>2, <3>2 DEF CallerAt, CallerOutcome
        <3>3. CASE c \notin (high + 1)..(high + n)
            BY <2>1, <3>3 DEF CallerOutcome
        <3> QED  BY <3>2, <3>3
    <2>4. high + 1 \in (high + 1)..(high + n)
        BY NCallsAssumption DEF EngineInv, CallsTypeOK
    <2> QED  BY <2>1, <2>2, <2>3, <2>4 DEF CallerAt
<1>4. CASE AskController
    BY <1>3, <1>4, NCallsAssumption DEF AskController
<1>5. ASSUME NEW n \in 1..NCalls, CanReserveSubcalls(n), ReserveSubcalls(n), NEW c \in Calls,
             CallerAt(pc[c]) = "idle", UNCHANGED [d \in Calls |-> CallerAt(pc[d])],
             UNCHANGED [d \in Calls |-> CallerOutcome(d)], UNCHANGED <<wait, arrived>>
      PROVE  Caller!Next
    <2>1. Caller!ReserveBatch(c, n)
        BY <1>5 DEF Caller!ReserveBatch, CanReserveSubcalls, Caller!CanReserveSubcalls,
                    ReserveSubcalls, Caller!ReserveSubcalls, Expired, Caller!Expired
    <2> QED  BY <2>1 DEF Caller!Next, Caller!CallerStep
<1>6. CASE AskSubcall
    BY <1>3, <1>5, <1>6, NCallsAssumption DEF AskSubcall
<1>7. CASE \E n \in 2..NCalls : AskBatch(n)
    BY <1>3, <1>5, <1>7, NCallsAssumption DEF AskBatch
<1>8. CASE InvalidSubcall
    <2>1. 1 \in Calls /\ CallerAt(pc[1]) = "idle"
        BY <1>8, NCallsAssumption
           DEF InvalidSubcall, EngineInv, Numbering, Over, CallerAt, Calls
    <2>2. /\ UNCHANGED [d \in Calls |-> CallerAt(pc[d])]
          /\ UNCHANGED [d \in Calls |-> CallerOutcome(d)]
          /\ UNCHANGED <<wait, arrived>> /\ CanReserveSubcalls(1) /\ ReserveSubcalls(1)
        BY <1>8 DEF InvalidSubcall, callVars, CallerOutcome
    <2> QED  BY <1>5, <2>1, <2>2, NCallsAssumption
<1>9. CASE InterruptBatch
    <2>1. \A c \in Calls : CallerAt(pc'[c]) = CallerAt(pc[c])
                           /\ CallerOutcome(c)' = CallerOutcome(c)
        BY <1>9 DEF InterruptBatch, Queued, CallerAt, CallerOutcome
    <2> QED  BY <1>9, <2>1 DEF InterruptBatch
<1> QED  BY <1>1, <1>2, <1>4, <1>6, <1>7, <1>8, <1>9 DEF EngineStep, CellStep

\* The whole run, its operations, batches and interrupts included, uses the
\* ledger as the callers of RunLedger do: every step is a caller's step or none
\* (RLM._call_model and the ledger's methods as run calls them).
THEOREM ImplementsLedger == Spec => LedgerSpec
<1>1. Init => Caller!Init
    BY DEF Init, LedgerInit, Caller!Init, Caller!LedgerInit, CallerAt, CallerOutcome
<1>2. EngineInv /\ EngineInv' /\ [Next]_vars => [Caller!Next]_(Caller!vars)
    <2> SUFFICES ASSUME EngineInv, EngineInv', [Next]_vars
                 PROVE  Caller!Next \/ UNCHANGED Caller!vars
        OBVIOUS
    <2>1. CASE UNCHANGED vars
        BY <2>1 DEF vars, callVars, ledgerVars, counters, CallerOutcome,
                    Caller!vars, Caller!ledgerVars, Caller!counters
    <2>2. CASE \E c \in Calls : CallStep(c) \/ BackendStep(c) \/ CellTimeout(c) \/ InterruptCall(c)
        BY <2>2, CallImplements DEF Caller!Next
    <2> QED  BY <2>1, <2>2, EngineImplements DEF Next, Interrupt, Terminated
<1> QED  BY <1>1, <1>2, EngineInvariant, PTL DEF Spec, LedgerSpec, Caller!Spec

\* RunLedger with its theorems, for the callers that the calls of a run are.
Proven == INSTANCE RunLedgerProofs WITH
            Threads <- Calls,
            BatchSizes <- 1..NCalls,
            pc <- [c \in Calls |-> CallerAt(pc[c])],
            outcome <- [c \in Calls |-> CallerOutcome(c)]

\* The ledger of the calls is the one that RunLedgerProofs is about.
LEMMA SameLedger == LedgerSpec => Proven!Spec
<1>1. Caller!Init => Proven!Init
    BY DEF Caller!Init, Proven!Init, Caller!LedgerInit, Proven!LedgerInit
<1>2. [Caller!Next]_(Caller!vars) => [Proven!Next]_(Proven!vars)
    BY DEF Caller!Next, Proven!Next, Caller!Tick, Proven!Tick, Caller!CallerStep,
           Proven!CallerStep, Caller!RuntimeStep, Proven!RuntimeStep, Caller!BackendStep,
           Proven!BackendStep, Caller!ReserveBatch, Proven!ReserveBatch, Caller!BeginCall,
           Proven!BeginCall, Caller!RefuseCall, Proven!RefuseCall, Caller!CheckSlot,
           Proven!CheckSlot, Caller!ReadRemaining, Proven!ReadRemaining, Caller!Acquire,
           Proven!Acquire, Caller!AcquireAtOnce, Proven!AcquireAtOnce, Caller!BeginWait,
           Proven!BeginWait, Caller!AcquireAfterWait, Proven!AcquireAfterWait,
           Caller!WaitTimeout, Proven!WaitTimeout, Caller!EnterOrExpire, Proven!EnterOrExpire,
           Caller!StartBackend, Proven!StartBackend, Caller!BackendReturns,
           Proven!BackendReturns, Caller!BackendRaises, Proven!BackendRaises,
           Caller!CellTimeout, Proven!CellTimeout, Caller!ExitSlot, Proven!ExitSlot,
           Caller!ReleaseSlot, Proven!ReleaseSlot, Caller!RecheckDeadline,
           Proven!RecheckDeadline, Caller!RejectResponse, Proven!RejectResponse,
           Caller!RecordUsage, Proven!RecordUsage, Caller!Goto, Proven!Goto, Caller!Raise,
           Proven!Raise, Caller!Move, Proven!Move, Caller!FailCall, Proven!FailCall,
           Caller!Expired, Proven!Expired, Caller!Remaining, Proven!Remaining,
           Caller!CanReserveModelCall, Proven!CanReserveModelCall, Caller!ReserveModelCall,
           Proven!ReserveModelCall, Caller!CanReserveSubcalls, Proven!CanReserveSubcalls,
           Caller!ReserveSubcalls, Proven!ReserveSubcalls, Caller!TakePermit,
           Proven!TakePermit, Caller!EnterSlot, Proven!EnterSlot, Caller!LeaveSlot,
           Proven!LeaveSlot, Caller!ReleasePermit, Proven!ReleasePermit, Caller!Usages,
           Proven!Usages, Caller!Accepted, Proven!Accepted, Caller!OverBudget,
           Proven!OverBudget, Caller!RecordError, Proven!RecordError, Caller!RecordResponse,
           Proven!RecordResponse, Caller!counters, Proven!counters, Caller!ledgerVars,
           Proven!ledgerVars, Caller!vars, Proven!vars
<1> QED  BY <1>1, <1>2, PTL DEF LedgerSpec, Caller!Spec, Proven!Spec

\* What RunLedgerProofs has of the permits and the counters.
LedgerSound ==
    /\ Proven!PermitsConserved
    /\ Proven!CeilingHeld
    /\ Proven!StatsAcceptable
    /\ permits \in Nat /\ active \in Nat /\ peak \in Nat
    /\ unreported <= modelCalls

\* In every state of a run the permits are conserved, the ceiling on running
\* calls holds and the counters are ones that the trace reader accepts
\* (ledger.py:59-127): RunLedger's theorems, carried over to the engine's calls.
THEOREM LedgerHolds == Spec => []LedgerSound
<1>1. Proven!IsFiniteSet(Calls) /\ 1..NCalls \subseteq Nat
    <2>1. IsFiniteSet(Calls)
        BY FS_Interval, NCallsAssumption DEF Calls
    <2>2. Proven!IsFiniteSet(Calls)
        BY <2>1 DEF Proven!IsFiniteSet, IsFiniteSet
    <2> QED  BY <2>2, NCallsAssumption
<1>2. Proven!Spec => []Proven!PermitsConserved
    BY <1>1, Proven!SlotsConserved, LimitsAssumption, MaxClockAssumption
<1>3. Proven!Spec => []Proven!CeilingHeld
    BY <1>1, Proven!CeilingNeverExceeded, LimitsAssumption, MaxClockAssumption
<1>4. Proven!Spec => []Proven!StatsAcceptable
    BY <1>1, Proven!StatsAlwaysAcceptable, LimitsAssumption, MaxClockAssumption
<1>5. Proven!Spec => []Proven!TypeOK
    BY <1>1, Proven!TypeCorrect, LimitsAssumption, MaxClockAssumption
<1>6. Proven!TypeOK => permits \in Nat /\ active \in Nat /\ peak \in Nat
    BY DEF Proven!TypeOK, Proven!LedgerTypeOK
<1>7. Proven!TypeOK /\ Proven!StatsAcceptable => unreported <= modelCalls
    <2> SUFFICES ASSUME Proven!TypeOK, Proven!StatsAcceptable
                 PROVE  unreported <= modelCalls
        OBVIOUS
    <2>1. Proven!Open \subseteq Calls /\ IsFiniteSet(Calls)
        BY FS_Interval, NCallsAssumption DEF Proven!Open, Calls
    <2>2. Cardinality(Proven!Open) \in Nat
        BY <2>1, FS_Subset, FS_CardinalityType
    <2>3. Proven!Cardinality(Proven!Open) \in Nat
        BY <2>2 DEF Proven!Cardinality, Cardinality
    <2> QED  BY <2>3 DEF Proven!TypeOK, Proven!LedgerTypeOK, Proven!StatsAcceptable
<1> QED  BY <1>2, <1>3, <1>4, <1>5, <1>6, <1>7, ImplementsLedger, SameLedger, PTL DEF LedgerSound

\* engine.py:842-875.  Once the run has failed or closed no call of it is under
\* way, queued or inside the slot, and the semaphore has every permit back, for
\* any number of calls and workers and on every path to the end (_parallel_map,
\* run).
THEOREM QuietAtTheEnd == Spec => []QuietAtEnd
<1>1. EngineInv /\ LedgerSound => QuietAtEnd
    <2> SUFFICES ASSUME EngineInv, LedgerSound, phase # "waiting"
                 PROVE  Running = {} /\ Queued = {} /\ permits = MaxParallel /\ active = 0
        BY DEF QuietAtEnd
    <2>1. \A c \in Calls : pc[c] \in Over
        BY DEF EngineInv, Numbering
    <2>2. Running = {} /\ Queued = {}
        BY <2>1 DEF Running, Queued, Over
    <2>3. Proven!Holders = {} /\ Proven!Entered = {}
        BY <2>1 DEF Proven!Holders, Proven!Entered, Proven!WithPermit, Proven!InSlot, CallerAt, Over
    <2>4. Proven!Cardinality({}) = 0
        BY FS_EmptySet DEF Proven!Cardinality, Cardinality
    <2>5. permits + 0 = MaxParallel /\ active = 0
        BY <2>3, <2>4 DEF LedgerSound, Proven!PermitsConserved, Proven!CeilingHeld
    <2> QED  BY <2>2, <2>5, LimitsAssumption DEF LedgerSound
<1> QED  BY <1>1, EngineInvariant, LedgerHolds, PTL

-----------------------------------------------------------------------------
(* Where a call is says which of its events the trace has *)

\* What the trace has of a call.
Requested(c) == At("model.request", c) # {}
Answered(c) == At("model.response", c) # {}
HasFailed(c) == At("model.failed", c) # {}

AtMostOne(S) == \A i, j \in S : i = j

EventsOf(c) ==
    /\ AtMostOne(At("model.request", c))
    /\ AtMostOne(At("model.response", c))
    /\ AtMostOne(At("model.failed", c))
    /\ Answered(c) \/ HasFailed(c) => Requested(c)
    /\ \A i \in At("model.response", c) :
          /\ lines[i].parent = IdOf("model.request", c)
          /\ \A j \in At("model.failed", c) : i < j
    /\ \A i \in At("model.failed", c) :
          lines[i].parent = IdOf(IF Answered(c) THEN "model.response" ELSE "model.request", c)

EventsAtPlace(c) ==
    /\ pc[c] \in Unmade \cup {"request"} => ~Requested(c)
    /\ pc[c] \in Calling => Requested(c) /\ ~Answered(c) /\ ~HasFailed(c)
    /\ pc[c] \in {"recheck", "record"} =>
          Requested(c) /\ Answered(c) /\ ~HasFailed(c) /\ reply[c] # "no_object"
    /\ pc[c] = "failing" => Requested(c) /\ ~HasFailed(c)
    /\ pc[c] = "done" =>
          \/ ~Requested(c) /\ err[c] \in {"deadline", "call_limit"}
          \/ Requested(c) /\ HasFailed(c) /\ err[c] # "none"
          \/ /\ Answered(c) /\ ~HasFailed(c) /\ reply[c] = "outcome" /\ err[c] = "none"
    /\ \A i \in At("model.response", c) : lines[i].good <=> reply[c] = "outcome"

EventTypes == {"run.started", "run.completed", "run.failed",
               "model.request", "model.response", "model.failed"}
RunTypes == {"run.started", "run.completed", "run.failed"}

Events == [id : Nat, type : EventTypes, branch : {Root}, call : Calls \cup {NoCall},
           parent : Nat \cup {NoEvent}, good : BOOLEAN]

\* The recorder: ids are positions, and only the events of a call have a call.
Recorded ==
    /\ lines \in Seq(Events)
    /\ nextId = Len(lines)
    /\ known = 0..(Len(lines) - 1)
    /\ IdsOrdered
    /\ \A i \in Positions : lines[i].call = NoCall <=> lines[i].type \in RunTypes

\* The first and the last event of the run.
Framed ==
    /\ phase = "starting" <=> lines = <<>>
    /\ closed <=> phase = "closed"
    /\ \A i \in Positions : lines[i].type = "run.started" <=> i = 1
    /\ \A i \in Positions :
          Final(lines[i]) <=> i = Len(lines) /\ phase \in {"closing", "closed"}
    /\ phase \in {"starting", "running", "waiting"} => fatal.error = "none"
    /\ phase = "failing" => fatal.error # "none"
    /\ phase \in {"closing", "closed"} =>
          (lines[Len(lines)].type = "run.completed" <=> fatal.error = "none")
    /\ closed => ManifestAgrees

\* The failure that is about to surface.
Surfacing ==
    phase \in {"failing", "closing", "closed"}
    /\ fatal.error \in {"upstream", "protocol", "token_limit", "status"} =>
        \E c \in Operation :
            /\ HasFailed(c)
            /\ \A d \in Operation : d < c => err[d] = "none"
            /\ fatal.cause = IdOf("model.failed", c)
            /\ phase # "failing" => lines[Len(lines)].parent = fatal.cause

TraceInv ==
    /\ Recorded
    /\ Framed
    /\ \A c \in Calls : EventsOf(c) /\ EventsAtPlace(c)
    /\ Surfacing

-----------------------------------------------------------------------------
(* What one event adds to the trace *)

\* What a line that is written changes: there is one more, with the number after the
\* last.
LEMMA EmitEffects ==
    ASSUME Recorded, NEW type \in EventTypes, NEW call \in Calls \cup {NoCall},
           NEW parent \in Nat \cup {NoEvent}, NEW good \in BOOLEAN,
           call = NoCall <=> type \in RunTypes,
           type = "run.started" => parent = NoEvent,
           Emit(type, Root, call, parent, good)
    PROVE  /\ Recorded'
           /\ Len(lines') = Len(lines) + 1
           /\ Positions' = Positions \cup {Len(lines) + 1}
           /\ Len(lines) + 1 \notin Positions
           /\ \A i \in Positions : lines'[i] = lines[i]
           /\ lines'[Len(lines) + 1].type = type
           /\ lines'[Len(lines) + 1].call = call
           /\ lines'[Len(lines) + 1].parent = parent
           /\ lines'[Len(lines) + 1].good = good
           /\ lines'[Len(lines) + 1].id = Len(lines)
           /\ ~closed /\ UNCHANGED <<closed, manifest>>
<1> DEFINE event == [id |-> nextId, type |-> type, branch |-> Root,
                     call |-> call, parent |-> parent, good |-> good]
<1>1. lines' = Append(lines, event) /\ nextId' = nextId + 1 /\ known' = known \cup {nextId}
      /\ ~closed /\ UNCHANGED <<closed, manifest>> /\ ParentValid(type, parent)
    BY DEF Emit
<1>2. event \in Events /\ lines \in Seq(Events) /\ Len(lines) \in Nat /\ nextId = Len(lines)
    BY DEF Recorded, Events
<1> HIDE DEF event
<1>3. /\ lines' \in Seq(Events)
      /\ Len(lines') = Len(lines) + 1
      /\ Positions = 1..Len(lines) /\ Positions' = 1..(Len(lines) + 1)
      /\ \A i \in Positions : lines'[i] = lines[i]
      /\ lines'[Len(lines) + 1] = event
    BY <1>1, <1>2 DEF Positions
<1>4. /\ event.type = type /\ event.call = call /\ event.parent = parent
      /\ event.good = good /\ event.id = Len(lines)
    BY <1>2 DEF event
<1>5. known' = 0..(Len(lines') - 1)
    BY <1>1, <1>2, <1>3 DEF Recorded
<1>6. IdsOrdered'
    <2> SUFFICES ASSUME NEW i \in Positions'
                 PROVE  /\ lines'[i].id = i - 1
                        /\ IF i = 1
                              THEN lines'[i].type = "run.started" /\ lines'[i].parent = NoEvent
                              ELSE \E j \in 1..(i - 1) : lines'[j].id = lines'[i].parent
        BY DEF IdsOrdered
    <2>1. CASE i \in Positions
        <3>1. \A j \in 1..i : j \in Positions /\ lines'[j] = lines[j]
            BY <1>2, <1>3, <2>1
        <3>2. \A j \in 1..(i - 1) : j \in 1..i
            BY <1>3, <2>1
        <3>3. i \in 1..i
            BY <1>3, <2>1
        <3> QED  BY ZenonT(40), SMTT(20), <2>1, <3>1, <3>2, <3>3 DEF Recorded, IdsOrdered
    <2>2. CASE i = Len(lines) + 1 /\ Len(lines) = 0
        <3>1. known = {}
            BY <1>2, <2>2 DEF Recorded
        <3> QED  BY <1>1, <1>2, <1>3, <1>4, <2>2, <3>1 DEF ParentValid
    <2>3. CASE i = Len(lines) + 1 /\ Len(lines) # 0
        <3>1. parent \in 0..(Len(lines) - 1)
            <4>1. 0 \in known
                BY <1>2, <2>3 DEF Recorded
            <4> QED  BY <1>1, <4>1 DEF ParentValid, Recorded
        <3>2. parent + 1 \in 1..(i - 1) /\ parent + 1 \in Positions
            BY <1>2, <1>3, <2>3, <3>1
        <3>3. lines'[parent + 1].id = parent
            BY <1>3, <3>1, <3>2 DEF Recorded, IdsOrdered
        <3> QED  BY <1>2, <1>3, <1>4, <2>3, <3>2, <3>3
    <2> QED  BY <1>2, <1>3, <2>1, <2>2, <2>3
<1>7. \A i \in Positions' : lines'[i].call = NoCall <=> lines'[i].type \in RunTypes
    BY <1>2, <1>3, <1>4 DEF Recorded
<1>8. Recorded'
    BY <1>1, <1>2, <1>3, <1>5, <1>6, <1>7 DEF Recorded
<1> QED  BY <1>1, <1>2, <1>3, <1>4, <1>8

\* An event joins the events of its own type and call, and no others.
LEMMA EmitAt ==
    ASSUME Recorded, NEW type \in EventTypes, NEW call \in Calls \cup {NoCall},
           NEW parent \in Nat \cup {NoEvent}, NEW good \in BOOLEAN,
           call = NoCall <=> type \in RunTypes,
           type = "run.started" => parent = NoEvent,
           Emit(type, Root, call, parent, good),
           NEW t, NEW d
    PROVE  /\ t = type /\ d = call => At(t, d)' = At(t, d) \cup {Len(lines) + 1}
           /\ t # type \/ d # call => At(t, d)' = At(t, d) /\ IdOf(t, d)' = IdOf(t, d)
           /\ t = type /\ d = call /\ At(t, d) = {} => IdOf(t, d)' = Len(lines)
<1>0. /\ Positions' = Positions \cup {Len(lines) + 1}
      /\ \A i \in Positions : lines'[i] = lines[i]
      /\ lines'[Len(lines) + 1].type = type
      /\ lines'[Len(lines) + 1].call = call
      /\ Len(lines) + 1 \notin Positions
    BY EmitEffects, SMTT(20), ZenonT(60)
<1>1. t = type /\ d = call => At(t, d)' = At(t, d) \cup {Len(lines) + 1}
    BY <1>0 DEF At
<1>2. t # type \/ d # call => At(t, d)' = At(t, d)
    BY <1>0 DEF At
<1>3. ASSUME At(t, d)' = At(t, d)
      PROVE  IdOf(t, d)' = IdOf(t, d)
    <2>1. \A i \in At(t, d) : lines'[i] = lines[i]
        BY EmitEffects DEF At
    <2>2. CASE At(t, d) = {}
        BY <1>3, <2>2 DEF IdOf
    <2>3. CASE At(t, d) # {}
        BY <1>3, <2>1, <2>3 DEF IdOf
    <2> QED  BY <2>2, <2>3
<1>4. t = type /\ d = call /\ At(t, d) = {} => IdOf(t, d)' = Len(lines)
    <2> SUFFICES ASSUME t = type, d = call, At(t, d) = {}
                 PROVE  IdOf(t, d)' = Len(lines)
        OBVIOUS
    <2>1. At(t, d)' = {Len(lines) + 1}
        BY <1>1
    <2> QED  BY <2>1, EmitEffects DEF IdOf
<1> QED  BY <1>1, <1>2, <1>3, <1>4

\* Where there is an event, its id is a number.
LEMMA IdOfSome ==
    ASSUME Recorded, NEW t, NEW d
    PROVE  /\ At(t, d) # {} => IdOf(t, d) \in Nat
           /\ IdOf(t, d) # NoEvent <=> At(t, d) # {}
           /\ IdOf(t, d) \in Nat \cup {NoEvent}
<1>1. \A i \in Positions : lines[i].id \in Nat
    BY DEF Recorded, IdsOrdered, Positions
<1>2. \A i \in At(t, d) : lines[i].id \in Nat
    BY <1>1 DEF At
<1>3. At(t, d) # {} => IdOf(t, d) \in Nat
    BY <1>2 DEF IdOf
<1>4. At(t, d) = {} => IdOf(t, d) = NoEvent
    BY DEF IdOf
<1> QED  BY <1>3, <1>4 DEF NoEvent

\* No step of the trace, no change of what is read from it.
LEMMA LinesRest ==
    ASSUME UNCHANGED lines, NEW t, NEW d
    PROVE  At(t, d)' = At(t, d) /\ IdOf(t, d)' = IdOf(t, d) /\ Positions' = Positions
BY DEF At, IdOf, Positions

ModelTypes == {"model.request", "model.response", "model.failed"}

\* The events of d are where they were.
SameEvents(d) ==
    /\ \A t \in ModelTypes : At(t, d)' = At(t, d) /\ IdOf(t, d)' = IdOf(t, d)
    /\ \A i \in Positions : lines'[i] = lines[i]

\* A call without a new event keeps its events.
LEMMA EventsKept ==
    ASSUME NEW d, EventsOf(d), SameEvents(d)
    PROVE  EventsOf(d)'
<1>1. \A t \in ModelTypes : \A i \in At(t, d) : lines'[i] = lines[i]
    BY DEF SameEvents, At
<1>2. /\ At("model.request", d)' = At("model.request", d)
      /\ At("model.response", d)' = At("model.response", d)
      /\ At("model.failed", d)' = At("model.failed", d)
      /\ IdOf("model.request", d)' = IdOf("model.request", d)
      /\ IdOf("model.response", d)' = IdOf("model.response", d)
    BY DEF SameEvents, ModelTypes
<1> QED  BY <1>1, <1>2 DEF EventsOf, Requested, Answered, HasFailed, ModelTypes

\* A call that rests without a new event has the events of its place.
LEMMA PlaceKept ==
    ASSUME NEW d, EventsAtPlace(d), SameEvents(d),
           pc'[d] = pc[d], err'[d] = err[d], reply'[d] = reply[d]
    PROVE  EventsAtPlace(d)'
<1>1. \A i \in At("model.response", d) : lines'[i] = lines[i]
    BY DEF SameEvents, At
<1>2. /\ At("model.request", d)' = At("model.request", d)
      /\ At("model.response", d)' = At("model.response", d)
      /\ At("model.failed", d)' = At("model.failed", d)
    BY DEF SameEvents, ModelTypes
<1> QED  BY <1>1, <1>2 DEF EventsAtPlace, Requested, Answered, HasFailed

\* Where no line is written, no call has a new event.
LEMMA LinesRestSame == ASSUME UNCHANGED lines, NEW d PROVE SameEvents(d)
BY LinesRest DEF SameEvents

\* A step of call c that writes nothing; what it owes is the place it comes to.
LEMMA QuietStep ==
    ASSUME EngineInv, TraceInv, NEW c \in Calls, NEW from \in Places \ Over, NEW to,
           Goto(c, from, to), UNCHANGED <<traceVars, phase, fatal>>,
           UNCHANGED err \/ \E error : Raise(c, error),
           \A d \in Calls : d # c => reply'[d] = reply[d],
           EventsAtPlace(c)'
    PROVE  TraceInv'
<1>1. phase = "waiting"
    BY DEF Goto, EngineInv, Numbering
<1>2. \A d \in Calls : EventsOf(d)'
    BY EventsKept, LinesRestSame DEF TraceInv, traceVars
<1>3. \A d \in Calls : d # c => EventsAtPlace(d)'
    <2> SUFFICES ASSUME NEW d \in Calls, d # c PROVE EventsAtPlace(d)'
        OBVIOUS
    <2>1. pc'[d] = pc[d] /\ err'[d] = err[d] /\ reply'[d] = reply[d]
        BY DEF Goto, Raise, EngineInv, CallsTypeOK
    <2> QED  BY <2>1, PlaceKept, LinesRestSame DEF TraceInv, traceVars
<1>4. Recorded' /\ Framed'
    BY <1>1, LinesRest DEF TraceInv, Recorded, Framed, IdsOrdered, Final, ManifestAgrees, traceVars
<1>5. Surfacing'
    BY <1>1 DEF Surfacing
<1> QED  BY <1>2, <1>3, <1>4, <1>5 DEF TraceInv

\* A step of call c that writes an event of it.
LEMMA WritingStep ==
    ASSUME EngineInv, TraceInv, NEW c \in Calls, NEW from \in Places \ Over, NEW to,
           NEW type \in ModelTypes, NEW parent \in Nat \cup {NoEvent}, NEW good \in BOOLEAN,
           Goto(c, from, to), Emit(type, Root, c, parent, good),
           UNCHANGED <<phase, fatal, err, reply>>,
           EventsOf(c)', EventsAtPlace(c)'
    PROVE  TraceInv'
<1>1. phase = "waiting"
    BY DEF Goto, EngineInv, Numbering
<1>2. type \in EventTypes /\ type \notin RunTypes /\ type # "run.started" /\ c # NoCall
      /\ c \in Calls \cup {NoCall} /\ Recorded
    BY NoCallAssumption DEF ModelTypes, EventTypes, RunTypes, TraceInv
<1>3. \A d \in Calls : d # c => SameEvents(d)
    BY <1>2, EmitAt, EmitEffects DEF SameEvents
<1>4. \A d \in Calls : d # c => EventsOf(d)' /\ EventsAtPlace(d)'
    <2> SUFFICES ASSUME NEW d \in Calls, d # c PROVE EventsOf(d)' /\ EventsAtPlace(d)'
        OBVIOUS
    <2>1. pc'[d] = pc[d] /\ err'[d] = err[d] /\ reply'[d] = reply[d]
        BY DEF Goto, EngineInv, CallsTypeOK
    <2> QED  BY <1>3, <2>1, EventsKept, PlaceKept DEF TraceInv
<1>5. Recorded'
    BY <1>2, EmitEffects
<1>6. Framed'
    <2>1. /\ Len(lines') = Len(lines) + 1 /\ Len(lines) \in Nat
          /\ Positions' = Positions \cup {Len(lines) + 1}
          /\ \A i \in Positions : lines'[i] = lines[i] /\ i # Len(lines) + 1
          /\ lines'[Len(lines) + 1].type = type
          /\ ~closed /\ UNCHANGED closed
        <3>1. Len(lines) \in Nat
            BY <1>2 DEF Recorded
        <3> QED  BY <1>2, <3>1, EmitEffects
    <2>2. lines # <<>> /\ Len(lines) # 0
        BY <1>1, <1>2 DEF TraceInv, Framed, Recorded
    <2>3. lines' # <<>>
        BY <2>1, <1>5 DEF Recorded
    <2>4. \A i \in Positions' : (lines'[i].type = "run.started") <=> i = 1
        BY <2>1, <2>2, <1>2 DEF TraceInv, Framed
    <2>5. \A i \in Positions' : ~Final(lines'[i])
        BY <1>1, <1>2, <2>1 DEF TraceInv, Framed, Final, RunTypes
    <2>6. \A i \in Positions' : ~Final(lines[i])'
        BY <2>5 DEF Final
    <2> QED  BY <1>1, <2>1, <2>2, <2>3, <2>4, <2>6 DEF TraceInv, Framed
<1>7. Surfacing'
    BY <1>1 DEF Surfacing
<1> QED  BY <1>4, <1>5, <1>6, <1>7 DEF TraceInv

\* The first event of a type that a call writes.
LEMMA FirstEvent ==
    ASSUME Recorded, NEW c \in Calls, NEW type \in ModelTypes,
           NEW parent \in Nat \cup {NoEvent}, NEW good \in BOOLEAN,
           Emit(type, Root, c, parent, good), At(type, c) = {}
    PROVE  /\ At(type, c)' = {Len(lines) + 1}
           /\ \A t \in ModelTypes \ {type} : At(t, c)' = At(t, c) /\ IdOf(t, c)' = IdOf(t, c)
           /\ lines'[Len(lines) + 1].parent = parent
           /\ lines'[Len(lines) + 1].good = good
<1>1. c # NoCall /\ c \in Calls \cup {NoCall}
      /\ type \in EventTypes /\ type \notin RunTypes /\ type # "run.started"
    BY NoCallAssumption DEF ModelTypes, EventTypes, RunTypes
<1>2. At(type, c)' = {Len(lines) + 1}
    BY <1>1, EmitAt
<1>3. \A t \in ModelTypes \ {type} : At(t, c)' = At(t, c) /\ IdOf(t, c)' = IdOf(t, c)
    BY <1>1, EmitAt
<1>4. lines'[Len(lines) + 1].parent = parent /\ lines'[Len(lines) + 1].good = good
    BY <1>1, EmitEffects
<1> QED  BY <1>2, <1>3, <1>4

\* The steps of a call keep what the trace has of every call.
LEMMA CallStepsTrace ==
    ASSUME EngineInv, EngineInv', TraceInv, NEW c \in Calls,
           CallStep(c) \/ BackendStep(c) \/ CellTimeout(c) \/ InterruptCall(c)
    PROVE  TraceInv'
<1> DEFINE Said == /\ Requested(c)' = Requested(c)
                   /\ Answered(c)' = Answered(c)
                   /\ HasFailed(c)' = HasFailed(c)
                   /\ \A i \in At("model.response", c)' :
                         i \in At("model.response", c) /\ lines'[i] = lines[i]
<1>1. EventsOf(c) /\ EventsAtPlace(c) /\ Recorded
    BY DEF TraceInv
<1>2. UNCHANGED lines => Said
    BY LinesRest DEF Requested, Answered, HasFailed
<1>3. (pc[c] \in Unfailed => err[c] = "none") /\ (pc[c] = "failing" => err[c] # "none")
    BY DEF EngineInv, Carried
<1> HIDE DEF Said
<1>a. ASSUME NEW from \in Places \ Over, NEW to \in Places \ Over, Goto(c, from, to),
             UNCHANGED <<traceVars, phase, fatal>>,
             UNCHANGED err \/ \E error : Raise(c, error),
             \A d \in Calls : d # c => reply'[d] = reply[d],
             \/ /\ from \in {"queued", "reserve", "request"} /\ reply'[c] = reply[c]
                /\ to \in {"queued", "reserve", "request"}
             \/ from \in Calling /\ to \in Calling
             \/ from \in Calling \cup {"recheck", "record"} /\ to = "failing" /\ reply'[c] = reply[c]
             \/ from = "recheck" /\ to = "record" /\ reply'[c] = reply[c]
      PROVE  TraceInv'
    <2>1. pc[c] = from /\ pc'[c] = to
        BY <1>a DEF Goto, EngineInv, CallsTypeOK
    <2>2. Said
        BY <1>a, <1>2 DEF traceVars
    <2>3. EventsAtPlace(c)'
        BY <1>1, <1>a, <2>1, <2>2 DEF Said, EventsAtPlace, Unmade, Calling, Answered
    <2> QED  BY <1>a, <2>3, QuietStep
<1> USE DEF Places, Over, Calling, engineVars
<1>4. CASE WorkerTakes(c)
    <2>1. Goto(c, "queued", "reserve")
        BY <1>4 DEF WorkerTakes, Goto, Queued, IsFirst
    <2> QED  BY <1>4, <1>a, <2>1 DEF WorkerTakes
<1>5. CASE Reserve(c)
    <2>1. CASE Goto(c, "reserve", "request") /\ UNCHANGED <<traceVars, engineVars, err, reply>>
        BY <2>1, <1>a
    <2>2. CASE /\ Goto(c, "reserve", "done") /\ UNCHANGED <<traceVars, engineVars, reply>>
               /\ Raise(c, IF Expired THEN "deadline" ELSE "call_limit")
        <3>1. /\ pc[c] = "reserve" /\ pc'[c] = "done" /\ err'[c] \in {"deadline", "call_limit"}
              /\ reply'[c] = reply[c]
            BY <2>2 DEF Goto, Raise, EngineInv, CallsTypeOK
        <3>2. Said
            BY <2>2, <1>2 DEF traceVars
        <3>3. EventsAtPlace(c)'
            BY <1>1, <3>1, <3>2 DEF Said, EventsAtPlace, Unmade
        <3> QED  BY <2>2, <3>3, QuietStep
    <2> QED  BY <1>5, <2>1, <2>2 DEF Reserve
<1>6. CASE CheckSlot(c) \/ ReadRemaining(c) \/ Acquire(c) \/ EnterOrExpire(c)
           \/ StartBackend(c) \/ ExitSlot(c) \/ BackendRaises(c) \/ CellTimeout(c) \/ Recheck(c)
    BY <1>6, <1>a DEF CheckSlot, ReadRemaining, Acquire, EnterOrExpire, StartBackend, ExitSlot,
                      BackendRaises, CellTimeout, Recheck, Move, Fail
<1>7. CASE InterruptCall(c)
    BY <1>7, <1>a DEF InterruptCall
<1>8. CASE BackendReturns(c)
    <2>1. \A d \in Calls : d # c => reply'[d] = reply[d]
        BY <1>8 DEF BackendReturns, EngineInv, CallsTypeOK
    <2> QED  BY <1>8, <1>a, <2>1 DEF BackendReturns
<1>9. CASE ReleaseSlot(c)
    <2>1. Goto(c, "releasing", "response") \/ Goto(c, "releasing", "failing")
        BY <1>9 DEF ReleaseSlot
    <2> QED  BY <1>9, <1>a, <2>1 DEF ReleaseSlot
<1>10. ASSUME NEW u \in Usages, Record(c, u)
       PROVE  TraceInv'
    <2>1. CASE Fail(c, "record", "protocol")
        BY <2>1, <1>a DEF Fail
    <2>2. CASE reply[c] # "bad_envelope"
        <3>1. PICK error : /\ error = "none" => reply[c] # "bad_status"
                           /\ Raise(c, error)
                           /\ Goto(c, "record", IF error = "none" THEN "done" ELSE "failing")
                           /\ UNCHANGED <<traceVars, engineVars, reply>>
            BY <1>10, <2>2 DEF Record
        <3>2. CASE error = "none"
            <4>1. pc[c] = "record" /\ pc'[c] = "done" /\ err'[c] = "none" /\ reply'[c] = reply[c]
                BY <3>1, <3>2 DEF Goto, Raise, EngineInv, CallsTypeOK
            <4>2. Said
                BY <3>1, <1>2 DEF traceVars
            <4>3. reply[c] = "outcome"
                BY <1>1, <2>2, <3>1, <3>2, <4>1 DEF EventsAtPlace, EngineInv, CallsTypeOK, Replies
            <4>4. EventsAtPlace(c)'
                BY <1>1, <4>1, <4>2, <4>3 DEF Said, EventsAtPlace, Unmade
            <4>5. Goto(c, "record", "done")
                BY <3>1, <3>2
            <4> QED  BY <3>1, <4>4, <4>5, QuietStep
        <3>3. CASE error # "none"
            <4>1. Goto(c, "record", "failing")
                BY <3>1, <3>3
            <4> QED  BY <3>1, <4>1, <1>a
        <3> QED  BY <3>2, <3>3
    <2> QED  BY <1>10, <2>1, <2>2 DEF Record
<1>11. CASE Request(c)
    <2>1. /\ Goto(c, "request", "slot") /\ Emit("model.request", Root, c, 0, TRUE)
          /\ UNCHANGED <<engineVars, err, reply>>
        BY <1>11 DEF Request
    <2>2. pc[c] = "request" /\ pc'[c] = "slot"
        BY <2>1 DEF Goto, EngineInv, CallsTypeOK
    <2>3. ~Requested(c) /\ ~Answered(c) /\ ~HasFailed(c)
        BY <1>1, <2>2 DEF EventsAtPlace, EventsOf
    <2>5. /\ At("model.request", c)' = {Len(lines) + 1}
          /\ At("model.response", c)' = {} /\ At("model.failed", c)' = {}
        BY <1>1, <2>1, <2>3, FirstEvent DEF Requested, Answered, HasFailed, ModelTypes
    <2>6. EventsOf(c)' /\ EventsAtPlace(c)'
        BY <2>2, <2>5 DEF EventsOf, EventsAtPlace, Requested, Answered, HasFailed, AtMostOne, Unmade
    <2> QED  BY <2>1, <2>6, WritingStep DEF ModelTypes
<1>12. CASE Response(c)
    <2>1. CASE /\ reply[c] # "no_object" /\ Goto(c, "response", "recheck")
               /\ Emit("model.response", Root, c, IdOf("model.request", c), reply[c] = "outcome")
               /\ UNCHANGED <<engineVars, err, reply>>
        <3> DEFINE parent == IdOf("model.request", c)
                   good == reply[c] = "outcome"
        <3>1. pc[c] = "response" /\ pc'[c] = "recheck" /\ reply'[c] = reply[c]
            BY <2>1 DEF Goto, EngineInv, CallsTypeOK
        <3>2. Requested(c) /\ ~Answered(c) /\ ~HasFailed(c)
            BY <1>1, <3>1 DEF EventsAtPlace
        <3>3. c # NoCall /\ c \in Calls \cup {NoCall} /\ parent \in Nat \cup {NoEvent}
            BY <1>1, NoCallAssumption, IdOfSome
        <3>4. good \in BOOLEAN /\ Emit("model.response", Root, c, parent, good)
            BY <2>1
        <3> HIDE DEF parent, good
        <3>5. /\ At("model.request", c)' = At("model.request", c)
              /\ IdOf("model.request", c)' = IdOf("model.request", c)
              /\ At("model.response", c)' = {Len(lines) + 1} /\ At("model.failed", c)' = {}
              /\ lines'[Len(lines) + 1].parent = parent
              /\ lines'[Len(lines) + 1].good = good
            BY <1>1, <3>2, <3>3, <3>4, FirstEvent DEF Answered, HasFailed, ModelTypes
        <3>6. EventsOf(c)'
            BY <1>1, <3>2, <3>5 DEF EventsOf, Requested, Answered, HasFailed, AtMostOne, parent
        <3>7. EventsAtPlace(c)'
            BY <2>1, <3>1, <3>2, <3>5
               DEF EventsAtPlace, Requested, Answered, HasFailed, Unmade, good
        <3> QED  BY <2>1, <3>3, <3>4, <3>6, <3>7, WritingStep DEF ModelTypes
    <2>2. CASE Fail(c, "response", "protocol")
        BY <2>2, <1>a DEF Fail
    <2> QED  BY <1>12, <2>1, <2>2 DEF Response
<1>13. CASE FailedEvent(c)
    <2> DEFINE parent == IF IdOf("model.response", c) # NoEvent THEN IdOf("model.response", c)
                                                               ELSE IdOf("model.request", c)
    <2>1. /\ Goto(c, "failing", "done") /\ Emit("model.failed", Root, c, parent, FALSE)
          /\ UNCHANGED <<engineVars, err, reply>>
        BY <1>13 DEF FailedEvent
    <2>2. pc[c] = "failing" /\ pc'[c] = "done" /\ reply'[c] = reply[c] /\ err'[c] = err[c]
        BY <2>1 DEF Goto, EngineInv, CallsTypeOK
    <2>3. Requested(c) /\ ~HasFailed(c) /\ err[c] # "none"
        BY <1>1, <1>3, <2>2 DEF EventsAtPlace
    <2>4. c # NoCall /\ c \in Calls \cup {NoCall} /\ parent \in Nat \cup {NoEvent}
        BY <1>1, NoCallAssumption, IdOfSome
    <2>5. parent = IdOf(IF Answered(c) THEN "model.response" ELSE "model.request", c)
        BY <1>1, IdOfSome DEF Answered
    <2> HIDE DEF parent
    <2>6. /\ At("model.request", c)' = At("model.request", c)
          /\ IdOf("model.request", c)' = IdOf("model.request", c)
          /\ At("model.response", c)' = At("model.response", c)
          /\ IdOf("model.response", c)' = IdOf("model.response", c)
          /\ At("model.failed", c)' = {Len(lines) + 1}
        BY <1>1, <2>1, <2>3, <2>4, FirstEvent DEF HasFailed, ModelTypes
    <2>7. /\ lines'[Len(lines) + 1].parent = parent
          /\ \A i \in At("model.response", c) :
                lines'[i] = lines[i] /\ i \in 1..Len(lines) /\ i < Len(lines) + 1
        <3>1. lines'[Len(lines) + 1].parent = parent /\ \A i \in Positions : lines'[i] = lines[i]
            BY <1>1, <2>1, <2>4, EmitEffects DEF EventTypes, RunTypes
        <3>2. Positions = 1..Len(lines) /\ Len(lines) \in Nat
            BY <1>1 DEF Positions, Recorded
        <3>3. At("model.response", c) \subseteq Positions
            BY DEF At
        <3> QED  BY <3>1, <3>2, <3>3
    <2>8. EventsOf(c)'
        BY <1>1, <2>3, <2>5, <2>6, <2>7
           DEF EventsOf, Requested, Answered, HasFailed, AtMostOne
    <2>9. EventsAtPlace(c)'
        BY <1>1, <2>2, <2>3, <2>6, <2>7
           DEF EventsAtPlace, Requested, Answered, HasFailed, Unmade
    <2> QED  BY <2>1, <2>4, <2>8, <2>9, WritingStep DEF ModelTypes
<1>14. CASE \E u \in Usages : Record(c, u)
    BY <1>10, <1>14
<1> QED  BY <1>4, <1>5, <1>6, <1>7, <1>8, <1>9, <1>11, <1>12, <1>13, <1>14
         DEF CallStep, BackendStep

\* The engine's thread asks for calls and cancels them without writing.
LEMMA CallsRest ==
    ASSUME TraceInv, UNCHANGED <<traceVars, err, reply>>,
           \A d \in Calls : pc'[d] = pc[d] \/ (pc[d] \in Unmade /\ pc'[d] \in Unmade)
    PROVE  Recorded' /\ \A d \in Calls : EventsOf(d)' /\ EventsAtPlace(d)'
<1>1. Recorded'
    BY LinesRest DEF TraceInv, Recorded, IdsOrdered, traceVars
<1>2. ASSUME NEW d \in Calls PROVE EventsOf(d)' /\ EventsAtPlace(d)'
    <2>1. EventsOf(d) /\ EventsAtPlace(d) /\ SameEvents(d)
        BY LinesRestSame DEF TraceInv, traceVars
    <2>2. CASE pc'[d] = pc[d]
        BY <2>1, <2>2, EventsKept, PlaceKept
    <2>3. CASE pc[d] \in Unmade /\ pc'[d] \in Unmade
        <3>1. At("model.request", d)' = At("model.request", d)
              /\ At("model.response", d)' = At("model.response", d)
            BY <2>1 DEF SameEvents, ModelTypes
        <3>2. ~Requested(d) /\ ~Answered(d)
            BY <2>1, <2>3 DEF EventsAtPlace, EventsOf
        <3>3. EventsAtPlace(d)'
            BY <2>3, <3>1, <3>2 DEF EventsAtPlace, Requested, Answered, Unmade, Calling
        <3> QED  BY <2>1, <3>3, EventsKept
    <2> QED  BY <1>2, <2>2, <2>3
<1> QED  BY <1>1, <1>2

\* An event of the run itself leaves the events of its calls alone.
LEMMA RunEvent ==
    ASSUME TraceInv, NEW type \in RunTypes, NEW parent \in Nat \cup {NoEvent},
           NEW good \in BOOLEAN, type = "run.started" => parent = NoEvent,
           Emit(type, Root, NoCall, parent, good), UNCHANGED callVars
    PROVE  /\ Recorded'
           /\ \A d \in Calls : SameEvents(d) /\ EventsOf(d)' /\ EventsAtPlace(d)'
<1>1. Recorded /\ type \in EventTypes /\ NoCall \in Calls \cup {NoCall}
    BY DEF TraceInv, RunTypes, EventTypes
<1>2. \A d \in Calls : d # NoCall
    BY NoCallAssumption
<1>3. \A d \in Calls : SameEvents(d)
    BY <1>1, <1>2, EmitAt, EmitEffects DEF SameEvents
<1>4. Recorded'
    BY <1>1, EmitEffects
<1> QED  BY <1>3, <1>4, EventsKept, PlaceKept DEF TraceInv, callVars

\* run.completed and run.failed close the frame.
LEMMA FinalEvent ==
    ASSUME EngineInv, TraceInv, phase \in {"running", "failing"},
           NEW type \in {"run.completed", "run.failed"},
           type = "run.completed" <=> fatal.error = "none",
           NEW parent \in Nat, Emit(type, Root, NoCall, parent, TRUE),
           phase' = "closing", UNCHANGED fatal
    PROVE  Framed' /\ lines'[Len(lines')].parent = parent
<1>1. Recorded /\ type \in EventTypes /\ NoCall \in Calls \cup {NoCall}
      /\ type \in RunTypes /\ type # "run.started"
    BY DEF TraceInv, RunTypes, EventTypes
<1>2. Len(lines) \in Nat
    BY <1>1 DEF Recorded
<1>3. /\ Len(lines') = Len(lines) + 1
      /\ Positions' = Positions \cup {Len(lines) + 1}
      /\ \A i \in Positions : lines'[i] = lines[i] /\ i # Len(lines) + 1
      /\ lines'[Len(lines) + 1].type = type
      /\ lines'[Len(lines) + 1].parent = parent
      /\ ~closed /\ UNCHANGED closed /\ Recorded'
    BY <1>1, <1>2, EmitEffects
<1>4. lines # <<>> /\ Len(lines) # 0
    BY <1>1 DEF TraceInv, Framed, Recorded
<1>5. lines' # <<>>
    BY <1>2, <1>3 DEF Recorded
<1>6. \A i \in Positions' : (lines'[i].type = "run.started") <=> i = 1
    BY <1>1, <1>2, <1>3, <1>4 DEF TraceInv, Framed
<1>7. \A i \in Positions' : Final(lines[i])' <=> i = Len(lines')
    BY <1>2, <1>3 DEF TraceInv, Framed, Final
<1> QED  BY <1>2, <1>3, <1>4, <1>5, <1>6, <1>7 DEF Framed, TraceInv

\* So do those of the engine, the cell and the clock.
LEMMA EngineStepsTrace ==
    ASSUME EngineInv, EngineInv', LedgerSound, QuietAtEnd, TraceInv,
           Tick \/ EngineStep \/ CellStep \/ InterruptBatch \/ UNCHANGED vars
    PROVE  TraceInv'
<1>1. CASE Tick \/ InvalidSubcall \/ UNCHANGED vars
    <2>1. UNCHANGED <<traceVars, engineVars, callVars>>
        BY <1>1 DEF Tick, InvalidSubcall, vars
    <2>2. Recorded' /\ \A d \in Calls : EventsOf(d)' /\ EventsAtPlace(d)'
        BY <2>1, CallsRest DEF callVars
    <2>3. Framed'
        BY <2>1, LinesRest DEF TraceInv, Framed, Final, ManifestAgrees, traceVars, engineVars
    <2>4. Surfacing'
        BY <2>1, LinesRest
           DEF TraceInv, Surfacing, Operation, HasFailed, traceVars, engineVars, callVars
    <2> QED  BY <2>2, <2>3, <2>4 DEF TraceInv
<1>2. ASSUME UNCHANGED <<traceVars, err, reply, fatal>>, phase # "starting",
             phase' \in {"running", "waiting"}, phase \in {"running", "waiting"},
             \A d \in Calls : pc'[d] = pc[d] \/ (pc[d] \in Unmade /\ pc'[d] \in Unmade)
      PROVE  TraceInv'
    <2>1. Recorded' /\ \A d \in Calls : EventsOf(d)' /\ EventsAtPlace(d)'
        BY <1>2, CallsRest
    <2>2. Framed'
        BY <1>2, LinesRest DEF TraceInv, Framed, Final, traceVars
    <2> QED  BY <1>2, <2>1, <2>2 DEF TraceInv, Surfacing
<1>3. CASE AskController \/ AskSubcall \/ \E n \in 2..NCalls : AskBatch(n)
    <2>1. PICK kind, n, place : Ask(kind, n, place) /\ n \in Nat \ {0}
                               /\ place \in {"queued", "reserve"}
        <3>1. CASE Ask("controller", 1, "reserve") \/ Ask("subcall", 1, "reserve")
            BY <3>1
        <3>2. ASSUME NEW n \in 2..NCalls, Ask("batch", n, "queued")
              PROVE  n \in Nat \ {0}
            BY NCallsAssumption
        <3> QED  BY <1>3, <3>1, <3>2 DEF AskController, AskSubcall, AskBatch
    <2>2. \A d \in Calls : pc'[d] = pc[d] \/ (pc[d] \in Unmade /\ pc'[d] \in Unmade)
        BY <2>1 DEF Ask, EngineInv, Numbering, CallsTypeOK, Calls, Unmade
    <2> QED  BY <1>2, <2>1, <2>2 DEF Ask
<1>4. CASE InterruptBatch
    <2>1. \A d \in Calls : pc'[d] = pc[d] \/ (pc[d] \in Unmade /\ pc'[d] \in Unmade)
        BY <1>4 DEF InterruptBatch, Queued, Unmade
    <2> QED  BY <1>2, <1>4, <2>1 DEF InterruptBatch
<1>5. ASSUME UNCHANGED <<traceVars, callVars, low, high>>, phase \in {"running", "waiting"},
             phase' = "failing", NEW error \in Errors \ {"none"}, NEW cause,
             fatal' = [error |-> error, cause |-> cause],
             error \in {"upstream", "protocol", "token_limit", "status"} =>
                 \E c \in Operation : IsFirst(c, Failed) /\ error = err[c]
                                      /\ cause = CauseOf(c) /\ pc[c] \in {"done", "cancelled"}
      PROVE  TraceInv'
    <2>1. Recorded' /\ \A d \in Calls : EventsOf(d)' /\ EventsAtPlace(d)'
        BY <1>5, CallsRest DEF callVars
    <2>2. Framed'
        BY <1>5, LinesRest DEF TraceInv, Framed, Final, traceVars
    <2>3. Surfacing'
        <3> SUFFICES ASSUME error \in {"upstream", "protocol", "token_limit", "status"}
                     PROVE  Surfacing'
            BY <1>5 DEF Surfacing
        <3>1. PICK c \in Operation : /\ IsFirst(c, Failed) /\ error = err[c]
                                     /\ cause = CauseOf(c) /\ pc[c] \in {"done", "cancelled"}
            BY <1>5
        <3>2. c \in Calls /\ Operation' = Operation
            <4>1. UNCHANGED <<low, high>>
                BY <1>5
            <4>2. c \in low..high /\ low \in 1..(high + 1) /\ high \in 0..NCalls
                BY DEF Operation, EngineInv, Numbering, CallsTypeOK
            <4> QED  BY <4>1, <4>2, NCallsAssumption DEF Operation, Calls
        <3>3. HasFailed(c)
            BY <3>1, <3>2 DEF TraceInv, EventsAtPlace, EngineInv, Carried, Unfailed
        <3>4. \A d \in Operation : d < c => err[d] = "none"
            BY <3>1 DEF IsFirst, Failed, Operation, EngineInv, CallsTypeOK
        <3>5. HasFailed(c)' /\ IdOf("model.failed", c)' = cause /\ UNCHANGED err
            BY <1>5, <3>1, <3>3, LinesRest DEF HasFailed, CauseOf, traceVars, callVars
        <3> QED  BY <1>5, <3>2, <3>4, <3>5 DEF Surfacing
    <2> QED  BY <2>1, <2>2, <2>3 DEF TraceInv
<1>6. CASE AbandonRun \/ \E n \in 1..NCalls : RefuseSubcalls(n)
    <2>1. PICK error \in {"abandoned", "deadline", "subcall_limit"} : FailRun(error, NoEvent)
        BY <1>6 DEF AbandonRun, RefuseSubcalls
    <2>2. UNCHANGED <<traceVars, callVars, low, high>> /\ phase = "running"
        BY <1>6 DEF AbandonRun, RefuseSubcalls
    <2> QED  BY <1>5, <2>1, <2>2 DEF FailRun, Errors
<1>7. CASE OperationEnds
    <2>1. UNCHANGED <<traceVars, callVars, low, high>> /\ phase = "waiting" /\ Settled
        BY <1>7 DEF OperationEnds, OperationOutcome
    <2>2. CASE phase' = "running" /\ UNCHANGED fatal
        BY <1>2, <2>1, <2>2 DEF callVars
    <2>3. CASE \E error \in {"interrupt", "deadline"} : FailRun(error, NoEvent)
        BY <1>5, <2>1, <2>3 DEF FailRun, Errors
    <2>4. CASE \E c \in Operation : IsFirst(c, Failed) /\ FailRun(err[c], CauseOf(c))
        <3>1. PICK c \in Operation : IsFirst(c, Failed) /\ FailRun(err[c], CauseOf(c))
            BY <2>4
        <3>2. c \in Calls /\ err[c] # "none" /\ pc[c] \in {"done", "cancelled"}
            <4>1. c \in low..high /\ low \in 1..(high + 1) /\ high \in 0..NCalls
                BY DEF Operation, EngineInv, Numbering, CallsTypeOK
            <4>2. c \in Calls
                BY <4>1, NCallsAssumption DEF Calls
            <4> QED  BY <2>1, <3>1, <4>2 DEF IsFirst, Failed, Settled
        <3>3. err[c] \in Errors \ {"none"}
            BY <3>2 DEF EngineInv, CallsTypeOK
        <3> QED  BY <1>5, <2>1, <3>1, <3>2, <3>3 DEF FailRun
    <2> QED  BY <1>7, <2>2, <2>3, <2>4 DEF OperationEnds, OperationOutcome
<1>8. CASE StartRun
    <2>1. /\ Emit("run.started", Root, NoCall, NoEvent, TRUE) /\ UNCHANGED <<callVars, fatal>>
          /\ phase = "starting" /\ phase' = "running"
        BY <1>8 DEF StartRun
    <2>2. "run.started" \in RunTypes /\ "run.started" \in EventTypes
          /\ NoEvent \in Nat \cup {NoEvent} /\ Recorded /\ Len(lines) = 0 /\ TRUE \in BOOLEAN
        BY <2>1 DEF RunTypes, EventTypes, TraceInv, Framed
    <2>3. Recorded' /\ \A d \in Calls : EventsOf(d)' /\ EventsAtPlace(d)'
        BY <2>1, <2>2, RunEvent
    <2>4. /\ Len(lines') = 1 /\ Positions' = Positions \cup {1}
          /\ lines'[1].type = "run.started" /\ ~closed /\ UNCHANGED closed
        <3>1. Len(lines) + 1 = 1
            BY <2>2
        <3> QED  BY <2>1, <2>2, <3>1, EmitEffects DEF RunTypes
    <2>5. Positions = {}
        BY <2>2 DEF Positions, Recorded
    <2>6. lines' # <<>>
        BY <2>4
    <2>7. \A i \in Positions' : ~Final(lines[i])'
        BY <2>4, <2>5 DEF Final
    <2>8. Framed'
        BY <2>1, <2>4, <2>5, <2>6, <2>7 DEF TraceInv, Framed
    <2> QED  BY <2>1, <2>3, <2>8 DEF TraceInv, Surfacing
<1>9. CASE CompleteRun
    <2>1. /\ Emit("run.completed", Root, NoCall, 0, TRUE) /\ UNCHANGED <<callVars, fatal>>
          /\ phase = "running" /\ phase' = "closing"
        BY <1>9 DEF CompleteRun
    <2>2. fatal.error = "none"
        BY <2>1 DEF TraceInv, Framed
    <2>3. Recorded' /\ \A d \in Calls : EventsOf(d)' /\ EventsAtPlace(d)'
        BY <2>1, RunEvent DEF RunTypes
    <2>4. Framed'
        BY <2>1, <2>2, FinalEvent
    <2> QED  BY <2>1, <2>2, <2>3, <2>4 DEF TraceInv, Surfacing
<1>10. CASE FailedRun
    <2> DEFINE parent == IF fatal.cause # NoEvent THEN fatal.cause ELSE 0
    <2>1. /\ Emit("run.failed", Root, NoCall, parent, TRUE) /\ UNCHANGED <<callVars, fatal, low, high>>
          /\ phase = "failing" /\ phase' = "closing"
        BY <1>10 DEF FailedRun
    <2>2. fatal.error # "none"
        BY <2>1 DEF TraceInv, Framed
    <2>3. parent \in Nat
        BY <2>1 DEF Emit, ParentValid, TraceInv, Framed, Recorded
    <2> HIDE DEF parent
    <2>4. /\ Recorded'
          /\ \A d \in Calls : SameEvents(d) /\ EventsOf(d)' /\ EventsAtPlace(d)'
        BY <2>1, <2>3, RunEvent DEF RunTypes
    <2>5. Framed' /\ lines'[Len(lines')].parent = parent
        BY <2>1, <2>2, <2>3, FinalEvent
    <2>6. Surfacing'
        <3> SUFFICES ASSUME fatal.error \in {"upstream", "protocol", "token_limit", "status"}
                     PROVE  Surfacing'
            BY <2>1 DEF Surfacing
        <3>1. PICK c \in Operation : /\ HasFailed(c) /\ fatal.cause = IdOf("model.failed", c)
                                     /\ \A d \in Operation : d < c => err[d] = "none"
            BY <2>1 DEF TraceInv, Surfacing
        <3>2. c \in Calls /\ Operation' = Operation
            <4>1. c \in low..high /\ low \in 1..(high + 1) /\ high \in 0..NCalls
                BY DEF Operation, EngineInv, Numbering, CallsTypeOK
            <4> QED  BY <2>1, <4>1, NCallsAssumption DEF Operation, Calls
        <3>3. HasFailed(c)' /\ IdOf("model.failed", c)' = IdOf("model.failed", c)
            BY <2>4, <3>1, <3>2 DEF SameEvents, HasFailed, ModelTypes
        <3>4. parent = fatal.cause
            BY <3>1, IdOfSome DEF parent, HasFailed, TraceInv
        <3> QED  BY <2>1, <2>5, <3>1, <3>2, <3>3, <3>4 DEF Surfacing, callVars
    <2> QED  BY <2>4, <2>5, <2>6 DEF TraceInv
<1>11. CASE CloseRun
    <2>1. /\ UNCHANGED <<lines, nextId, known, callVars, fatal, low, high, ledgerVars>>
          /\ phase = "closing" /\ phase' = "closed" /\ closed'
        BY <1>11 DEF CloseRun, Close
    <2>2. Recorded'
        BY <2>1, LinesRest DEF TraceInv, Recorded, IdsOrdered
    <2>3. \A d \in Calls : EventsOf(d)' /\ EventsAtPlace(d)'
        BY <2>1, EventsKept, PlaceKept, LinesRestSame DEF TraceInv, callVars
    <2>4. ManifestAgrees'
        <3>1. /\ manifest' = [status |-> IF fatal.error = "none" THEN "completed" ELSE "failed",
                              active |-> active, peak |-> peak, maxParallel |-> MaxParallel,
                              modelCalls |-> modelCalls, maxModelCalls |-> MaxModelCalls,
                              subcalls |-> subcalls, maxSubcalls |-> MaxSubcalls,
                              unreported |-> unreported]
            BY <1>11 DEF CloseRun, Close
        <3>2. manifest' # NoManifest
            BY <3>1 DEF NoManifest
        <3>3. active = 0 /\ peak <= MaxParallel /\ modelCalls <= MaxModelCalls
              /\ subcalls <= MaxSubcalls
            BY <2>1 DEF QuietAtEnd, LedgerSound, Proven!CeilingHeld, Proven!StatsAcceptable
        <3>4. unreported <= modelCalls
            BY DEF LedgerSound
        <3>5. manifest'.status = "completed" <=> lines'[Len(lines')].type = "run.completed"
            BY <2>1, <3>1 DEF TraceInv, Framed
        <3> QED  BY <3>1, <3>2, <3>3, <3>4, <3>5 DEF ManifestAgrees
    <2>5. Framed'
        BY <2>1, <2>4, LinesRest DEF TraceInv, Framed, Final
    <2>6. Surfacing'
        BY <2>1, LinesRest DEF TraceInv, Surfacing, Operation, HasFailed, callVars
    <2> QED  BY <2>2, <2>3, <2>5, <2>6 DEF TraceInv
<1> QED  BY <1>1, <1>3, <1>4, <1>6, <1>7, <1>8, <1>9, <1>10, <1>11 DEF EngineStep, CellStep

\* Initially nothing is written and nothing is asked for.
LEMMA TraceInitially == Init => TraceInv
<1> SUFFICES ASSUME Init PROVE TraceInv
    OBVIOUS
<1>1. /\ lines = <<>> /\ nextId = 0 /\ known = {} /\ phase = "starting" /\ ~closed
      /\ fatal.error = "none" /\ \A c \in Calls : pc[c] = "unused"
    BY DEF Init, TraceInit
<1>2. lines \in Seq(Events) /\ Positions = {} /\ Len(lines) = 0
    BY <1>1 DEF Positions
<1>3. Recorded
    BY <1>1, <1>2 DEF Recorded, IdsOrdered
<1>4. Framed
    BY <1>1, <1>2 DEF Framed
<1>5. \A t, d : At(t, d) = {}
    BY <1>2 DEF At
<1>6. \A c \in Calls : EventsOf(c) /\ EventsAtPlace(c)
    BY <1>1, <1>5
       DEF EventsOf, EventsAtPlace, Requested, Answered, HasFailed, AtMostOne, Unmade, Calling
<1> QED  BY <1>1, <1>3, <1>4, <1>6 DEF TraceInv, Surfacing

\* The trace of a run always has exactly the events that the places of its calls
\* and of the engine's thread call for (every event written by engine.py).
THEOREM TraceInvariant == Spec => []TraceInv
<1>1. EngineInv /\ EngineInv' /\ LedgerSound /\ QuietAtEnd /\ TraceInv /\ [Next]_vars => TraceInv'
    BY CallStepsTrace, EngineStepsTrace DEF Next, Interrupt, Terminated
<1> QED  BY <1>1, TraceInitially, EngineInvariant, LedgerHolds, QuietAtTheEnd, PTL DEF Spec

\* A set with at most one member that has one has no other.
LEMMA OneOf == ASSUME NEW S, AtMostOne(S), NEW x \in S PROVE S = {x} /\ Cardinality(S) = 1
<1>1. S = {x}
    BY DEF AtMostOne
<1> QED  BY <1>1, FS_Singleton

\* A set with at most one member has no more, as a cardinality.
LEMMA AtMostOneOf == ASSUME NEW S, AtMostOne(S) PROVE Cardinality(S) <= 1
<1>1. CASE S = {}
    BY <1>1, FS_EmptySet
<1>2. CASE S # {}
    BY <1>2, OneOf
<1> QED  BY <1>1, <1>2

\* trace_reader.py:164-220.  The reader accepts every trace that a run closed,
\* for any number of calls and workers: numbered lines, causal parents that come
\* earlier, one start and one end, every request with its one outcome, and a
\* manifest whose counters agree (TraceRecorder.event and close, run,
\* _call_model).
THEOREM ClosedTraceAccepted == Spec => []ClosedTraceCoherent
<1>1. EngineInv /\ TraceInv => ClosedTraceCoherent
    <2> SUFFICES ASSUME EngineInv, TraceInv, closed
                 PROVE  IdsOrdered /\ OneStartOneEnd /\ CallsCoherent /\ ManifestAgrees
        BY DEF ClosedTraceCoherent
    <2>1. Recorded /\ Framed /\ phase = "closed" /\ IdsOrdered /\ ManifestAgrees
        BY DEF TraceInv, Recorded, Framed
    <2>2. OneStartOneEnd
        <3>1. Len(lines) \in Nat \ {0} /\ Positions = 1..Len(lines)
            BY <2>1 DEF Recorded, Framed, Positions
        <3>2. {i \in Positions : lines[i].type = "run.started"} = {1}
            BY <2>1, <3>1 DEF Framed
        <3>3. {i \in Positions : Final(lines[i])} = {Len(lines)}
            BY <2>1, <3>1 DEF Framed
        <3>4. Cardinality({1}) = 1
            BY FS_Singleton
        <3> QED  BY <3>2, <3>3, <3>4 DEF OneStartOneEnd
    <2>3. CallsCoherent
        <3> SUFFICES ASSUME NEW c \in CallsIn PROVE CallCoherent(c)
            BY DEF CallsCoherent
        <3>1. PICK i \in Positions : lines[i].call = c /\ c # NoCall
            BY DEF CallsIn
        <3>2. lines[i] \in Events
            BY <2>1 DEF Recorded, Positions
        <3>3. c \in Calls /\ lines[i].type \in ModelTypes
            BY <2>1, <3>1, <3>2 DEF Recorded, Events, EventTypes, RunTypes, ModelTypes
        <3>4. EventsOf(c) /\ EventsAtPlace(c)
            BY <3>3 DEF TraceInv
        <3>5. Requested(c)
            BY <3>1, <3>3, <3>4 DEF EventsOf, Requested, Answered, HasFailed, At, ModelTypes
        <3>6. pc[c] = "done"
            BY <2>1, <3>3, <3>4, <3>5 DEF EngineInv, Numbering, Over, EventsAtPlace, Unmade
        <3>7. /\ Answered(c) \/ HasFailed(c)
              /\ ~HasFailed(c) => \A j \in At("model.response", c) : lines[j].good
            BY <3>4, <3>5, <3>6 DEF EventsAtPlace
        <3>8. /\ Cardinality(At("model.request", c)) = 1
              /\ Cardinality(At("model.response", c)) <= 1
              /\ Cardinality(At("model.failed", c)) <= 1
            BY <3>4, <3>5, OneOf, AtMostOneOf DEF EventsOf, Requested
        <3> QED  BY <3>4, <3>7, <3>8 DEF CallCoherent, EventsOf, Answered, HasFailed
    <2> QED  BY <2>1, <2>2, <2>3
<1> QED  BY <1>1, EngineInvariant, TraceInvariant, PTL

\* engine.py:845-852.  A batch that fails ends its run with the failure of the
\* first failed call in request order, whichever failed first in time, and the
\* run's last event names that call's model.failed (_parallel_map, run).
THEOREM FirstFailureIsTheRuns == Spec => []FirstFailureSurfaces
<1>1. EngineInv /\ TraceInv => FirstFailureSurfaces
    <2> SUFFICES ASSUME EngineInv, TraceInv, closed,
                        fatal.error \in {"upstream", "protocol", "token_limit", "status"}
                 PROVE  LET failures == {c \in Operation : At("model.failed", c) # {}}
                        IN  /\ failures # {}
                            /\ \E c \in failures :
                                  /\ \A d \in Operation : d < c => err[d] = "none"
                                  /\ lines[Len(lines)].parent = IdOf("model.failed", c)
        BY DEF FirstFailureSurfaces
    <2>1. phase = "closed"
        BY DEF TraceInv, Framed
    <2>2. PICK c \in Operation : /\ HasFailed(c)
                                 /\ \A d \in Operation : d < c => err[d] = "none"
                                 /\ lines[Len(lines)].parent = IdOf("model.failed", c)
        BY <2>1 DEF TraceInv, Surfacing
    <2> QED  BY <2>2 DEF HasFailed
<1> QED  BY <1>1, EngineInvariant, TraceInvariant, PTL
=============================================================================
