----------------------------- MODULE RunLedger -----------------------------
(***************************************************************************)
(* The ledger under concurrent callers.  A caller is a thread inside       *)
(* RLM._call_model (src/src/rlm/engine.py:755-840): it reserves a model    *)
(* call, takes a slot, calls the backend, gives the slot back, checks the  *)
(* deadline again and records the usage of the response.  A step ends      *)
(* wherever the code releases a lock, blocks, or reads the clock, so two   *)
(* callers interleave at every point where they can in the program.        *)
(***************************************************************************)
EXTENDS Ledger

CONSTANTS
    Threads,        \* the engine's thread and the pool workers
    BatchSizes,     \* the counts reserve_subcalls is asked for
    MaxClock        \* bound of the clock, past every deadline

ASSUME ThreadsAssumption == IsFiniteSet(Threads)
ASSUME BatchSizesAssumption == BatchSizes \subseteq Nat
ASSUME MaxClockAssumption == MaxClock \in Nat /\ MaxClock > Deadline

VARIABLES
    pc,             \* where each caller is
    wait,           \* the acquire timeout read, then the tick acquire ends at
    outcome,        \* how the caller's current or last call ended
    arrived         \* the tick at which the backend answered

vars == <<ledgerVars, pc, wait, outcome, arrived>>

Where == {"idle", "reserved", "checked", "timed", "waiting", "acquired",
          "entered", "backend", "exiting", "releasing", "returned", "recording"}

Outcomes == {"none", "pending", "ok", "deadline", "call_limit", "cell_timeout",
             "upstream", "protocol", "token_limit"}

InSlot == {"entered", "backend", "exiting"}
WithPermit == InSlot \cup {"acquired", "releasing"}
InCall == Where \ {"idle"}

\* The callers that hold a permit, those that count as active, and those
\* whose reserved call has not ended.
Holders == {t \in Threads : pc[t] \in WithPermit}
Entered == {t \in Threads : pc[t] \in InSlot}
Open == {t \in Threads : pc[t] \in InCall}

TypeOK ==
    /\ LedgerTypeOK
    /\ pc \in [Threads -> Where]
    /\ wait \in [Threads -> Nat]
    /\ outcome \in [Threads -> Outcomes]
    /\ arrived \in [Threads -> Nat]

Init ==
    /\ LedgerInit
    /\ pc = [t \in Threads |-> "idle"]
    /\ wait = [t \in Threads |-> 0]
    /\ outcome = [t \in Threads |-> "none"]
    /\ arrived = [t \in Threads |-> 0]

-----------------------------------------------------------------------------
Goto(t, from, to) == pc[t] = from /\ pc' = [pc EXCEPT ![t] = to]

Raise(t, error) == outcome' = [outcome EXCEPT ![t] = error]

\* Without a response there is no arrival; the ledger is not touched.
Move(t, from, to) == Goto(t, from, to) /\ UNCHANGED <<ledgerVars, wait, outcome, arrived>>

\* The call raises before or after the slot and the caller is done with it.
FailCall(t, from, error) ==
    /\ Goto(t, from, "idle")
    /\ Raise(t, error)
    /\ UNCHANGED <<ledgerVars, wait, arrived>>

Tick ==
    /\ clock < MaxClock
    /\ clock' = clock + 1
    /\ UNCHANGED <<counters, pc, wait, outcome, arrived>>

(* Reservations *)

ReserveBatch(t, n) ==
    /\ pc[t] = "idle"
    /\ CanReserveSubcalls(n)
    /\ ReserveSubcalls(n)
    /\ UNCHANGED <<pc, wait, outcome, arrived>>

BeginCall(t) ==
    /\ CanReserveModelCall
    /\ ReserveModelCall
    /\ Goto(t, "idle", "reserved")
    /\ Raise(t, "pending")
    /\ arrived' = [arrived EXCEPT ![t] = 0]
    /\ UNCHANGED wait

RefuseCall(t) ==
    /\ ~CanReserveModelCall
    /\ FailCall(t, "idle", IF Expired THEN "deadline" ELSE "call_limit")

(* model_slot, up to the yield *)

CheckSlot(t) ==
    \/ ~Expired /\ Move(t, "reserved", "checked")
    \/ Expired /\ FailCall(t, "reserved", "deadline")

ReadRemaining(t) ==
    /\ Goto(t, "checked", "timed")
    /\ wait' = [wait EXCEPT ![t] = Remaining]
    /\ UNCHANGED <<ledgerVars, outcome, arrived>>

Acquire(t, from) ==
    /\ TakePermit
    /\ Goto(t, from, "acquired")
    /\ UNCHANGED <<wait, outcome, arrived>>

AcquireAtOnce(t) == Acquire(t, "timed")

\* acquire() instead of acquire(timeout=remaining): the wait has no end.
BeginWaitFault(t) ==
    /\ permits = 0
    /\ Goto(t, "timed", "waiting")
    /\ wait' = [wait EXCEPT ![t] = MaxClock + 1]
    /\ UNCHANGED <<ledgerVars, outcome, arrived>>

\* acquire measures its timeout from here, not from where it was computed:
\* a caller delayed between the two waits past the deadline by the delay.
BeginWait(t) ==
    /\ permits = 0
    /\ Goto(t, "timed", "waiting")
    /\ wait' = [wait EXCEPT ![t] =
                    IF clock + wait[t] < MaxClock THEN clock + wait[t] ELSE MaxClock]
    /\ UNCHANGED <<ledgerVars, outcome, arrived>>

AcquireAfterWait(t) == Acquire(t, "waiting")

WaitTimeout(t) ==
    /\ permits = 0
    /\ clock >= wait[t]
    /\ FailCall(t, "waiting", "deadline")

\* A late slot is given back and asked for again instead of refused.
EnterOrExpireFault(t) ==
    \/ /\ ~Expired
       /\ EnterSlot
       /\ Goto(t, "acquired", "entered")
       /\ UNCHANGED <<wait, outcome, arrived>>
    \/ /\ Expired
       /\ ReleasePermit
       /\ Goto(t, "acquired", "checked")
       /\ UNCHANGED <<wait, outcome, arrived>>

\* Under the lock: the deadline may have passed while acquire waited.
EnterOrExpire(t) ==
    \/ /\ ~Expired
       /\ EnterSlot
       /\ Goto(t, "acquired", "entered")
       /\ UNCHANGED <<wait, outcome, arrived>>
    \/ /\ Expired
       /\ Goto(t, "acquired", "releasing")
       /\ Raise(t, "deadline")
       /\ UNCHANGED <<ledgerVars, wait, arrived>>

(* The backend call inside the slot *)

StartBackend(t) ==
    \/ ~Expired /\ Move(t, "entered", "backend")
    \/ /\ Expired
       /\ Goto(t, "entered", "exiting")
       /\ Raise(t, "deadline")
       /\ UNCHANGED <<ledgerVars, wait, arrived>>

BackendReturns(t) ==
    /\ Goto(t, "backend", "exiting")
    /\ arrived' = [arrived EXCEPT ![t] = clock]
    /\ UNCHANGED <<ledgerVars, wait, outcome>>

BackendRaises(t) ==
    /\ Goto(t, "backend", "exiting")
    /\ Raise(t, "upstream")
    /\ UNCHANGED <<ledgerVars, wait, arrived>>

\* The cell that asked for the call has a deadline of its own, looked at
\* before the backend starts and after it answers; its clock is not modelled.
CellTimeout(t) ==
    \/ /\ Goto(t, "entered", "exiting")
       /\ Raise(t, "cell_timeout")
       /\ UNCHANGED <<ledgerVars, wait, arrived>>
    \/ FailCall(t, "returned", "cell_timeout")

(* model_slot, after the yield *)

ExitSlot(t) ==
    /\ LeaveSlot
    /\ Goto(t, "exiting", "releasing")
    /\ UNCHANGED <<wait, outcome, arrived>>

ReleaseSlotFault(t) ==
    /\ IF outcome[t] = "pending" THEN ReleasePermit ELSE UNCHANGED ledgerVars
    /\ Goto(t, "releasing", IF outcome[t] = "pending" THEN "returned" ELSE "idle")
    /\ UNCHANGED <<wait, outcome, arrived>>

\* The exception, if there is one, leaves the with statement here.
ReleaseSlot(t) ==
    /\ ReleasePermit
    /\ Goto(t, "releasing", IF outcome[t] = "pending" THEN "returned" ELSE "idle")
    /\ UNCHANGED <<wait, outcome, arrived>>

(* After the slot *)

RecheckDeadlineFault(t) == Move(t, "returned", "recording")

RecheckDeadline(t) ==
    \/ ~Expired /\ Move(t, "returned", "recording")
    \/ Expired /\ FailCall(t, "returned", "deadline")

\* No JSON object, or no valid envelope: the usage is not looked at.
RejectResponse(t) ==
    \/ FailCall(t, "returned", "protocol")
    \/ FailCall(t, "recording", "protocol")

RecordUsage(t, u) ==
    /\ RecordResponse(u)
    /\ Goto(t, "recording", "idle")
    /\ Raise(t, IF RecordError(u) = "none" THEN "ok" ELSE RecordError(u))
    /\ UNCHANGED <<wait, arrived>>

-----------------------------------------------------------------------------
\* What the runtime does by itself once a call has begun; the backend is not
\* part of it.
RuntimeStep(t) ==
    \/ CheckSlot(t)
    \/ ReadRemaining(t)
    \/ AcquireAtOnce(t)
    \/ BeginWait(t)
    \/ AcquireAfterWait(t)
    \/ WaitTimeout(t)
    \/ EnterOrExpire(t)
    \/ StartBackend(t)
    \/ ExitSlot(t)
    \/ ReleaseSlot(t)
    \/ RecheckDeadline(t)
    \/ \E u \in Usages : RecordUsage(t, u)

BackendStep(t) == BackendReturns(t) \/ BackendRaises(t)

CallerStep(t) ==
    \/ \E n \in BatchSizes : ReserveBatch(t, n)
    \/ BeginCall(t)
    \/ RefuseCall(t)
    \/ RuntimeStep(t)
    \/ BackendStep(t)
    \/ CellTimeout(t)
    \/ RejectResponse(t)

Next == Tick \/ \E t \in Threads : CallerStep(t)

Spec == Init /\ [][Next]_vars

\* Time passes and the scheduler runs every ready thread; a backend may
\* still hang for ever, against its contract.
FairSpec == Spec /\ WF_vars(Tick) /\ \A t \in Threads : WF_vars(RuntimeStep(t))

\* The ModelBackend contract: complete returns or raises by its timeout.
HonestBackendSpec == FairSpec /\ \A t \in Threads : WF_vars(BackendStep(t))

-----------------------------------------------------------------------------
(* Properties *)

\* ledger.py:96-127.  Every permit is in the semaphore or with exactly one
\* caller on its way through the slot, whichever way that caller leaves: the
\* refusal after a wait that outlasted the deadline gives the permit back too.
PermitsConserved == permits + Cardinality(Holders) = MaxParallel

\* ledger.py:112-127.  The counter the manifest reports is the number of
\* callers inside, never more than the ceiling, and the recorded peak covers it.
CeilingHeld ==
    /\ active = Cardinality(Entered)
    /\ active <= peak
    /\ peak <= MaxParallel

\* ledger.py:59-94 against trace_reader.py:560-569: whatever the
\* interleaving, a snapshot of the counters is one the trace reader accepts.
\* A recorded unreported response always belongs to a reserved call, and with a
\* token budget no response goes uncounted.
StatsAcceptable ==
    /\ modelCalls <= MaxModelCalls
    /\ subcalls <= MaxSubcalls
    /\ unreported + Cardinality(Open) <= modelCalls
    /\ TokenBudgeted => unreported = 0

\* README.md:223-224: a call whose answer came after the run deadline is
\* rejected, however the caller was delayed on its way out of the slot.
NoLateSuccess ==
    \A t \in Threads : outcome[t] = "ok" => arrived[t] < Deadline

\* ledger.py:135-161.  With a token budget, a call succeeds only while the total,
\* its own response and every concurrent one included, is within the budget.
SuccessWithinBudget ==
    [][\A t \in Threads :
          TokenBudgeted /\ outcome[t] # "ok" /\ outcome'[t] = "ok"
              => tokens' <= MaxTotalTokens]_vars

\* ledger.py:102-109.  A caller waiting for a slot gets one or gives up, even
\* when the backends holding the slots never return.
WaitersLeave == \A t \in Threads : pc[t] = "waiting" ~> pc[t] # "waiting"

\* engine.py:795-840.  With backends that answer or raise, every call ends.
CallsSettle == \A t \in Threads : pc[t] # "idle" ~> pc[t] = "idle"

-----------------------------------------------------------------------------
(* What the ledger promises its callers, see CallGate *)

Gate == INSTANCE CallGate WITH
            Callers <- Threads,
            Budget <- MaxModelCalls,
            Ceiling <- MaxParallel,
            started <- modelCalls,
            admitted <- Open,
            inside <- Entered

GateSpec == Gate!Spec
=============================================================================
