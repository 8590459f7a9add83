-------------------------- MODULE BranchLoopProofs --------------------------
(***************************************************************************)
(* Proofs about BranchLoop, for any depth, number of turns and budgets.    *)
(* Of its conversation:                                                    *)
(*                                                                         *)
(*  - a branch that waits for a child has nothing latched, and where a     *)
(*    branch is says what it may carry (LoopInv); from this follows that   *)
(*    a run keeps what RunVerdict promises;                                *)
(*  - where the branches are says what the trace has of them (TalkInv);    *)
(*    from this follow the acceptance of the trace, the cause of the       *)
(*    failure and what a controller is told.                               *)
(*                                                                         *)
(* Of the branches of a batch, for any tree of them: those that run are    *)
(* inside those that wait for them, deadlines inside those above and       *)
(* failures the first of their batch (BatchInv).                           *)
(*                                                                         *)
(* Of a failure on its way up: which cause and record it carries at each   *)
(* place it comes by (FailInv).                                            *)
(***************************************************************************)
EXTENDS MCBranchLoop, FiniteSetTheorems, SequenceTheorems, WellFoundedInduction, TLAPS

Phases == {"starting", "running", "completing", "failing", "closing", "closed"}

LoopTypes ==
    /\ clock \in Nat /\ modelCalls \in Nat /\ nextId \in Nat /\ branches \in Nat
    /\ phase \in Phases
    /\ mode \in {"repair", "abort"}
    /\ stack \in Seq(Frames)
    /\ raised \in Exceptions /\ fatal \in Exceptions

\* What RLM.run is doing says whether branches are open and how it fared.
RunControl ==
    /\ phase = "running" <=> stack # <<>>
    /\ phase # "running" => raised = NoError
    /\ phase \in {"starting", "running", "completing"} => fatal = NoError
    /\ phase = "failing" => fatal # NoError
    /\ closed <=> phase = "closed"
    /\ raised # NoError => raised.error # "none"

\* A branch with a child waits in a cell that has not failed; branches are
\* numbered as they are started, and then have a conversation.
Waiting ==
    \A k \in 1..Len(stack) :
        /\ stack[k].branch < branches
        /\ stack[k].place # "starting" => stack[k].items # <<>>
        /\ stack[k].place # "turn" => stack[k].turn <= MaxTurns
        /\ k < Len(stack) => stack[k].place = "cell" /\ stack[k].latch = NoError
        /\ \A l \in 1..Len(stack) : k < l => stack[k].branch < stack[l].branch

\* What a frame has wherever a branch may be after it has started.
Sound(f) == f.items # <<>> /\ (f.place # "turn" => f.turn <= MaxTurns)

\* ... and what it has in the middle of a turn.
Going(f) == f.items # <<>> /\ f.turn <= MaxTurns

\* A latched failure is that of a cell that runs or has just ended.
Latched ==
    stack # <<>> /\ Top.latch # NoError =>
        Top.place \in {"cell", "ran"} /\ raised.error # "invalid"

LoopInv == LoopTypes /\ RunControl /\ Waiting /\ Latched

-----------------------------------------------------------------------------
(* Moves of the stack                                                       *)

\* The branch on top of the stack is its last frame.
LEMMA StackTop ==
    ASSUME LoopInv, stack # <<>>
    PROVE  /\ Len(stack) \in Nat \ {0} /\ Len(stack) \in 1..Len(stack)
           /\ Top = stack[Len(stack)] /\ Top \in Frames
           /\ DOMAIN stack = 1..Len(stack)
<1>1. stack \in Seq(Frames)
  BY DEF LoopInv, LoopTypes
<1>2. Len(stack) \in Nat \ {0} /\ Len(stack) \in 1..Len(stack)
  BY <1>1, EmptySeq
<1> QED
  BY <1>1, <1>2, ElementOfSeq, LenProperties DEF Top

\* The branch at n is changed and those above it are gone.
LEMMA Replaced ==
    ASSUME stack \in Seq(Frames), NEW n \in 1..Len(stack), NEW f \in Frames,
           stack' = OnTop(SubSeq(stack, 1, n), f)
    PROVE  /\ stack' \in Seq(Frames) /\ stack' # <<>>
           /\ Len(stack') = n
           /\ stack'[n] = f
           /\ \A k \in 1..n : k # n => stack'[k] = stack[k]
<1> DEFINE s == SubSeq(stack, 1, n)
<1>1. Len(stack) \in Nat /\ n \in Nat /\ 1 \in Int /\ n \in Int /\ 1 <= n
  BY LenProperties
<1>2. \A k \in 1..n : stack[k] \in Frames
  BY <1>1, ElementOfSeq
<1>3. /\ s \in Seq(Frames)
      /\ Len(s) = IF 1 <= n THEN n - 1 + 1 ELSE 0
      /\ \A k \in 1..(n - 1 + 1) : s[k] = stack[1 + k - 1]
  BY <1>1, <1>2, SubSeqProperties
<1> HIDE DEF s
<1>4. s \in Seq(Frames) /\ Len(s) = n /\ n \in 1..Len(s)
      /\ \A k \in 1..n : s[k] = stack[k]
  BY <1>1, <1>3
<1>5. stack' = [s EXCEPT ![n] = f]
  BY <1>4 DEF OnTop, s
<1>6. /\ stack' \in Seq(Frames) /\ Len(stack') = Len(s)
      /\ \A k \in 1..Len(s) : stack'[k] = IF k = n THEN f ELSE s[k]
  <2>1. /\ [s EXCEPT ![n] = f] \in Seq(Frames)
        /\ Len([s EXCEPT ![n] = f]) = Len(s)
        /\ \A k \in 1..Len(s) : [s EXCEPT ![n] = f][k] = IF k = n THEN f ELSE s[k]
    BY <1>4, ExceptSeq
  <2> QED
    BY <1>5, <2>1
<1>7. stack' # <<>>
  BY <1>1, <1>4, <1>6, EmptySeq
<1> QED
  BY <1>4, <1>6, <1>7

\* What every step of an open branch leaves alone.
Within == /\ phase = "running" /\ UNCHANGED <<phase, mode, fatal, closed>>
          /\ clock' \in Nat /\ modelCalls' \in Nat /\ nextId' \in Nat

\* A frame takes the place of the top of the stack, or of one below it.
LEMMA Moves ==
    ASSUME LoopInv, Within, branches' = branches,
           NEW n \in 1..Len(stack), NEW f \in Frames, f.branch = stack[n].branch,
           stack' = OnTop(SubSeq(stack, 1, n), f),
           raised' \in Exceptions, raised' # NoError => raised'.error # "none",
           f.latch # NoError => f.place \in {"cell", "ran"} /\ raised'.error # "invalid",
           Sound(f)
    PROVE  LoopInv' /\ Top' = f
<1>1. /\ stack' \in Seq(Frames) /\ stack' # <<>>
      /\ Len(stack') = n
      /\ stack'[n] = f
      /\ \A k \in 1..n : k # n => stack'[k] = stack[k]
  BY Replaced DEF LoopInv, LoopTypes
<1>2. Len(stack) \in Nat /\ n \in Nat /\ n <= Len(stack)
  BY LenProperties DEF LoopInv, LoopTypes
<1>3. Top' = f
  BY <1>1 DEF Top
<1>4. LoopTypes'
  BY <1>1 DEF LoopInv, LoopTypes, Within
<1>5. RunControl'
  BY <1>1 DEF LoopInv, RunControl, Within
<1>6. Waiting'
  <2>1. \A k \in 1..n : k \in 1..Len(stack) /\ (k # n => k < n)
    BY <1>2
  <2>2. \A k \in 1..n : stack'[k].branch = stack[k].branch
    BY <1>1
  <2>3. \A k \in 1..n : k # n => stack[k].place = "cell" /\ stack[k].latch = NoError
    BY <1>2, <2>1 DEF LoopInv, Waiting
  <2>4. /\ f.place # "starting" => f.items # <<>>
        /\ f.place # "turn" => f.turn <= MaxTurns
    BY DEF Sound
  <2> QED
    BY <1>1, <1>2, <2>1, <2>2, <2>3, <2>4 DEF LoopInv, Waiting
<1>7. Latched'
  BY <1>3 DEF Latched
<1> QED
  BY <1>3, <1>4, <1>5, <1>6, <1>7 DEF LoopInv

\* The top branch goes on.
LEMMA MovesTop ==
    ASSUME LoopInv, Within, branches' = branches, stack # <<>>,
           NEW f \in Frames, f.branch = Top.branch, Become(f),
           raised' \in Exceptions, raised' # NoError => raised'.error # "none",
           f.latch # NoError => f.place \in {"cell", "ran"} /\ raised'.error # "invalid",
           Sound(f)
    PROVE  LoopInv' /\ Top' = f
<1>1. stack = SubSeq(stack, 1, Len(stack)) /\ Len(stack) \in 1..Len(stack)
  BY StackTop, SubSeqFull DEF LoopInv, LoopTypes
<1> QED
  BY <1>1, Moves DEF Become, Top

\* An exception is raised and the stack rests.
LEMMA Leaves ==
    ASSUME LoopInv, Within, branches' = branches, stack # <<>>, UNCHANGED stack,
           raised' \in Exceptions, raised'.error # "none",
           Top.latch # NoError => raised'.error # "invalid"
    PROVE  LoopInv' /\ Top' = Top
<1>1. Top' = Top
  BY DEF Top
<1>2. LoopTypes' /\ RunControl' /\ Waiting'
  BY DEF LoopInv, LoopTypes, RunControl, Waiting, Within
<1> QED
  BY <1>1, <1>2 DEF LoopInv, Latched

\* The stack and the frame that an answer of the host is for.
Asker(s, n) == n \in 1..Len(stack) /\ s = SubSeq(stack, 1, n)
               /\ stack[n].latch = NoError /\ Going(stack[n])

\* A top that waits for nothing may ask for a child or a call.
LEMMA AskerOfTop ==
    ASSUME LoopInv, stack # <<>>, Top.latch = NoError, Top.place \notin {"starting", "turn"}
    PROVE  Asker(stack, Len(stack))
<1>1. Going(stack[Len(stack)])
  BY StackTop DEF LoopInv, Waiting, Sound, Going
<1> QED
  BY <1>1, StackTop, SubSeqFull DEF Asker, LoopInv, LoopTypes

\* So has the frame below the top, which asked for the top's branch.
LEMMA AskerBelow ==
    ASSUME LoopInv, Depth > 0
    PROVE  Asker(Below, Len(stack) - 1) /\ stack # <<>>
<1>1. Len(stack) \in Nat /\ Len(stack) > 1
  BY LenProperties DEF LoopInv, LoopTypes, Depth
<1>2. stack # <<>>
  BY <1>1, EmptySeq DEF LoopInv, LoopTypes
<1>3. Len(stack) - 1 \in 1..Len(stack) /\ Len(stack) - 1 < Len(stack)
  BY <1>1
<1> QED
  BY <1>2, <1>3 DEF Asker, Below, LoopInv, Waiting, Sound, Going

\* What asks is a frame of the stack.
LEMMA AskerIs ==
    ASSUME LoopInv, NEW s, NEW n, Asker(s, n)
    PROVE  Len(s) = n /\ s[Len(s)] = stack[n] /\ stack[n] \in Frames
<1>1. /\ n \in 1..Len(stack) /\ s = SubSeq(stack, 1, n) /\ stack \in Seq(Frames)
      /\ Len(stack) \in Nat
  BY LenProperties DEF Asker, LoopInv, LoopTypes
<1>2. n \in Nat /\ 1 <= n /\ n <= Len(stack)
  BY <1>1
<1>3. \A k \in 1..n : stack[k] \in Frames
  BY <1>1, <1>2, ElementOfSeq
<1>4. Len(s) = (IF 1 <= n THEN n - 1 + 1 ELSE 0) /\ \A k \in 1..(n - 1 + 1) : s[k] = stack[1 + k - 1]
  BY <1>1, <1>2, <1>3, SubSeqProperties
<1> QED
  BY <1>2, <1>3, <1>4

\* No exception is one of the exceptions, without a cause.
LEMMA NoErrorIs == NoError \in Exceptions /\ NoError.error = "none" /\ NoError.cause = NoEvent
BY DEF NoError, Exceptions, Errors, NoEvent

\* Nothing changes in the frame that is asked.
LEMMA Unchanged ==
    ASSUME LoopInv, NEW s, NEW n, Asker(s, n)
    PROVE  OnTop(s, stack[n]) = s
<1>1. /\ n \in 1..Len(stack) /\ s = SubSeq(stack, 1, n) /\ stack \in Seq(Frames)
      /\ Len(stack) \in Nat
  BY LenProperties DEF Asker, LoopInv, LoopTypes
<1>2. n \in Nat /\ 1 <= n /\ n <= Len(stack)
  BY <1>1
<1>3. \A k \in 1..n : stack[k] \in Frames
  BY <1>1, <1>2, ElementOfSeq
<1>4. s \in Seq(Frames)
  BY <1>1, <1>2, <1>3, SubSeqProperties
<1>5. Len(s) = n /\ s[n] = stack[n]
  BY AskerIs
<1>6. DOMAIN s = 1..Len(s) /\ s = [k \in DOMAIN s |-> s[k]]
  BY <1>4, LenProperties
<1> QED
  BY <1>5, <1>6 DEF OnTop

\* A host call raises: in the branch, in the cell, or for good in its latch.
LEMMA HostRaisesMoves ==
    ASSUME LoopInv, Within, branches' = branches, NEW s, NEW n, Asker(s, n),
           NEW e \in Exceptions, e.error # "none", HostRaises(s, e)
    PROVE  /\ LoopInv'
           /\ \/ /\ e.error = "killed" /\ Top' = stack[n]
                 /\ raised' = [error |-> "killed", cause |-> NoEvent]
              \/ /\ e.error = "invalid" /\ Top' = [stack[n] EXCEPT !.place = "cell"]
                 /\ raised' = NoError
              \/ /\ e.error \notin {"killed", "invalid"}
                 /\ Top' = [stack[n] EXCEPT !.place = "cell", !.latch = e]
                 /\ raised' = NoError
<1>1. /\ n \in 1..Len(stack) /\ s = SubSeq(stack, 1, n) /\ stack[n].latch = NoError
      /\ Going(stack[n])
      /\ Len(s) = n /\ s[Len(s)] = stack[n] /\ stack[n] \in Frames
  BY AskerIs DEF Asker
<1>2. CASE e.error = "killed"
  <2>1. stack' = OnTop(SubSeq(stack, 1, n), stack[n]) /\ raised' = [error |-> "killed", cause |-> NoEvent]
    BY <1>1, <1>2, Unchanged DEF HostRaises
  <2>2. raised' \in Exceptions /\ raised'.error # "none"
    BY <2>1 DEF Exceptions, Errors
  <2>3. Sound(stack[n])
    BY <1>1 DEF Sound, Going
  <2> QED
    BY <1>1, <1>2, <2>1, <2>2, <2>3, Moves
<1>3. CASE e.error = "invalid"
  <2> DEFINE f == [stack[n] EXCEPT !.place = "cell"]
  <2>1. f \in Frames /\ f.branch = stack[n].branch /\ f.latch = NoError /\ Sound(f)
    BY <1>1 DEF Frames, Places, Sound, Going
  <2>2. stack' = OnTop(SubSeq(stack, 1, n), f) /\ raised' = NoError
    BY <1>1, <1>3 DEF HostRaises
  <2> HIDE DEF f
  <2>3. LoopInv' /\ Top' = f
    BY <1>1, <2>1, <2>2, NoErrorIs, Moves
  <2> QED
    BY <1>3, <2>2, <2>3 DEF f
<1>4. CASE e.error \notin {"killed", "invalid"}
  <2> DEFINE f == [stack[n] EXCEPT !.place = "cell", !.latch = e]
  <2>1. f \in Frames /\ f.branch = stack[n].branch /\ f.place = "cell" /\ Sound(f)
    BY <1>1 DEF Frames, Places, Sound, Going
  <2>2. stack' = OnTop(SubSeq(stack, 1, n), f) /\ raised' = NoError
    BY <1>1, <1>4 DEF HostRaises
  <2> HIDE DEF f
  <2>3. LoopInv' /\ Top' = f
    BY <1>1, <2>1, <2>2, NoErrorIs, Moves
  <2> QED
    BY <1>4, <2>2, <2>3 DEF f
<1> QED
  BY <1>2, <1>3, <1>4

\* So is the exception of an exceeded limit.
LEMMA LimitIs == Limit \in Exceptions /\ Limit.error = "limit" /\ Limit.cause = NoEvent
BY DEF Limit, Exceptions, Errors

\* A value of the host goes to the cell, or the deadline takes its place.
LEMMA HostReturnsMoves ==
    ASSUME LoopInv, Within, branches' = branches, NEW s, NEW n, Asker(s, n), HostReturns(s)
    PROVE  /\ LoopInv'
           /\ raised' = NoError
           /\ \/ Top' = [stack[n] EXCEPT !.place = "cell"]
              \/ Top' = [stack[n] EXCEPT !.place = "cell", !.latch = Limit]
<1>1. CASE ~Expired
  <2>1. /\ n \in 1..Len(stack) /\ s = SubSeq(stack, 1, n) /\ stack[n].latch = NoError
      /\ Going(stack[n])
        /\ Len(s) = n /\ s[Len(s)] = stack[n] /\ stack[n] \in Frames
    BY AskerIs DEF Asker
  <2> DEFINE f == [stack[n] EXCEPT !.place = "cell"]
  <2>2. f \in Frames /\ f.branch = stack[n].branch /\ f.latch = NoError /\ Sound(f)
    BY <2>1 DEF Frames, Places, Sound, Going
  <2>3. stack' = OnTop(SubSeq(stack, 1, n), f) /\ raised' = NoError
    BY <1>1, <2>1 DEF HostReturns
  <2> HIDE DEF f
  <2>4. LoopInv' /\ Top' = f
    BY <2>1, <2>2, <2>3, NoErrorIs, Moves
  <2> QED
    BY <2>3, <2>4 DEF f
<1>2. CASE Expired
  <2>1. HostRaises(s, Limit)
    BY <1>2 DEF HostReturns
  <2> QED
    BY <2>1, LimitIs, HostRaisesMoves
<1> QED
  BY <1>1, <1>2

-----------------------------------------------------------------------------
(* Every step keeps LoopInv                                                 *)

\* Nothing runs at first.
LEMMA LoopInitially == Init => LoopInv
<1> SUFFICES ASSUME Init PROVE LoopInv
  OBVIOUS
<1>1. stack = <<>> /\ stack \in Seq(Frames) /\ Len(stack) = 0
  BY EmptySeq DEF Init
<1>2. LoopTypes
  BY <1>1, NoErrorIs, RecoveryAssumption DEF Init, LedgerInit, TraceInit, LoopTypes, Phases
<1>3. closed = FALSE
  BY DEF Init, TraceInit
<1> QED
  BY <1>1, <1>2, <1>3 DEF LoopInv, RunControl, Waiting, Latched, Init

\* What a branch that is on its way may do with the recorder and the ledger.
LEMMA WithinTop ==
    ASSUME LoopInv, stack # <<>>, UNCHANGED <<phase, mode, fatal>>,
           UNCHANGED traceVars \/ \E type, branch, call, parent, good :
                                       Emit(type, branch, call, parent, good),
           \/ UNCHANGED ledgerVars
           \/ ReserveModelCall
           \/ ReserveSubcalls(1)
    PROVE  Within
<1>1. phase = "running" /\ nextId \in Nat /\ modelCalls \in Nat /\ clock \in Nat
  BY DEF LoopInv, RunControl, LoopTypes
<1>2. nextId' \in Nat /\ UNCHANGED closed
  <2>1. CASE UNCHANGED traceVars
    BY <1>1, <2>1 DEF traceVars
  <2>2. CASE \E type, branch, call, parent, good : Emit(type, branch, call, parent, good)
    BY <1>1, <2>2 DEF Emit
  <2> QED
    BY <2>1, <2>2
<1>3. clock' \in Nat /\ modelCalls' \in Nat
  BY <1>1 DEF ledgerVars, counters, ReserveModelCall, ReserveSubcalls
<1> QED
  BY <1>1, <1>2, <1>3 DEF Within

\* What is known of a branch that goes on at a place.
LEMMA TopAtIs ==
    ASSUME LoopInv, NEW spot, TopAt(spot)
    PROVE  /\ stack # <<>> /\ raised = NoError /\ Top.place = spot /\ Top \in Frames
           /\ spot \notin {"cell", "ran"} => Top.latch = NoError
           /\ nextId \in Nat /\ modelCalls \in Nat /\ phase = "running"
           /\ spot # "starting" => Top.items # <<>>
           /\ spot # "turn" => Top.turn <= MaxTurns
           /\ spot \notin {"starting", "turn"} => Going(Top)
           /\ Top.items \in Seq(Nat) /\ Top.latch \in Exceptions
           /\ Top.cause \in Nat /\ Top.turn \in Nat /\ Top.turn >= 1 /\ Top.branch \in Nat
<1>1. stack # <<>> /\ raised = NoError /\ Top.place = spot /\ Top \in Frames
  BY StackTop DEF TopAt
<1>2. Top.items \in Seq(Nat) /\ Top.latch \in Exceptions /\ Top.cause \in Nat
      /\ Top.turn \in 1..(MaxTurns + 1) /\ Top.branch \in Nat
  BY <1>1 DEF Frames
<1>3. Top.turn \in Nat /\ Top.turn >= 1
  BY <1>2
<1>4. /\ spot # "starting" => Top.items # <<>>
      /\ spot # "turn" => Top.turn <= MaxTurns
  BY <1>1, StackTop DEF LoopInv, Waiting
<1> QED
  BY <1>1, <1>2, <1>3, <1>4 DEF LoopInv, LoopTypes, RunControl, Latched, Sound, Going

\* A handler that raises leaves the stack as it is.
LEMMA LeaveMoves ==
    ASSUME LoopInv, Within, branches' = branches, stack # <<>>, raised = NoError,
           NEW error \in Errors \ {"none"}, NEW cause \in Nat \cup {NoEvent},
           Leave(error, cause), Top.latch # NoError => error # "invalid"
    PROVE  LoopInv' /\ Top' = Top /\ raised' = [error |-> error, cause |-> cause]
<1>1. raised' = [error |-> error, cause |-> cause] /\ UNCHANGED stack
  BY DEF Leave
<1>2. raised' \in Exceptions /\ raised'.error = error
  BY <1>1 DEF Exceptions
<1> QED
  BY <1>1, <1>2, Leaves

\* So does one that finds the deadline passed.
LEMMA OutOfTimeMoves ==
    ASSUME LoopInv, Within, branches' = branches, stack # <<>>, raised = NoError,
           OutOfTime, Top.latch = NoError
    PROVE  LoopInv' /\ Top' = Top /\ raised'.error \in {"limit", "killed"}
           /\ raised'.cause = NoEvent
<1>1. {"limit", "killed"} \subseteq Errors \ {"none"} /\ NoEvent \in Nat \cup {NoEvent}
  BY DEF Errors
<1>2. Leave("limit", NoEvent) \/ Leave("killed", NoEvent)
  BY DEF OutOfTime
<1>3. CASE Leave("limit", NoEvent)
  <2>1. LoopInv' /\ Top' = Top /\ raised' = [error |-> "limit", cause |-> NoEvent]
    BY <1>1, <1>3, LeaveMoves
  <2> QED
    BY <2>1
<1>4. CASE Leave("killed", NoEvent)
  <2>1. LoopInv' /\ Top' = Top /\ raised' = [error |-> "killed", cause |-> NoEvent]
    BY <1>1, <1>4, LeaveMoves
  <2> QED
    BY <2>1
<1> QED
  BY <1>2, <1>3, <1>4

\* The top branch goes on without an exception.
LEMMA GoesOn ==
    ASSUME LoopInv, Within, branches' = branches, NEW spot, TopAt(spot),
           NEW f \in Frames, f.branch = Top.branch, Become(f), UNCHANGED raised,
           f.latch # NoError => f.place \in {"cell", "ran"}, Sound(f)
    PROVE  LoopInv' /\ Top' = f /\ raised' = NoError
<1>1. stack # <<>> /\ raised' = NoError
  BY DEF TopAt
<1> QED
  BY <1>1, NoErrorIs, MovesTop

\* Fields that a step gives a frame.
LEMMA FrameChanges ==
    ASSUME NEW f \in Frames, NEW spot \in Places, NEW n \in Nat, NEW m \in Nat
    PROVE  /\ [f EXCEPT !.place = spot] \in Frames
           /\ [f EXCEPT !.place = spot, !.cause = n] \in Frames
           /\ [f EXCEPT !.place = spot, !.call = n] \in Frames
           /\ [f EXCEPT !.place = spot, !.role = "subcall"] \in Frames
           /\ [f EXCEPT !.role = "controller"] \in Frames
           /\ [f EXCEPT !.place = spot, !.cause = n, !.items = <<n>>] \in Frames
           /\ [f EXCEPT !.place = spot, !.action = n, !.latch = NoError,
                        !.result = "nothing"] \in Frames
<1>1. <<n>> \in Seq(Nat)
  OBVIOUS
<1> QED
  BY <1>1, NoErrorIs DEF Frames, Results

\* What every step inside a branch has in common.
Inside(spot) ==
    /\ TopAt(spot)
    /\ UNCHANGED <<phase, mode, fatal, branches>>
    /\ \/ UNCHANGED traceVars
       \/ \E type, branch, call, parent, good : Emit(type, branch, call, parent, good)
    /\ UNCHANGED ledgerVars \/ ReserveModelCall \/ ReserveSubcalls(1)

\* What is known inside a branch at a place, before its deadline.
LEMMA InsideIs ==
    ASSUME LoopInv, NEW spot, Inside(spot)
    PROVE  /\ Within /\ branches' = branches /\ stack # <<>> /\ raised = NoError
           /\ Top \in Frames /\ Top.place = spot
           /\ spot \notin {"cell", "ran"} => Top.latch = NoError
           /\ spot # "starting" => Top.items # <<>>
           /\ spot # "turn" => Top.turn <= MaxTurns
           /\ spot \notin {"starting", "turn"} => Going(Top)
           /\ nextId \in Nat /\ modelCalls \in Nat
BY TopAtIs, WithinTop DEF Inside

\* The handlers from the start of a branch to that of a cell keep the invariant.
LEMMA OpeningSteps ==
    ASSUME LoopInv, StartBranch \/ OpenExecutor \/ TurnsExhausted \/ StartCell
    PROVE  LoopInv'
<1>1. CASE StartBranch
  <2>1. Inside("starting")
    BY <1>1 DEF Inside, StartBranch, Log
  <2>2. Within /\ branches' = branches /\ Top \in Frames /\ Top.latch = NoError
        /\ nextId \in Nat /\ stack # <<>> /\ raised = NoError /\ Top.turn <= MaxTurns
    BY <2>1, InsideIs
  <2>3. CASE Become([Top EXCEPT !.place = "opening", !.cause = nextId, !.items = <<nextId>>])
             /\ UNCHANGED raised
    <3> DEFINE f == [Top EXCEPT !.place = "opening", !.cause = nextId, !.items = <<nextId>>]
    <3>1. f \in Frames
      BY <2>2, FrameChanges DEF Places
    <3>2. f.branch = Top.branch /\ f.latch = NoError /\ Sound(f)
      BY <2>2 DEF Frames, Sound, Going
    <3> HIDE DEF f
    <3> QED
      BY <1>1, <2>2, <2>3, <3>1, <3>2, GoesOn DEF StartBranch, f
  <2>4. CASE OutOfTime
    BY <2>2, <2>4, OutOfTimeMoves
  <2> QED
    BY <1>1, <2>3, <2>4 DEF StartBranch
<1>2. CASE OpenExecutor
  <2>1. Inside("opening")
    BY <1>2 DEF Inside, OpenExecutor
  <2>2. Within /\ branches' = branches /\ Top \in Frames /\ Top.latch = NoError
        /\ stack # <<>> /\ raised = NoError /\ Going(Top)
    BY <2>1, InsideIs
  <2>3. CASE Become([Top EXCEPT !.place = "turn"]) /\ UNCHANGED raised
    <3> DEFINE f == [Top EXCEPT !.place = "turn"]
    <3>1. f \in Frames /\ f.branch = Top.branch /\ f.latch = NoError /\ Sound(f)
      BY <2>2 DEF Frames, Places, Sound, Going
    <3> HIDE DEF f
    <3> QED
      BY <1>2, <2>2, <2>3, <3>1, GoesOn DEF OpenExecutor, f
  <2>4. CASE OutOfTime
    BY <2>2, <2>4, OutOfTimeMoves
  <2>5. CASE \E error \in {"killed", "executor"} : Leave(error, NoEvent)
    <3>1. PICK error \in {"killed", "executor"} : Leave(error, NoEvent)
      BY <2>5
    <3>2. error \in Errors \ {"none"} /\ error # "invalid" /\ NoEvent \in Nat \cup {NoEvent}
      BY DEF Errors
    <3> QED
      BY <2>2, <3>1, <3>2, LeaveMoves
  <2> QED
    BY <1>2, <2>3, <2>4, <2>5 DEF OpenExecutor
<1>3. CASE TurnsExhausted
  <2>1. Inside("turn") /\ Leave("limit", NoEvent)
    BY <1>3 DEF Inside, TurnsExhausted
  <2>2. "limit" \in Errors \ {"none"} /\ NoEvent \in Nat \cup {NoEvent}
    BY DEF Errors
  <2> QED
    BY <2>1, <2>2, InsideIs, LeaveMoves
<1>4. CASE StartCell
  <2>1. Inside("launch")
    BY <1>4 DEF Inside, StartCell
  <2>2. Within /\ branches' = branches /\ Top \in Frames /\ Top.latch = NoError
        /\ stack # <<>> /\ raised = NoError /\ Going(Top)
    BY <2>1, InsideIs
  <2>3. CASE Become([Top EXCEPT !.place = "cell"]) /\ UNCHANGED raised
    <3> DEFINE f == [Top EXCEPT !.place = "cell"]
    <3>1. f \in Frames /\ f.branch = Top.branch /\ f.latch = NoError /\ Sound(f)
      BY <2>2 DEF Frames, Places, Sound, Going
    <3> HIDE DEF f
    <3> QED
      BY <1>4, <2>2, <2>3, <3>1, GoesOn DEF StartCell, f
  <2>4. CASE OutOfTime
    BY <2>2, <2>4, OutOfTimeMoves
  <2> QED
    BY <1>4, <2>3, <2>4 DEF StartCell
<1> QED
  BY <1>1, <1>2, <1>3, <1>4

\* A request of a model call by the frame f, which is the top one but for its role.
LEMMA RequestMoves ==
    ASSUME LoopInv, Within, branches' = branches, NEW spot, TopAt(spot), Top.latch = NoError,
           spot # "starting", Top.turn <= MaxTurns,
           NEW f \in {[Top EXCEPT !.role = "controller"], Top}, NEW parent, Request(f, parent)
    PROVE  /\ LoopInv' /\ raised' = NoError
           /\ Top' = [f EXCEPT !.place = "asked", !.call = modelCalls + 1]
<1>1. Top \in Frames /\ modelCalls + 1 \in Nat /\ Top.items # <<>>
  BY TopAtIs
<1>2. f \in Frames /\ f.branch = Top.branch /\ f.latch = NoError /\ f.items = Top.items
      /\ f.turn <= MaxTurns
  <2>1. CASE f = Top
    BY <1>1, <2>1
  <2>2. CASE f = [Top EXCEPT !.role = "controller"]
    BY <1>1, <2>2 DEF Frames
  <2> QED
    BY <2>1, <2>2
<1> DEFINE g == [f EXCEPT !.place = "asked", !.call = modelCalls + 1]
<1>3. g \in Frames /\ g.branch = Top.branch /\ g.latch = NoError /\ Sound(g)
  BY <1>1, <1>2 DEF Frames, Places, Sound, Going
<1>4. Become(g) /\ UNCHANGED raised
  BY DEF Request
<1> HIDE DEF g
<1>5. LoopInv' /\ Top' = g /\ raised' = NoError
  BY <1>3, <1>4, GoesOn
<1> QED
  BY <1>5 DEF g

\* A conversation of one or two items is one of numbers.
LEMMA ShortItems ==
    ASSUME NEW a \in Nat, NEW b \in Nat
    PROVE  /\ <<a>> \in Seq(Nat) /\ <<a>> # <<>> /\ Len(<<a>>) = 1 /\ <<a>>[1] = a
           /\ <<a, b>> \in Seq(Nat) /\ <<a, b>> # <<>> /\ Len(<<a, b>>) = 2
           /\ <<a, b>>[1] = a /\ <<a, b>>[2] = b
OBVIOUS

\* So do the handlers of a model call and of a value that is returned.
LEMMA CallingSteps ==
    ASSUME LoopInv, ControllerTurn \/ AskModel \/ CallResponds \/ CallFails
                    \/ CallSucceeds \/ ReturnValue
    PROVE  LoopInv'
<1>1. CASE ControllerTurn
  <2>1. Inside("turn")
    BY <1>1 DEF Inside, ControllerTurn, Request, Log, Leave
  <2>2. Within /\ branches' = branches /\ Top.latch = NoError /\ TopAt("turn")
        /\ Top.place = "turn" /\ stack # <<>> /\ raised = NoError
    BY <2>1, InsideIs DEF Inside
  <2>3. CASE Request([Top EXCEPT !.role = "controller"], Top.cause)
    <3>1. Top.turn <= MaxTurns
      BY <1>1 DEF ControllerTurn, TurnsLeft
    <3> QED
      BY <2>2, <2>3, <3>1, RequestMoves
  <2>4. CASE Leave("limit", NoEvent)
    <3>1. "limit" \in Errors \ {"none"} /\ NoEvent \in Nat \cup {NoEvent}
      BY DEF Errors
    <3> QED
      BY <2>2, <2>4, <3>1, LeaveMoves
  <2> QED
    BY <1>1, <2>3, <2>4 DEF ControllerTurn
<1>2. CASE AskModel
  <2>1. Inside("asking")
    BY <1>2 DEF Inside, AskModel, Request, Log
  <2>2. Within /\ branches' = branches /\ Top.latch = NoError /\ TopAt("asking")
        /\ Top.place = "asking" /\ stack # <<>> /\ raised = NoError /\ Top.turn <= MaxTurns
    BY <2>1, InsideIs DEF Inside
  <2>3. CASE Request(Top, Top.action)
    BY <2>2, <2>3, RequestMoves
  <2>4. CASE HostRaises(stack, Limit)
    BY <2>2, <2>4, AskerOfTop, LimitIs, HostRaisesMoves
  <2> QED
    BY <1>2, <2>3, <2>4 DEF AskModel
<1>3. CASE CallResponds
  <2>1. Inside("asked") /\ Become([Top EXCEPT !.place = "answered", !.cause = nextId])
        /\ UNCHANGED raised
    BY <1>3 DEF Inside, CallResponds, Log
  <2>2. Within /\ branches' = branches /\ Top \in Frames /\ Top.latch = NoError /\ nextId \in Nat
        /\ TopAt("asked") /\ Going(Top)
    BY <2>1, InsideIs DEF Inside
  <2> DEFINE f == [Top EXCEPT !.place = "answered", !.cause = nextId]
  <2>3. f \in Frames /\ f.branch = Top.branch /\ f.latch = NoError /\ Sound(f)
    BY <2>2 DEF Frames, Places, Sound, Going
  <2> HIDE DEF f
  <2> QED
    BY <2>1, <2>2, <2>3, GoesOn DEF f
<1>4. CASE CallFails
  <2>1. PICK spot \in {"asked", "answered"} : Inside(spot)
    BY <1>4 DEF Inside, CallFails, Log
  <2>2. Within /\ branches' = branches /\ Top.latch = NoError /\ nextId \in Nat
        /\ stack # <<>> /\ raised = NoError /\ Top.place \notin {"starting", "turn"}
    BY <2>1, InsideIs
  <2>3. PICK error \in FailureOfCall :
           IF Top.role = "controller" THEN Leave(error, nextId)
           ELSE HostRaises(stack, [error |-> error, cause |-> nextId])
    BY <1>4 DEF CallFails
  <2>4. error \in Errors \ {"none"} /\ [error |-> error, cause |-> nextId] \in Exceptions
    BY <2>2 DEF FailureOfCall, Errors, Exceptions
  <2>5. CASE Leave(error, nextId)
    BY <2>2, <2>4, <2>5, LeaveMoves
  <2>6. CASE HostRaises(stack, [error |-> error, cause |-> nextId])
    BY <2>2, <2>4, <2>6, AskerOfTop, HostRaisesMoves
  <2> QED
    BY <2>3, <2>5, <2>6
<1>5. CASE CallSucceeds
  <2>1. Inside("answered") /\ UNCHANGED raised
    BY <1>5 DEF Inside, CallSucceeds
  <2>2. Within /\ branches' = branches /\ Top \in Frames /\ Top.latch = NoError
        /\ TopAt("answered") /\ Top.items \in Seq(Nat) /\ Going(Top) /\ Top.cause \in Nat
    BY <2>1, InsideIs, TopAtIs DEF Inside
  <2>3. CASE Become([Top EXCEPT !.place = "returning"])
    <3> DEFINE f == [Top EXCEPT !.place = "returning"]
    <3>1. f \in Frames /\ f.branch = Top.branch /\ f.latch = NoError /\ Sound(f)
      BY <2>2 DEF Frames, Places, Sound, Going
    <3> HIDE DEF f
    <3> QED
      BY <2>1, <2>2, <2>3, <3>1, GoesOn DEF f
  <2>4. CASE \E items \in ItemsAfterResponse(Top.items, Top.cause) :
                Become([Top EXCEPT !.place = "parse", !.items = items])
    <3>1. PICK items \in ItemsAfterResponse(Top.items, Top.cause) :
                Become([Top EXCEPT !.place = "parse", !.items = items])
      BY <2>4
    <3>2. items \in Seq(Nat) /\ items # <<>>
      <4>1. Top.items[1] \in Nat
        BY <2>2, EmptySeq, ElementOfSeq DEF Sound, Going
      <4>2. items = <<Top.items[1]>> \/ items = <<Top.items[1], Top.cause>>
        BY <3>1 DEF ItemsAfterResponse
      <4>3. CASE items = <<Top.items[1]>>
        BY <2>2, <4>1, <4>3, ShortItems
      <4>4. CASE items = <<Top.items[1], Top.cause>>
        BY <2>2, <4>1, <4>4, ShortItems
      <4> QED
        BY <4>2, <4>3, <4>4
    <3> DEFINE f == [Top EXCEPT !.place = "parse", !.items = items]
    <3>3. f \in Frames /\ f.branch = Top.branch /\ f.latch = NoError /\ Sound(f)
      BY <2>2, <3>2 DEF Frames, Places, Sound, Going
    <3> HIDE DEF f
    <3> QED
      BY <2>1, <2>2, <3>1, <3>3, GoesOn DEF f
  <2> QED
    BY <1>5, <2>3, <2>4 DEF CallSucceeds
<1>6. CASE ReturnValue
  <2>1. Inside("returning") /\ HostReturns(stack)
    BY <1>6 DEF Inside, ReturnValue
  <2>2. Within /\ branches' = branches /\ Top.latch = NoError
        /\ stack # <<>> /\ Top.place \notin {"starting", "turn"}
    BY <2>1, InsideIs
  <2> QED
    BY <2>1, <2>2, AskerOfTop, HostReturnsMoves
<1> QED
  BY <1>1, <1>2, <1>3, <1>4, <1>5, <1>6

\* So do those of a cell and of the requests it makes.
LEMMA CellSteps ==
    ASSUME LoopInv, Parse \/ ModelComplete \/ RlmComplete \/ InvalidRequest \/ SubcallRefused
                    \/ CellEnds \/ CellDies
    PROVE  LoopInv'
<1>1. CASE Parse
  <2>1. Inside("parse") /\ UNCHANGED raised
    BY <1>1 DEF Inside, Parse, Log
  <2>2. Within /\ branches' = branches /\ Top \in Frames /\ Top.latch = NoError
        /\ nextId \in Nat /\ TopAt("parse") /\ Going(Top)
    BY <2>1, InsideIs DEF Inside
  <2>3. CASE Become([Top EXCEPT !.place = "recover"])
    <3> DEFINE f == [Top EXCEPT !.place = "recover"]
    <3>1. f \in Frames /\ f.branch = Top.branch /\ f.latch = NoError /\ Sound(f)
      BY <2>2 DEF Frames, Places, Sound, Going
    <3> HIDE DEF f
    <3> QED
      BY <2>1, <2>2, <2>3, <3>1, GoesOn DEF f
  <2>4. CASE Become([Top EXCEPT !.place = "launch", !.action = nextId,
                                !.latch = NoError, !.result = "nothing"])
    <3> DEFINE f == [Top EXCEPT !.place = "launch", !.action = nextId,
                                !.latch = NoError, !.result = "nothing"]
    <3>1. f \in Frames
      BY <2>2, FrameChanges DEF Places
    <3>2. f.branch = Top.branch /\ f.latch = NoError /\ Sound(f)
      BY <2>2 DEF Frames, Sound, Going
    <3> HIDE DEF f
    <3> QED
      BY <2>1, <2>2, <2>4, <3>1, <3>2, GoesOn DEF f
  <2> QED
    BY <1>1, <2>3, <2>4 DEF Parse
<1>2. CASE ModelComplete
  <2>1. Inside("cell") /\ UNCHANGED raised /\ Top.latch = NoError
        /\ Become([Top EXCEPT !.place = "asking", !.role = "subcall"])
    BY <1>2 DEF Inside, ModelComplete, SubcallReserved, HostCalls
  <2>2. Within /\ branches' = branches /\ Top \in Frames /\ TopAt("cell") /\ Going(Top)
    BY <2>1, InsideIs DEF Inside
  <2> DEFINE f == [Top EXCEPT !.place = "asking", !.role = "subcall"]
  <2>3. f \in Frames /\ f.branch = Top.branch /\ f.latch = NoError /\ Sound(f)
    BY <2>1, <2>2 DEF Frames, Places, Sound, Going
  <2> HIDE DEF f
  <2> QED
    BY <2>1, <2>2, <2>3, GoesOn DEF f
<1>3. CASE RlmComplete
  <2>1. TopAt("cell") /\ Top.latch = NoError /\ stack' = Append(stack, NewBranch(Top.action))
        /\ branches' = branches + 1 /\ UNCHANGED <<phase, mode, raised, fatal, closed, nextId>>
        /\ UNCHANGED <<clock, modelCalls>>
    BY <1>3 DEF RlmComplete, SubcallReserved, HostCalls, ReserveSubcalls, traceVars
  <2>2. /\ stack # <<>> /\ raised = NoError /\ Top.place = "cell" /\ Top \in Frames
        /\ phase = "running" /\ Going(Top) /\ branches \in Nat /\ stack \in Seq(Frames)
        /\ Top = stack[Len(stack)] /\ Len(stack) \in 1..Len(stack) /\ Len(stack) \in Nat
    BY <2>1, TopAtIs, StackTop DEF LoopInv, LoopTypes
  <2> DEFINE f == NewBranch(Top.action)
  <2>3. f \in Frames /\ f.branch = branches /\ f.place = "starting" /\ f.latch = NoError
        /\ f.turn <= MaxTurns
    BY <2>2, NoErrorIs, TurnsAssumption, EmptySeq DEF NewBranch, Frames, Places, Results
  <2> HIDE DEF f
  <2>4. /\ stack' \in Seq(Frames) /\ stack' # <<>> /\ Len(stack') = Len(stack) + 1
        /\ \A k \in 1..Len(stack) : stack'[k] = stack[k]
        /\ stack'[Len(stack) + 1] = f
    BY <2>1, <2>2, <2>3, AppendProperties DEF f
  <2>5. Top' = f
    BY <2>4 DEF Top
  <2>6. LoopTypes'
    BY <2>1, <2>2, <2>4 DEF LoopInv, LoopTypes
  <2>7. RunControl'
    BY <2>1, <2>2, <2>4 DEF LoopInv, RunControl
  <2>8. Waiting'
    <3>1. \A k \in 1..Len(stack') : k \in 1..Len(stack) \/ k = Len(stack) + 1
      BY <2>2, <2>4
    <3>2. \A k \in 1..Len(stack) : stack[k].branch < branches /\ branches' > branches
                                  /\ stack[k].place = "cell" /\ stack[k].latch = NoError
                                  /\ stack[k].items # <<>> /\ stack[k].turn <= MaxTurns
                                  /\ stack[k] \in Frames
      BY <2>1, <2>2, ElementOfSeq DEF LoopInv, Waiting
    <3>3. \A k \in 1..Len(stack) : stack[k].branch \in Nat
      BY <3>2 DEF Frames
    <3>4. ASSUME NEW k \in 1..Len(stack')
          PROVE  /\ stack'[k].branch < branches'
                 /\ stack'[k].place # "starting" => stack'[k].items # <<>>
                 /\ stack'[k].place # "turn" => stack'[k].turn <= MaxTurns
                 /\ k < Len(stack') => stack'[k].place = "cell" /\ stack'[k].latch = NoError
      <4>1. CASE k \in 1..Len(stack)
        BY <2>1, <2>2, <2>4, <3>2, <3>3, <4>1
      <4>2. CASE k = Len(stack) + 1
        BY <2>1, <2>2, <2>3, <2>4, <4>2
      <4> QED
        BY <3>1, <4>1, <4>2
    <3>5. ASSUME NEW k \in 1..Len(stack'), NEW l \in 1..Len(stack'), k < l
          PROVE  stack'[k].branch < stack'[l].branch
      <4>1. k \in 1..Len(stack)
        BY <2>2, <2>4, <3>5
      <4>2. CASE l \in 1..Len(stack)
        BY <2>4, <3>5, <4>1, <4>2 DEF LoopInv, Waiting
      <4>3. CASE l = Len(stack) + 1
        BY <2>3, <2>4, <3>2, <4>1, <4>3
      <4> QED
        BY <3>1, <4>2, <4>3
    <3> QED
      BY <3>4, <3>5 DEF Waiting
  <2> QED
    BY <2>3, <2>5, <2>6, <2>7, <2>8 DEF LoopInv, Latched
<1>4. CASE InvalidRequest
  <2>1. UNCHANGED <<clock, modelCalls, nextId, branches, phase, mode, stack, raised, fatal, closed>>
    BY <1>4 DEF InvalidRequest, SubcallReserved, ReserveSubcalls, traceVars, loopVars
  <2> QED
    BY <2>1 DEF LoopInv, LoopTypes, RunControl, Waiting, Latched, Top
<1>5. CASE SubcallRefused
  <2>1. Inside("cell") /\ Top.latch = NoError /\ HostRaises(stack, Limit)
    BY <1>5 DEF Inside, SubcallRefused, HostCalls
  <2>2. Within /\ branches' = branches /\ stack # <<>> /\ Top.place \notin {"starting", "turn"}
    BY <2>1, InsideIs
  <2> QED
    BY <2>1, <2>2, AskerOfTop, LimitIs, HostRaisesMoves
<1>6. CASE CellEnds
  <2>1. Inside("cell") /\ UNCHANGED raised
    BY <1>6 DEF Inside, CellEnds, Log
  <2>2. Within /\ branches' = branches /\ Top \in Frames /\ TopAt("cell") /\ Going(Top)
        /\ nextId \in Nat
    BY <2>1, InsideIs DEF Inside
  <2>3. PICK result \in Results :
           Become([Top EXCEPT !.place = "ran", !.cause = nextId, !.result = result])
    BY <1>6 DEF CellEnds
  <2> DEFINE f == [Top EXCEPT !.place = "ran", !.cause = nextId, !.result = result]
  <2>4. f \in Frames /\ f.branch = Top.branch /\ f.place = "ran" /\ Sound(f)
    BY <2>1, <2>2 DEF Frames, Places, Sound, Going
  <2> HIDE DEF f
  <2> QED
    BY <2>1, <2>2, <2>3, <2>4, GoesOn DEF f
<1>7. CASE CellDies
  <2>1. PICK error \in {"killed", "executor"} : Leave(error, NoEvent)
    BY <1>7 DEF CellDies
  <2>2. Inside("cell")
    BY <1>7 DEF Inside, CellDies
  <2>3. error \in Errors \ {"none"} /\ error # "invalid" /\ NoEvent \in Nat \cup {NoEvent}
    BY DEF Errors
  <2> QED
    BY <2>1, <2>2, <2>3, InsideIs, LeaveMoves
<1> QED
  BY <1>1, <1>2, <1>3, <1>4, <1>5, <1>6, <1>7

\* So do those that follow a cell.
LEMMA AfterCellSteps ==
    ASSUME LoopInv, HostFailure \/ CellFaulty \/ BranchCompletes \/ ExitExecutor \/ Observe
                    \/ Recover \/ Repair
    PROVE  LoopInv'
<1>1. CASE HostFailure
  <2>1. Inside("ran") /\ Leave("remote", Top.latch.cause)
    BY <1>1 DEF Inside, HostFailure
  <2>2. Top.latch.cause \in Nat \cup {NoEvent} /\ "remote" \in Errors \ {"none"}
    BY <2>1, TopAtIs DEF Inside, Exceptions, Errors
  <2> QED
    BY <2>1, <2>2, InsideIs, LeaveMoves
<1>2. CASE CellFaulty
  <2>1. Inside("ran") /\ UNCHANGED raised /\ Become([Top EXCEPT !.place = "recover"])
        /\ Top.latch = NoError
    BY <1>2 DEF Inside, CellFaulty
  <2>2. Within /\ branches' = branches /\ Top \in Frames /\ TopAt("ran") /\ Going(Top)
    BY <2>1, InsideIs DEF Inside
  <2> DEFINE f == [Top EXCEPT !.place = "recover"]
  <2>3. f \in Frames /\ f.branch = Top.branch /\ f.latch = NoError /\ Sound(f)
    BY <2>1, <2>2 DEF Frames, Places, Sound, Going
  <2> HIDE DEF f
  <2> QED
    BY <2>1, <2>2, <2>3, GoesOn DEF f
<1>3. CASE BranchCompletes
  <2>1. Inside("ran") /\ UNCHANGED raised /\ Top.latch = NoError
        /\ Become([Top EXCEPT !.place = "exiting", !.cause = nextId])
    BY <1>3 DEF Inside, BranchCompletes, Log
  <2>2. Within /\ branches' = branches /\ Top \in Frames /\ TopAt("ran") /\ Going(Top)
        /\ nextId \in Nat
    BY <2>1, InsideIs DEF Inside
  <2> DEFINE f == [Top EXCEPT !.place = "exiting", !.cause = nextId]
  <2>3. f \in Frames /\ f.branch = Top.branch /\ f.latch = NoError /\ Sound(f)
    BY <2>1, <2>2 DEF Frames, Places, Sound, Going
  <2> HIDE DEF f
  <2> QED
    BY <2>1, <2>2, <2>3, GoesOn DEF f
<1>4. CASE ExitExecutor
  <2>1. TopAt("exiting") /\ UNCHANGED <<ledgerVars, traceVars, mode, branches, fatal, turns>>
    BY <1>4 DEF ExitExecutor
  <2>2. stack # <<>> /\ raised = NoError /\ Top.latch = NoError /\ phase = "running"
    BY <2>1, TopAtIs
  <2>3. UNCHANGED <<clock, modelCalls, nextId, closed>>
    BY <2>1 DEF ledgerVars, counters, traceVars
  <2>4. CASE Leave("executor", NoEvent) /\ UNCHANGED phase
    <3>1. "executor" \in Errors \ {"none"} /\ NoEvent \in Nat \cup {NoEvent}
      BY DEF Errors
    <3>2. Within
      BY <2>1, <2>2, <2>3, <2>4 DEF Within, LoopInv, LoopTypes
    <3> QED
      BY <2>1, <2>2, <2>4, <3>1, <3>2, LeaveMoves
  <2>5. CASE Depth = 0 /\ phase' = "completing" /\ stack' = <<>> /\ UNCHANGED raised
    <3>1. stack' \in Seq(Frames) /\ Len(stack') = 0
      BY <2>5, EmptySeq
    <3>2. fatal = NoError /\ ~closed
      BY <2>2 DEF LoopInv, RunControl
    <3>3. LoopTypes'
      BY <2>1, <2>2, <2>3, <2>5, <3>1 DEF LoopInv, LoopTypes, Phases
    <3>4. RunControl'
      BY <2>1, <2>2, <2>3, <2>5, <3>2 DEF RunControl
    <3> QED
      BY <2>5, <3>1, <3>3, <3>4 DEF LoopInv, Waiting, Latched
  <2>6. CASE Depth > 0 /\ HostReturns(Below) /\ UNCHANGED phase
    <3>1. Within
      BY <2>1, <2>2, <2>3, <2>6 DEF Within, LoopInv, LoopTypes
    <3> QED
      BY <2>1, <2>6, <3>1, AskerBelow, HostReturnsMoves
  <2> QED
    BY <1>4, <2>4, <2>5, <2>6 DEF ExitExecutor
<1>5. ASSUME NEW spot, Inside(spot), Top.latch = NoError, UNCHANGED raised,
             spot \notin {"starting", "turn"}, Become(NextTurn(Top, nextId))
      PROVE  LoopInv'
  <2>1. Within /\ branches' = branches /\ Top \in Frames /\ TopAt(spot)
        /\ nextId \in Nat /\ Top.items \in Seq(Nat) /\ Top.turn \in Nat /\ Top.turn <= MaxTurns
    BY <1>5, InsideIs, TopAtIs DEF Inside
  <2> DEFINE f == NextTurn(Top, nextId)
  <2>2. Append(Top.items, nextId) \in Seq(Nat) /\ Append(Top.items, nextId) # <<>>
    <3>1. nextId \in Nat /\ Top.items \in Seq(Nat)
      BY <2>1
    <3>2. /\ Append(Top.items, nextId) \in Seq(Nat)
          /\ Len(Append(Top.items, nextId)) = Len(Top.items) + 1
      BY <3>1, AppendProperties
    <3>3. Len(Top.items) \in Nat
      BY <3>1, LenProperties
    <3> QED
      BY <3>2, <3>3, EmptySeq
  <2>3. Top.turn + 1 \in 1..(MaxTurns + 1)
    BY <2>1, TurnsAssumption
  <2>4. f \in Frames /\ f.branch = Top.branch /\ f.latch = NoError /\ Sound(f)
    BY <1>5, <2>1, <2>2, <2>3 DEF Frames, Places, NextTurn, Sound, Going
  <2> HIDE DEF f
  <2> QED
    BY <1>5, <2>1, <2>4, GoesOn DEF f
<1>6. CASE Observe
  <2>1. Inside("ran") /\ Top.latch = NoError /\ UNCHANGED raised
        /\ Become(NextTurn(Top, nextId))
    BY <1>6 DEF Inside, Observe, Log
  <2> QED
    BY <1>5, <2>1
<1>7. CASE Repair
  <2>1. Inside("repairing") /\ UNCHANGED raised /\ Become(NextTurn(Top, nextId))
    BY <1>7 DEF Inside, Repair, Log
  <2>2. Top.latch = NoError
    BY <2>1, InsideIs
  <2> QED
    BY <1>5, <2>1, <2>2
<1>8. CASE Recover
  <2>1. Inside("recover")
    BY <1>8 DEF Inside, Recover, Log
  <2>2. Within /\ branches' = branches /\ Top \in Frames /\ TopAt("recover") /\ Going(Top)
        /\ nextId \in Nat /\ Top.latch = NoError /\ stack # <<>> /\ raised = NoError
    BY <2>1, InsideIs DEF Inside
  <2>3. CASE Become([Top EXCEPT !.place = "repairing", !.cause = nextId]) /\ UNCHANGED raised
    <3> DEFINE f == [Top EXCEPT !.place = "repairing", !.cause = nextId]
    <3>1. f \in Frames /\ f.branch = Top.branch /\ f.latch = NoError /\ Sound(f)
      BY <2>2 DEF Frames, Places, Sound, Going
    <3> HIDE DEF f
    <3> QED
      BY <2>2, <2>3, <3>1, GoesOn DEF f
  <2>4. CASE Leave("aborted", nextId)
    <3>1. "aborted" \in Errors \ {"none"}
      BY DEF Errors
    <3> QED
      BY <2>2, <2>4, <3>1, LeaveMoves
  <2> QED
    BY <1>8, <2>3, <2>4 DEF Recover
<1> QED
  BY <1>1, <1>2, <1>3, <1>4, <1>6, <1>7, <1>8

\* So do the start and the ends of a run.
LEMMA RunSteps ==
    ASSUME LoopInv, StartRun \/ CompleteRun \/ FailRun \/ CloseRun
    PROVE  LoopInv'
<1>1. CASE StartRun
  <2> DEFINE f == NewBranch(nextId)
  <2>1. phase = "starting" /\ phase' = "running" /\ stack' = <<f>> /\ branches' = branches + 1
        /\ UNCHANGED <<clock, modelCalls, mode, raised, fatal, closed>> /\ nextId' = nextId + 1
    BY <1>1 DEF StartRun, Emit, ledgerVars, counters
  <2>2. raised = NoError /\ fatal = NoError /\ ~closed /\ nextId \in Nat /\ branches \in Nat
        /\ clock \in Nat /\ modelCalls \in Nat
    BY <2>1 DEF LoopInv, RunControl, LoopTypes
  <2>3. f \in Frames /\ f.branch = branches /\ f.place = "starting" /\ f.latch = NoError
        /\ f.turn <= MaxTurns
    BY <2>2, NoErrorIs, TurnsAssumption, EmptySeq DEF NewBranch, Frames, Places, Results
  <2> HIDE DEF f
  <2>4. stack' \in Seq(Frames) /\ Len(stack') = 1 /\ stack'[1] = f /\ stack' # <<>>
    BY <2>1, <2>3
  <2>5. Top' = f
    BY <2>4 DEF Top
  <2>6. LoopTypes'
    BY <2>1, <2>2, <2>4 DEF LoopInv, LoopTypes, Phases
  <2>7. RunControl'
    BY <2>1, <2>2, <2>4 DEF RunControl
  <2>8. Waiting'
    <3>1. \A k \in 1..Len(stack') : k = 1
      BY <2>4
    <3> QED
      BY <2>1, <2>2, <2>3, <2>4, <3>1 DEF Waiting
  <2> QED
    BY <2>3, <2>5, <2>6, <2>7, <2>8 DEF LoopInv, Latched
<1>2. ASSUME phase \in {"completing", "failing"}, phase' = "closing", closed' = closed,
             nextId' \in Nat, UNCHANGED <<ledgerVars, mode, stack, branches, raised, fatal>>
      PROVE  LoopInv'
  <2>1. UNCHANGED <<clock, modelCalls>>
    BY <1>2 DEF ledgerVars, counters
  <2>2. LoopTypes'
    BY <1>2, <2>1 DEF LoopInv, LoopTypes, Phases
  <2>3. RunControl'
    BY <1>2 DEF LoopInv, RunControl
  <2>4. Waiting' /\ Latched'
    BY <1>2 DEF LoopInv, RunControl, Waiting, Latched
  <2> QED
    BY <2>2, <2>3, <2>4 DEF LoopInv
<1>3. nextId \in Nat
  BY DEF LoopInv, LoopTypes
<1>4. CASE CompleteRun
  <2>1. phase = "completing" /\ phase' = "closing" /\ closed' = closed /\ nextId' = nextId + 1
        /\ UNCHANGED <<ledgerVars, mode, stack, branches, raised, fatal>>
    BY <1>4 DEF CompleteRun, Emit
  <2> QED
    BY <1>2, <1>3, <2>1
<1>5. CASE FailRun
  <2>1. phase = "failing" /\ phase' = "closing" /\ closed' = closed /\ nextId' = nextId + 1
        /\ UNCHANGED <<ledgerVars, mode, stack, branches, raised, fatal>>
    BY <1>5 DEF FailRun, Emit
  <2> QED
    BY <1>2, <1>3, <2>1
<1>6. CASE CloseRun
  <2>1. phase = "closing" /\ phase' = "closed" /\ closed' = TRUE /\ nextId' = nextId
        /\ UNCHANGED <<ledgerVars, mode, stack, branches, raised, fatal>>
    BY <1>6 DEF CloseRun, Close
  <2>2. UNCHANGED <<clock, modelCalls>>
    BY <2>1 DEF ledgerVars, counters
  <2>3. LoopTypes'
    BY <2>1, <2>2 DEF LoopInv, LoopTypes, Phases
  <2>4. RunControl'
    BY <2>1 DEF LoopInv, RunControl
  <2>5. Waiting' /\ Latched'
    BY <2>1 DEF LoopInv, RunControl, Waiting, Latched
  <2> QED
    BY <2>3, <2>4, <2>5 DEF LoopInv
<1> QED
  BY <1>1, <1>4, <1>5, <1>6

\* So does an exception on its way through the branches.
LEMMA UnwindStep ==
    ASSUME LoopInv, Unwind
    PROVE  LoopInv'
<1>1. raised # NoError /\ UNCHANGED <<ledgerVars, traceVars, mode, branches>>
  BY DEF Unwind
<1>2. phase = "running" /\ stack # <<>> /\ raised.error # "none" /\ raised \in Exceptions
      /\ fatal = NoError /\ ~closed
  BY <1>1 DEF LoopInv, LoopTypes, RunControl
<1>3. UNCHANGED <<clock, modelCalls, nextId, closed>>
  BY <1>1 DEF ledgerVars, counters, traceVars
<1>4. CASE Depth = 0
  <2>1. phase' = "failing" /\ fatal' = raised /\ stack' = <<>> /\ raised' = NoError
    BY <1>4 DEF Unwind
  <2>2. stack' \in Seq(Frames) /\ Len(stack') = 0
    BY <2>1, EmptySeq
  <2>3. LoopTypes'
    BY <1>1, <1>2, <1>3, <2>1, <2>2, NoErrorIs DEF LoopInv, LoopTypes, Phases
  <2>4. RunControl'
    BY <1>1, <1>2, <1>3, <2>1, <2>2 DEF RunControl
  <2> QED
    BY <2>1, <2>2, <2>3, <2>4 DEF LoopInv, Waiting, Latched
<1>5. CASE Depth # 0
  <2>1. HostRaises(Below, raised) /\ UNCHANGED <<phase, fatal>>
    BY <1>5 DEF Unwind
  <2>2. Within
    BY <1>1, <1>2, <1>3, <2>1 DEF Within, LoopInv, LoopTypes
  <2>3. Depth > 0
    <3>1. Len(stack) \in Nat /\ Len(stack) # 0
      BY <1>2, StackTop
    <3>2. Depth = Len(stack) - 1
      BY DEF Depth
    <3> DEFINE n == Len(stack)
    <3> HIDE DEF n
    <3>3. n \in Nat /\ n # 0 /\ Depth = n - 1 /\ Depth # 0
      BY <1>5, <3>1, <3>2 DEF n
    <3> QED
      BY <3>3
  <2> QED
    BY <1>1, <1>2, <2>1, <2>2, <2>3, AskerBelow, HostRaisesMoves
<1> QED
  BY <1>4, <1>5

\* Every step keeps the invariant.
LEMMA LoopStep ==
    ASSUME LoopInv, [Next]_vars
    PROVE  LoopInv'
<1>1. CASE BranchStep
  BY <1>1, OpeningSteps, CallingSteps, CellSteps, AfterCellSteps, UnwindStep DEF BranchStep
<1>2. CASE HostCallStep
  BY <1>2, CellSteps DEF HostCallStep
<1>3. CASE RunStep
  BY <1>3, RunSteps DEF RunStep
<1>4. CASE Tick
  <2>1. /\ clock' = clock + 1
        /\ UNCHANGED <<modelCalls, nextId, branches, phase, mode, stack, raised, fatal, closed>>
    BY <1>4 DEF Tick, counters, traceVars, loopVars
  <2> QED
    BY <2>1 DEF LoopInv, LoopTypes, RunControl, Waiting, Latched, Top
<1>5. CASE UNCHANGED vars
  <2>1. UNCHANGED <<clock, modelCalls, nextId, branches, phase, mode, stack, raised, fatal, closed>>
    BY <1>5 DEF vars, ledgerVars, counters, traceVars, loopVars
  <2> QED
    BY <2>1 DEF LoopInv, LoopTypes, RunControl, Waiting, Latched, Top
<1> QED
  BY <1>1, <1>2, <1>3, <1>4, <1>5 DEF Next, Terminated

\* A branch that waits for a child has not failed, and no branch takes more turns
\* than max_turns allows (engine.py:372-560).
THEOREM LoopInvariant == Spec => []LoopInv
<1>1. Init => LoopInv
  BY LoopInitially
<1>2. LoopInv /\ [Next]_vars => LoopInv'
  BY LoopStep
<1> QED
  BY <1>1, <1>2, PTL DEF Spec

-----------------------------------------------------------------------------
(* What a run promises about failure                                        *)

VerdictNow ==
    IF phase \in {"closing", "closed"}
       THEN IF fatal = NoError THEN "completed" ELSE "failed"
       ELSE IF Doomed THEN "doomed" ELSE "open"

\* A branch that moves, and in whose cell nothing has failed, dooms nothing.
LEMMA NotDoomed ==
    ASSUME LoopInv, raised.error \in {"none", "invalid"},
           phase \in {"running", "completing", "starting"},
           stack # <<>> => Top.latch = NoError
    PROVE  ~Doomed
<1>1. ASSUME NEW k \in DOMAIN stack PROVE stack[k].latch = NoError
  <2>1. stack # <<>>
    BY EmptySeq
  <2>2. k \in 1..Len(stack) /\ Len(stack) \in Nat /\ Top = stack[Len(stack)]
    BY <2>1, StackTop
  <2> QED
    BY <2>1, <2>2 DEF LoopInv, Waiting
<1> QED
  BY <1>1 DEF Doomed

\* A failure that a cell has latched dooms the run.
LEMMA DoomedByTop ==
    ASSUME LoopInv, stack # <<>>, Top.latch # NoError
    PROVE  Doomed
BY StackTop DEF Doomed

\* While branches are open and nothing has failed, a failure or none is next.
LEMMA OpenSteps ==
    ASSUME LoopInv, ~Doomed, phase \notin {"closing", "closed"},
           phase' \notin {"closing", "closed"}, UNCHANGED modelCalls
    PROVE  Verdict!Next \/ UNCHANGED <<VerdictNow, modelCalls>>
<1>1. VerdictNow = "open" /\ VerdictNow' \in {"open", "doomed"}
  BY DEF VerdictNow
<1>2. CASE VerdictNow' = "open"
  BY <1>1, <1>2
<1>3. CASE VerdictNow' = "doomed"
  BY <1>1, <1>3 DEF Verdict!Next, Verdict!Doom, VerdictNow
<1> QED
  BY <1>1, <1>2, <1>3

\* What has failed stays failed.
LEMMA DoomedSteps ==
    ASSUME LoopInv, Doomed => Doomed', phase \notin {"closing", "closed"},
           phase' \notin {"closing", "closed"}, UNCHANGED modelCalls
    PROVE  Verdict!Next \/ UNCHANGED <<VerdictNow, modelCalls>>
<1>1. CASE ~Doomed
  BY <1>1, OpenSteps
<1>2. CASE Doomed
  BY <1>2 DEF VerdictNow
<1> QED
  BY <1>1, <1>2

\* A step of RunVerdict, or one it does not see.
VerdictStep == Verdict!Next \/ UNCHANGED <<VerdictNow, modelCalls>>

\* A branch is at a place of its loop where nothing can have failed.
LEMMA NotDoomedAt ==
    ASSUME LoopInv, NEW spot, TopAt(spot), spot \notin {"cell", "ran"} \/ Top.latch = NoError
    PROVE  ~Doomed /\ phase = "running"
<1>1. stack # <<>> /\ raised = NoError /\ phase = "running" /\ Top.latch = NoError
  BY TopAtIs
<1> QED
  BY <1>1, NoErrorIs, NotDoomed

\* A request for a call is a step of RunVerdict, or a stutter.
LEMMA RequestVerdict ==
    ASSUME LoopInv, LoopInv', NEW spot, TopAt(spot), spot \in {"turn", "asking"},
           UNCHANGED phase, NEW f \in {[Top EXCEPT !.role = "controller"], Top}, NEW parent,
           Request(f, parent), UNCHANGED <<mode, branches, fatal>>, Top.turn <= MaxTurns
    PROVE  VerdictStep
<1>1. ~Doomed /\ phase = "running" /\ stack # <<>> /\ Top.latch = NoError /\ Top \in Frames
  BY NotDoomedAt, TopAtIs
<1>2. ReserveModelCall /\ UNCHANGED closed
  BY DEF Request, Log, Emit
<1>3. Inside(spot)
  BY <1>2 DEF Inside, Request, Log
<1>4. Within /\ branches' = branches
  BY <1>3, InsideIs
<1>5. raised' = NoError /\ Top' = [f EXCEPT !.place = "asked", !.call = modelCalls + 1]
  BY <1>1, <1>4, RequestMoves
<1>6. Top'.latch = NoError
  <2>1. f \in Frames /\ f.latch = NoError
    <3>1. CASE f = Top
      BY <1>1, <3>1
    <3>2. CASE f = [Top EXCEPT !.role = "controller"]
      BY <1>1, <3>2 DEF Frames
    <3> QED
      BY <3>1, <3>2
  <2> QED
    BY <1>5, <2>1 DEF Frames
<1>7. (~Doomed)'
  <2>1. phase' = "running" /\ raised'.error = "none"
    BY <1>1, <1>5, NoErrorIs
  <2>2. ASSUME NEW k \in DOMAIN stack' PROVE stack'[k].latch = NoError
    <3>1. stack' \in Seq(Frames) /\ stack' # <<>>
      BY EmptySeq, <2>1 DEF LoopInv, LoopTypes, RunControl
    <3>2. k \in 1..Len(stack') /\ Len(stack') \in Nat
      BY <3>1, LenProperties
    <3>3. CASE k = Len(stack')
      BY <1>6, <3>3 DEF Top
    <3>4. CASE k < Len(stack')
      BY <3>2, <3>4 DEF LoopInv, Waiting
    <3> QED
      BY <3>2, <3>3, <3>4
  <2> QED
    BY <2>1, <2>2 DEF Doomed
<1>8. modelCalls' = modelCalls + 1
  BY <1>2 DEF ReserveModelCall
<1>9. VerdictNow = "open" /\ VerdictNow' = "open"
  BY <1>1, <1>7 DEF VerdictNow
<1> QED
  BY <1>8, <1>9 DEF VerdictStep, Verdict!Next, Verdict!Request, VerdictNow

\* The steps of a branch with which a failure begins, or none.
LEMMA BranchVerdict ==
    ASSUME LoopInv, NEW spot, TopAt(spot),
           spot \notin {"cell", "ran"} \/ Top.latch = NoError,
           phase' \in {"running", "completing"}, UNCHANGED modelCalls
    PROVE  VerdictStep
BY NotDoomedAt, OpenSteps DEF VerdictStep

\* So is every handler inside a branch.
LEMMA QuietSteps ==
    ASSUME LoopInv,
           \/ StartBranch \/ OpenExecutor \/ TurnsExhausted \/ StartCell \/ CallResponds
           \/ CallFails \/ CallSucceeds \/ ReturnValue \/ Parse \/ CellFaulty
           \/ BranchCompletes \/ ExitExecutor \/ Observe \/ Recover \/ Repair
           \/ ModelComplete \/ RlmComplete \/ InvalidRequest \/ SubcallRefused
    PROVE  VerdictStep
<1>1. phase' \in {phase, "completing"} /\ UNCHANGED modelCalls
  BY DEF StartBranch, OpenExecutor, TurnsExhausted, StartCell, CallResponds, CallFails,
         CallSucceeds, ReturnValue, Parse, CellFaulty, BranchCompletes, ExitExecutor,
         Observe, Recover, Repair, ModelComplete, RlmComplete, InvalidRequest,
         SubcallRefused, SubcallReserved, ReserveSubcalls, ledgerVars, counters, loopVars
<1>2. \/ TopAt("starting") \/ TopAt("opening") \/ TopAt("turn") \/ TopAt("launch")
      \/ TopAt("asked") \/ TopAt("answered") \/ TopAt("returning") \/ TopAt("parse")
      \/ TopAt("exiting") \/ TopAt("recover") \/ TopAt("repairing")
      \/ TopAt("cell") /\ Top.latch = NoError
      \/ TopAt("ran") /\ Top.latch = NoError
  BY DEF StartBranch, OpenExecutor, TurnsExhausted, StartCell, CallResponds, CallFails,
         CallSucceeds, ReturnValue, Parse, CellFaulty, BranchCompletes, ExitExecutor,
         Observe, Recover, Repair, ModelComplete, RlmComplete, InvalidRequest,
         SubcallRefused, SubcallReserved, HostCalls
<1>3. PICK spot : TopAt(spot) /\ (spot \notin {"cell", "ran"} \/ Top.latch = NoError)
  <2>1. CASE TopAt("cell") /\ Top.latch = NoError
    BY <2>1
  <2>2. CASE TopAt("ran") /\ Top.latch = NoError
    BY <2>2
  <2>3. CASE \E spot \in Places \ {"cell", "ran"} : TopAt(spot)
    BY <2>3
  <2>4. {"starting", "opening", "turn", "launch", "asked", "answered", "returning", "parse",
         "exiting", "recover", "repairing"} \subseteq Places \ {"cell", "ran"}
    BY DEF Places
  <2> QED
    BY <1>2, <2>1, <2>2, <2>3, <2>4
<1>4. phase = "running"
  BY <1>3, TopAtIs
<1> QED
  BY <1>1, <1>3, <1>4, BranchVerdict

\* So are the two that make a request.
LEMMA AskingVerdict ==
    ASSUME LoopInv, LoopInv', ControllerTurn \/ AskModel
    PROVE  VerdictStep
<1>1. CASE ControllerTurn
  <2>1. TopAt("turn") /\ Top.turn <= MaxTurns /\ UNCHANGED <<phase, mode, branches, fatal>>
    BY <1>1 DEF ControllerTurn, TurnsLeft
  <2>2. CASE Request([Top EXCEPT !.role = "controller"], Top.cause)
    BY <2>1, <2>2, RequestVerdict
  <2>3. CASE UNCHANGED ledgerVars
    <3>1. UNCHANGED modelCalls /\ phase' = "running"
      BY <2>1, <2>3, TopAtIs DEF ledgerVars, counters
    <3> QED
      BY <2>1, <3>1, BranchVerdict
  <2> QED
    BY <1>1, <2>2, <2>3 DEF ControllerTurn
<1>2. CASE AskModel
  <2>1. TopAt("asking") /\ Top.turn <= MaxTurns /\ UNCHANGED <<phase, mode, branches, fatal>>
    BY <1>2, TopAtIs DEF AskModel
  <2>2. CASE Request(Top, Top.action)
    BY <2>1, <2>2, RequestVerdict
  <2>3. CASE UNCHANGED ledgerVars
    <3>1. UNCHANGED modelCalls /\ phase' = "running"
      BY <2>1, <2>3, TopAtIs DEF ledgerVars, counters
    <3> QED
      BY <2>1, <3>1, BranchVerdict
  <2> QED
    BY <1>2, <2>2, <2>3 DEF AskModel
<1> QED
  BY <1>1, <1>2

\* The cell in which a call has failed ends, dies, or its failure is raised.
LEMMA DoomedCellSteps ==
    ASSUME LoopInv, LoopInv', CellEnds \/ CellDies \/ HostFailure
    PROVE  VerdictStep
<1>1. PICK spot \in {"cell", "ran"} : TopAt(spot)
  BY DEF CellEnds, CellDies, HostFailure
<1>2. /\ stack # <<>> /\ raised = NoError /\ Top \in Frames /\ phase = "running"
      /\ UNCHANGED <<phase, modelCalls>>
  BY <1>1, TopAtIs DEF CellEnds, CellDies, HostFailure, ledgerVars, counters
<1>3. CASE Top.latch = NoError
  BY <1>1, <1>2, <1>3, BranchVerdict
<1>4. CASE Top.latch # NoError
  <2>1. CASE CellEnds
    <3>1. Inside("cell")
      BY <2>1 DEF Inside, CellEnds, Log
    <3>2. PICK result \in Results :
             Become([Top EXCEPT !.place = "ran", !.cause = nextId, !.result = result])
      BY <2>1 DEF CellEnds
    <3> DEFINE f == [Top EXCEPT !.place = "ran", !.cause = nextId, !.result = result]
    <3>3. f \in Frames /\ f.branch = Top.branch /\ f.place = "ran" /\ Sound(f)
          /\ f.latch = Top.latch
      <4>1. Going(Top) /\ nextId \in Nat
        BY <3>1, InsideIs
      <4> QED
        BY <1>2, <4>1 DEF Frames, Places, Sound, Going
    <3> HIDE DEF f
    <3>4. UNCHANGED raised /\ TopAt("cell") /\ Within /\ branches' = branches
      BY <2>1, <3>1, InsideIs DEF CellEnds
    <3>5. Top' = f
      BY <3>2, <3>3, <3>4, GoesOn DEF f
    <3>6. (stack # <<>>)'
      BY <1>2 DEF LoopInv, RunControl
    <3>7. Doomed'
      <4>1. (Top.latch # NoError)'
        BY <1>4, <3>3, <3>5, NoErrorIs DEF NoError
      <4>2. (stack \in Seq(Frames))'
        BY DEF LoopInv, LoopTypes
      <4>3. Len(stack') \in DOMAIN stack'
        BY <3>6, <4>2, EmptySeq, LenProperties
      <4> QED
        BY <4>1, <4>3 DEF Doomed, Top
    <3> QED
      BY <1>2, <3>7, DoomedSteps DEF VerdictStep
  <2>2. CASE CellDies \/ HostFailure
    <3>1. raised'.error \in {"killed", "executor", "remote"}
      BY <2>2 DEF CellDies, HostFailure, Leave
    <3>2. Doomed'
      BY <3>1 DEF Doomed
    <3> QED
      BY <1>2, <3>2, DoomedSteps DEF VerdictStep
  <2> QED
    BY <2>1, <2>2
<1> QED
  BY <1>3, <1>4

\* What reaches the cell that started the branch, or the run, is still a failure.
LEMMA UnwindVerdict ==
    ASSUME LoopInv, LoopInv', Unwind
    PROVE  VerdictStep
<1>1. /\ phase = "running" /\ stack # <<>> /\ raised # NoError /\ raised.error # "none"
      /\ raised \in Exceptions /\ UNCHANGED modelCalls
  BY DEF Unwind, LoopInv, LoopTypes, RunControl, ledgerVars, counters
<1>2. CASE Depth = 0
  <2>1. phase' = "failing"
    BY <1>2 DEF Unwind
  <2>2. Doomed'
    BY <2>1 DEF Doomed
  <2> QED
    BY <1>1, <2>1, <2>2, DoomedSteps DEF VerdictStep
<1>3. CASE Depth # 0
  <2>1. HostRaises(Below, raised) /\ UNCHANGED <<phase, fatal, mode, branches>>
        /\ UNCHANGED <<ledgerVars, traceVars>>
    BY <1>3 DEF Unwind
  <2>2. UNCHANGED <<clock, closed, nextId>>
    BY <2>1 DEF ledgerVars, counters, traceVars
  <2>3. Within
    BY <1>1, <2>1, <2>2 DEF Within, LoopInv, LoopTypes
  <2>4. Depth > 0
    <3>1. Len(stack) \in Nat /\ Len(stack) # 0
      BY <1>1, StackTop
    <3>2. Depth = Len(stack) - 1
      BY DEF Depth
    <3> DEFINE n == Len(stack)
    <3> HIDE DEF n
    <3>3. n \in Nat /\ n # 0 /\ Depth = n - 1 /\ Depth # 0
      BY <1>3, <3>1, <3>2 DEF n
    <3> QED
      BY <3>3
  <2> DEFINE n == Len(stack) - 1
  <2>5. Asker(Below, n)
    BY <2>4, AskerBelow
  <2> HIDE DEF n
  <2>6. \/ raised.error = "killed" /\ raised' = [error |-> "killed", cause |-> NoEvent]
        \/ raised.error = "invalid"
        \/ Top' = [stack[n] EXCEPT !.place = "cell", !.latch = raised]
    BY <1>1, <2>1, <2>3, <2>5, HostRaisesMoves
  <2>7. stack[n] \in Frames
    BY <2>5, AskerIs
  <2>8. CASE raised.error = "killed" /\ raised' = [error |-> "killed", cause |-> NoEvent]
    <3>1. Doomed'
      BY <2>8 DEF Doomed
    <3> QED
      BY <1>1, <2>1, <3>1, DoomedSteps DEF VerdictStep
  <2>9. CASE raised.error = "invalid"
    <3>1. Top.latch = NoError
      BY <1>1, <2>9 DEF LoopInv, Latched
    <3>2. ~Doomed
      BY <1>1, <2>9, <3>1, NotDoomed
    <3> QED
      BY <1>1, <2>1, <3>2, OpenSteps DEF VerdictStep
  <2>10. CASE Top' = [stack[n] EXCEPT !.place = "cell", !.latch = raised]
    <3>1. (Top.latch # NoError)'
      BY <1>1, <2>7, <2>10 DEF Frames, NoError
    <3>2. (stack \in Seq(Frames) /\ stack # <<>>)'
      BY <1>1, <2>1 DEF LoopInv, LoopTypes, RunControl
    <3>3. Len(stack') \in DOMAIN stack'
      BY <3>2, EmptySeq, LenProperties
    <3>4. Doomed'
      BY <3>1, <3>3 DEF Doomed, Top
    <3> QED
      BY <1>1, <2>1, <3>4, DoomedSteps DEF VerdictStep
  <2> QED
    BY <2>6, <2>8, <2>9, <2>10
<1> QED
  BY <1>2, <1>3

\* So are the start and the ends of a run.
LEMMA RunVerdicts ==
    ASSUME LoopInv, StartRun \/ CompleteRun \/ FailRun \/ CloseRun
    PROVE  VerdictStep
<1>1. UNCHANGED modelCalls
  BY DEF StartRun, CompleteRun, FailRun, CloseRun, ledgerVars, counters
<1>2. CASE StartRun
  <2>1. phase = "starting" /\ phase' = "running"
    BY <1>2 DEF StartRun
  <2>2. raised = NoError /\ stack = <<>>
    BY <2>1 DEF LoopInv, RunControl
  <2>3. ~Doomed
    BY <2>1, <2>2, NoErrorIs, NotDoomed
  <2> QED
    BY <1>1, <2>1, <2>3, OpenSteps DEF VerdictStep
<1>3. CASE CompleteRun
  <2>1. phase = "completing" /\ phase' = "closing" /\ UNCHANGED fatal
    BY <1>3 DEF CompleteRun
  <2>2. raised = NoError /\ stack = <<>> /\ fatal = NoError
    BY <2>1 DEF LoopInv, RunControl
  <2>3. ~Doomed
    BY <2>1, <2>2, NoErrorIs, NotDoomed
  <2>4. VerdictNow = "open" /\ VerdictNow' = "completed"
    BY <2>1, <2>2, <2>3 DEF VerdictNow
  <2> QED
    BY <1>1, <2>4 DEF VerdictStep, Verdict!Next, Verdict!Complete, VerdictNow
<1>4. CASE FailRun
  <2>1. phase = "failing" /\ phase' = "closing" /\ UNCHANGED fatal /\ fatal # NoError
    BY <1>4 DEF FailRun, LoopInv, RunControl
  <2>2. Doomed
    BY <2>1 DEF Doomed
  <2>3. VerdictNow = "doomed" /\ VerdictNow' = "failed"
    BY <2>1, <2>2 DEF VerdictNow
  <2> QED
    BY <1>1, <2>3 DEF VerdictStep, Verdict!Next, Verdict!Fail, VerdictNow
<1>5. CASE CloseRun
  <2>1. phase = "closing" /\ phase' = "closed" /\ UNCHANGED fatal
    BY <1>5 DEF CloseRun
  <2>2. UNCHANGED VerdictNow
    BY <2>1 DEF VerdictNow
  <2> QED
    BY <1>1, <2>2 DEF VerdictStep
<1> QED
  BY <1>2, <1>3, <1>4, <1>5

\* Every step is one of RunVerdict, or a stutter.
LEMMA VerdictSteps ==
    ASSUME LoopInv, [Next]_vars
    PROVE  VerdictStep
<1>1. LoopInv'
  BY LoopStep
<1>2. CASE BranchStep
  BY <1>1, <1>2, QuietSteps, AskingVerdict, DoomedCellSteps, UnwindVerdict DEF BranchStep
<1>3. CASE HostCallStep
  BY <1>3, QuietSteps DEF HostCallStep
<1>4. CASE RunStep
  BY <1>4, RunVerdicts DEF RunStep
<1>5. CASE Tick \/ UNCHANGED vars
  <2>1. UNCHANGED <<modelCalls, phase, stack, raised, fatal>>
    BY <1>5 DEF Tick, vars, ledgerVars, counters, loopVars
  <2>2. UNCHANGED VerdictNow
    BY <2>1 DEF VerdictNow, Doomed
  <2> QED
    BY <2>1, <2>2 DEF VerdictStep
<1> QED
  BY <1>2, <1>3, <1>4, <1>5 DEF Next, Terminated

\* README.md:219-224, executor.py:520-522.  From the first failure of a provider, a
\* limit or the transport on, in any branch and whatever its cell makes of the
\* exception, a run asks no model anything and can only fail.
THEOREM KeepsVerdict == Spec => VerdictSpec
<1>1. Init => Verdict!Init
  <2> SUFFICES ASSUME Init PROVE Verdict!Init
    OBVIOUS
  <2>1. LoopInv /\ phase = "starting" /\ stack = <<>> /\ raised = NoError /\ modelCalls = 0
    BY LoopInitially DEF Init, LedgerInit
  <2>2. ~Doomed
    BY <2>1, NoErrorIs, NotDoomed
  <2> QED
    BY <2>1, <2>2 DEF Verdict!Init
<1>2. LoopInv /\ [Next]_vars => [Verdict!Next]_(Verdict!verdictVars)
  BY VerdictSteps DEF VerdictStep, VerdictNow, Verdict!verdictVars
<1> QED
  BY <1>1, <1>2, LoopInvariant, PTL DEF Spec, VerdictSpec, Verdict!Spec

-----------------------------------------------------------------------------
(* Where the branches are says what the trace has of them                   *)

RunTypes == {"run.started", "run.completed", "run.failed"}
ModelTypes == {"model.request", "model.response", "model.failed"}
BranchTypes == {"branch.started", "branch.completed", "controller.action",
                "controller.execution", "controller.observation",
                "controller.recovery_decision", "controller.repair"}
EventTypes == RunTypes \cup ModelTypes \cup BranchTypes

Events == [id : Nat, type : EventTypes, branch : Nat, call : Nat \cup {NoCall},
           parent : Nat \cup {NoEvent}, good : BOOLEAN]

Calls == 1..modelCalls

\* The recorder: ids are positions, and only the events of a call have a call.
Recorded ==
    /\ lines \in Seq(Events)
    /\ nextId = Len(lines)
    /\ known = 0..(Len(lines) - 1)
    /\ IdsOrdered
    /\ \A i \in Positions :
          IF lines[i].type \in ModelTypes THEN lines[i].call \in Calls
                                          ELSE lines[i].call = NoCall

\* The first and the last event of the run.
Framed ==
    /\ phase = "starting" <=> lines = <<>>
    /\ \A i \in Positions : lines[i].type = "run.started" <=> i = 1
    /\ \A i \in Positions :
          Final(lines[i]) <=> i = Len(lines) /\ phase \in {"closing", "closed"}
    /\ phase \in {"closing", "closed"} =>
          (lines[Len(lines)].type = "run.completed" <=> fatal = NoError)
    /\ closed => (manifest.status = "completed" <=> fatal = NoError)

\* What the trace has of a call.
Requested(c) == At("model.request", c) # {}
Answered(c) == At("model.response", c) # {}
HasFailed(c) == At("model.failed", c) # {}

AtMostOne(S) == \A i, j \in S : i = j

EventsOf(c) ==
    /\ AtMostOne(At("model.request", c))
    /\ AtMostOne(At("model.response", c))
    /\ AtMostOne(At("model.failed", c))
    /\ Requested(c)
    /\ \A i \in At("model.response", c) : lines[i].parent = IdOf("model.request", c)
    /\ \A i \in At("model.failed", c) :
          lines[i].parent = IdOf(IF Answered(c) THEN "model.response" ELSE "model.request", c)

\* A failure follows its response at once; a response that has none is good.
Settled(c) ==
    \/ HasFailed(c) /\ CallAdjacent(c)
    \/ Answered(c) /\ ~HasFailed(c) /\ \A i \in At("model.response", c) : lines[i].good

Awaited(c) == (TopAt("asked") \/ TopAt("answered")) /\ Top.call = c

CallsTold ==
    /\ \A c \in Calls : EventsOf(c) /\ (Settled(c) \/ Awaited(c))
    /\ TopAt("asked") => Top.call \in Calls /\ ~Answered(Top.call) /\ ~HasFailed(Top.call)
    /\ TopAt("answered") =>
          /\ Top.call \in Calls /\ ~HasFailed(Top.call)
          /\ At("model.response", Top.call) = {Len(lines)}
          /\ lines[Len(lines)].branch = Top.branch /\ Top.cause = nextId - 1

\* Nothing but the ends of cells is traced after the event that caused a failure.
Causing(i, last) ==
    /\ lines[i].type \in {"controller.recovery_decision", "model.failed"}
    /\ \A j \in Positions : i < j /\ j < last => lines[j].type = "controller.execution"

Traced(e) ==
    e.cause # NoEvent =>
        \E i \in Positions : lines[i].id = e.cause /\ Causing(i, Len(lines) + 1)

CausesTold ==
    /\ Traced(raised)
    /\ stack # <<>> => Traced(Top.latch)
    /\ phase = "failing" => Traced(fatal)
    /\ phase \in {"closing", "closed"} /\ fatal.cause # NoEvent =>
          \E i \in Positions : lines[i].id = lines[Len(lines)].parent /\ Causing(i, Len(lines))

\* The conversation kept a response: the one whose cell was the latest to run.
Digested(f) ==
    \E i \in Positions :
        /\ lines[i].id = f.items[2]
        /\ lines[i].type = "model.response"
        /\ lines[i].branch = f.branch
        /\ \A j \in Positions :
              lines[j].branch = f.branch /\ lines[j].type = "controller.action"
                  => j < i \/ lines[j].parent = lines[i].id

\* From the action to the end of the turn, a subcall of the cell included.
Busy(f) ==
    \/ f.place \in {"launch", "cell", "asking", "returning", "ran", "recover", "repairing"}
    \/ f.place \in {"asked", "answered"} /\ f.role = "subcall"

\* The latest event is the branch's, of one of these types, and its cause.
Latest(f, types) ==
    /\ lines # <<>> /\ f.cause = nextId - 1
    /\ lines[Len(lines)].branch = f.branch /\ lines[Len(lines)].type \in types

Talk(f) ==
    /\ f.place \in {"opening", "turn"} =>
          Latest(f, Turning) /\ f.items[Len(f.items)] = f.cause
    /\ f.place \in {"starting", "opening"} => f.turn = 1
    /\ f.place = "opening" => Len(f.items) = 1
    /\ f.place = "turn" =>
          /\ f.turn = 1 => Len(f.items) = 1
          /\ Len(f.items) <= 3
          /\ Len(f.items) = 3 => Digested(f)
    /\ f.place = "parse" =>
          /\ Latest(f, {"model.response"})
          /\ Len(f.items) <= 2
          /\ Len(f.items) = 2 => f.items[2] = f.cause
    /\ f.place = "asking" => f.role = "subcall"
    /\ Busy(f) => Len(f.items) <= 2 /\ (Len(f.items) = 2 => Digested(f))

Talks == \A k \in 1..Len(stack) : Talk(stack[k])

TalkInv == Recorded /\ Framed /\ CallsTold /\ CausesTold /\ Talks

-----------------------------------------------------------------------------
(* What one event adds to the trace                                         *)

\* An event of one of the types, which has a call if it is an event of one.
Written(type, branch, call, parent, good) ==
    /\ Recorded
    /\ modelCalls \in Nat /\ modelCalls' \in {modelCalls, modelCalls + 1}
    /\ type \in EventTypes /\ branch \in Nat /\ call \in Nat \cup {NoCall}
    /\ parent \in Nat \cup {NoEvent} /\ good \in BOOLEAN
    /\ IF type \in ModelTypes THEN call \in Calls' ELSE call = NoCall
    /\ type = "run.started" => parent = NoEvent
    /\ Emit(type, branch, call, parent, good)

\* What a line that is written changes: there is one more, and those before it rest.
LEMMA EmitEffects ==
    ASSUME NEW type, NEW branch, NEW call, NEW parent, NEW good,
           Written(type, branch, call, parent, good)
    PROVE  /\ Recorded'
           /\ Len(lines) \in Nat /\ Len(lines') = Len(lines) + 1
           /\ Positions = 1..Len(lines) /\ Positions' = Positions \cup {Len(lines) + 1}
           /\ Len(lines) + 1 \notin Positions
           /\ \A i \in Positions : lines'[i] = lines[i]
           /\ lines'[Len(lines) + 1].type = type
           /\ lines'[Len(lines) + 1].branch = branch
           /\ lines'[Len(lines) + 1].call = call
           /\ lines'[Len(lines) + 1].parent = parent
           /\ lines'[Len(lines) + 1].good = good
           /\ lines'[Len(lines) + 1].id = Len(lines)
<1> DEFINE event == [id |-> nextId, type |-> type, branch |-> branch,
                     call |-> call, parent |-> parent, good |-> good]
<1>0. /\ Recorded /\ modelCalls \in Nat /\ modelCalls' \in {modelCalls, modelCalls + 1}
      /\ type \in EventTypes /\ branch \in Nat /\ call \in Nat \cup {NoCall}
      /\ parent \in Nat \cup {NoEvent} /\ good \in BOOLEAN
      /\ IF type \in ModelTypes THEN call \in Calls' ELSE call = NoCall
      /\ type = "run.started" => parent = NoEvent
      /\ Emit(type, branch, call, parent, good)
  BY DEF Written
<1>1. lines' = Append(lines, event) /\ nextId' = nextId + 1 /\ known' = known \cup {nextId}
      /\ ParentValid(type, parent)
  BY <1>0 DEF Emit
<1>2. event \in Events /\ lines \in Seq(Events) /\ Len(lines) \in Nat /\ nextId = Len(lines)
  BY <1>0 DEF Recorded, Events
<1> HIDE DEF event
<1>3. /\ lines' \in Seq(Events)
      /\ Len(lines') = Len(lines) + 1
      /\ Positions = 1..Len(lines) /\ Positions' = 1..(Len(lines) + 1)
      /\ \A i \in Positions : lines'[i] = lines[i]
      /\ lines'[Len(lines) + 1] = event
  BY <1>0, <1>1, <1>2 DEF Positions
<1>4. /\ event.type = type /\ event.branch = branch /\ event.call = call
      /\ event.parent = parent /\ event.good = good /\ event.id = Len(lines)
  BY <1>0, <1>2 DEF event
<1>5. known' = 0..(Len(lines') - 1)
  BY <1>0, <1>1, <1>2, <1>3 DEF Recorded
<1>6. IdsOrdered'
  <2> SUFFICES ASSUME NEW i \in Positions'
               PROVE  /\ lines'[i].id = i - 1
                      /\ IF i = 1
                            THEN lines'[i].type = "run.started" /\ lines'[i].parent = NoEvent
                            ELSE \E j \in 1..(i - 1) : lines'[j].id = lines'[i].parent
    BY <1>0 DEF IdsOrdered
  <2>1. CASE i \in Positions
    <3>1. \A j \in 1..i : j \in Positions /\ lines'[j] = lines[j]
      BY <1>0, <1>2, <1>3, <2>1
    <3>2. \A j \in 1..(i - 1) : j \in 1..i
      BY <1>0, <1>3, <2>1
    <3>3. i \in 1..i
      BY <1>0, <1>3, <2>1
    <3> QED
      BY <1>0, <2>1, <3>1, <3>2, <3>3 DEF Recorded, IdsOrdered
  <2>2. CASE i = Len(lines) + 1 /\ Len(lines) = 0
    <3>1. known = {}
      BY <1>0, <1>2, <2>2 DEF Recorded
    <3> QED
      BY <1>0, <1>1, <1>2, <1>3, <1>4, <2>2, <3>1 DEF ParentValid
  <2>3. CASE i = Len(lines) + 1 /\ Len(lines) # 0
    <3>1. parent \in 0..(Len(lines) - 1)
      <4>1. 0 \in known
        BY <1>0, <1>2, <2>3 DEF Recorded
      <4> QED
        BY <1>0, <1>1, <4>1 DEF ParentValid, Recorded
    <3>2. parent + 1 \in 1..(i - 1) /\ parent + 1 \in Positions
      BY <1>0, <1>2, <1>3, <2>3, <3>1
    <3>3. lines'[parent + 1].id = parent
      <4>1. \A k \in Positions : lines[k].id = k - 1
        BY <1>0 DEF Recorded, IdsOrdered
      <4>2. \A k \in Positions : lines'[k] = lines[k]
        BY <1>3
      <4>3. \A k \in Positions : lines'[k].id = k - 1
        BY <4>1, <4>2
      <4>4. parent \in Int
        BY <1>0, <3>1
      <4>5. PICK k \in Positions : k = parent + 1 /\ k - 1 = parent
        BY <3>2, <4>4
      <4>6. lines'[k].id = k - 1
        BY <4>3
      <4> QED
        BY <4>5, <4>6
    <3> QED
      BY <1>0, <1>2, <1>3, <1>4, <2>3, <3>2, <3>3
  <2> QED
    BY <1>0, <1>2, <1>3, <2>1, <2>2, <2>3
<1>7. \A i \in Positions' :
         IF lines'[i].type \in ModelTypes THEN lines'[i].call \in Calls'
                                          ELSE lines'[i].call = NoCall
  <2> SUFFICES ASSUME NEW i \in Positions'
               PROVE  IF lines'[i].type \in ModelTypes THEN lines'[i].call \in Calls'
                                                       ELSE lines'[i].call = NoCall
    OBVIOUS
  <2>1. Calls \subseteq Calls'
    BY <1>0 DEF Calls
  <2>2. CASE i \in Positions
    BY <1>0, <1>3, <2>1, <2>2 DEF Recorded
  <2>3. CASE i = Len(lines) + 1
    BY <1>0, <1>3, <1>4, <2>3
  <2> QED
    BY <1>0, <1>2, <1>3, <2>2, <2>3
<1>8. Recorded'
  BY <1>0, <1>1, <1>2, <1>3, <1>5, <1>6, <1>7 DEF Recorded
<1> QED
  BY <1>0, <1>2, <1>3, <1>4, <1>8

\* An event joins the events of its own type and call, and no others.
LEMMA EmitAt ==
    ASSUME NEW type, NEW branch, NEW call, NEW parent, NEW good,
           Written(type, branch, call, parent, good),
           NEW t, NEW d
    PROVE  /\ t = type /\ d = call => At(t, d)' = At(t, d) \cup {Len(lines) + 1}
           /\ t # type \/ d # call => At(t, d)' = At(t, d) /\ IdOf(t, d)' = IdOf(t, d)
           /\ t = type /\ d = call /\ At(t, d) = {} => IdOf(t, d)' = Len(lines)
<1>0. /\ Positions' = Positions \cup {Len(lines) + 1}
      /\ \A i \in Positions : lines'[i] = lines[i]
      /\ lines'[Len(lines) + 1].type = type
      /\ lines'[Len(lines) + 1].call = call
      /\ lines'[Len(lines) + 1].id = Len(lines)
      /\ Len(lines) + 1 \notin Positions
  BY EmitEffects
<1>1. t = type /\ d = call => At(t, d)' = At(t, d) \cup {Len(lines) + 1}
  BY <1>0 DEF At
<1>2. t # type \/ d # call => At(t, d)' = At(t, d)
  BY <1>0 DEF At
<1>3. ASSUME At(t, d)' = At(t, d)
      PROVE  IdOf(t, d)' = IdOf(t, d)
  <2>1. \A i \in At(t, d) : lines'[i] = lines[i]
    BY <1>0 DEF At
  <2>2. CASE At(t, d) = {}
    BY <1>3, <2>2 DEF IdOf
  <2>3. CASE At(t, d) # {}
    BY <1>3, <2>1, <2>3 DEF IdOf
  <2> QED
    BY <2>2, <2>3
<1>4. t = type /\ d = call /\ At(t, d) = {} => IdOf(t, d)' = Len(lines)
  <2> SUFFICES ASSUME t = type, d = call, At(t, d) = {}
               PROVE  IdOf(t, d)' = Len(lines)
    OBVIOUS
  <2>1. At(t, d)' = {Len(lines) + 1}
    BY <1>1
  <2> QED
    BY <2>1, <1>0 DEF IdOf
<1> QED
  BY <1>1, <1>2, <1>3, <1>4

\* Where there is an event, its id is a number.
LEMMA IdOfSome ==
    ASSUME Recorded, NEW t, NEW d
    PROVE  /\ At(t, d) # {} => IdOf(t, d) \in Nat
           /\ IdOf(t, d) \in Nat \cup {NoEvent}
<1>1. \A i \in Positions : lines[i].id \in Nat
  BY DEF Recorded, IdsOrdered, Positions
<1>2. \A i \in At(t, d) : lines[i].id \in Nat
  BY <1>1 DEF At
<1>3. At(t, d) # {} => IdOf(t, d) \in Nat
  BY <1>2 DEF IdOf
<1>4. At(t, d) = {} => IdOf(t, d) = NoEvent
  BY DEF IdOf
<1> QED
  BY <1>3, <1>4

\* Where no line is written, no event moves.
LEMMA LinesRest ==
    ASSUME UNCHANGED lines
    PROVE  /\ Positions' = Positions
           /\ \A t, d : At(t, d)' = At(t, d) /\ IdOf(t, d)' = IdOf(t, d)
BY DEF At, IdOf, Positions

\* The events of d are where they were.
SameEvents(d) ==
    /\ \A t \in ModelTypes : At(t, d)' = At(t, d) /\ IdOf(t, d)' = IdOf(t, d)
    /\ \A i \in Positions : lines'[i] = lines[i]

\* A call without a new event keeps its events, and stays settled.
LEMMA EventsKept ==
    ASSUME NEW d, EventsOf(d), SameEvents(d)
    PROVE  EventsOf(d)' /\ (Settled(d) => Settled(d)')
<1>1. \A t \in ModelTypes : \A i \in At(t, d) : lines'[i] = lines[i]
  BY DEF SameEvents, At
<1>2. /\ At("model.request", d)' = At("model.request", d)
      /\ At("model.response", d)' = At("model.response", d)
      /\ At("model.failed", d)' = At("model.failed", d)
      /\ IdOf("model.request", d)' = IdOf("model.request", d)
      /\ IdOf("model.response", d)' = IdOf("model.response", d)
  BY DEF SameEvents, ModelTypes
<1>3. EventsOf(d)'
  BY <1>1, <1>2 DEF EventsOf, Requested, Answered, HasFailed, ModelTypes
<1>4. Settled(d) => Settled(d)'
  BY <1>1, <1>2 DEF Settled, CallAdjacent, Answered, HasFailed, ModelTypes
<1> QED
  BY <1>3, <1>4

-----------------------------------------------------------------------------
(* What a step leaves to show                                               *)

\* The branches below the one that is on top are as they were.
Kept ==
    \A k \in 1..Len(stack') :
        k # Len(stack') => k \in 1..Len(stack) /\ stack'[k] = stack[k]

\* A frame that becomes another stays on top.
LEMMA BecomeIs ==
    ASSUME LoopInv, LoopInv', stack # <<>>, NEW f, Become(f)
    PROVE  Top' = f /\ Kept /\ Len(stack') = Len(stack) /\ stack' # <<>>
<1>1. /\ Len(stack) \in Nat \ {0} /\ DOMAIN stack = 1..Len(stack)
      /\ Len(stack) \in 1..Len(stack)
  BY StackTop
<1>2. stack' = [stack EXCEPT ![Len(stack)] = f]
  BY DEF Become, OnTop
<1>3. DOMAIN stack' = 1..Len(stack) /\ stack' \in Seq(Frames)
  BY <1>1, <1>2 DEF LoopInv, LoopTypes
<1>4. Len(stack') = Len(stack)
  BY <1>1, <1>3, LenProperties
<1>5. stack' # <<>>
  BY <1>1, <1>4, EmptySeq
<1> QED
  BY <1>1, <1>2, <1>4, <1>5 DEF Top, Kept

\* A stack that rests keeps its branches and its top.
LEMMA StackRests ==
    ASSUME UNCHANGED stack
    PROVE  Top' = Top /\ Kept /\ Len(stack') = Len(stack)
BY DEF Top, Kept

\* The branch whose host call is answered is on top now.
LEMMA AnsweredIs ==
    ASSUME LoopInv, LoopInv', NEW s, NEW n, Asker(s, n), NEW f, stack' = OnTop(s, f)
    PROVE  Top' = f /\ Kept /\ Len(stack') = n /\ stack' # <<>>
<1>1. /\ n \in 1..Len(stack) /\ s = SubSeq(stack, 1, n) /\ stack \in Seq(Frames)
      /\ Len(stack) \in Nat /\ n \in Nat /\ 1 <= n /\ n <= Len(stack)
  <2>1. n \in 1..Len(stack) /\ s = SubSeq(stack, 1, n) /\ stack \in Seq(Frames)
        /\ Len(stack) \in Nat
    BY LenProperties DEF Asker, LoopInv, LoopTypes
  <2> QED
    BY <2>1
<1>2. \A k \in 1..n : stack[k] \in Frames
  BY <1>1, ElementOfSeq
<1>3. s \in Seq(Frames) /\ Len(s) = (IF 1 <= n THEN n - 1 + 1 ELSE 0)
      /\ \A k \in 1..(n - 1 + 1) : s[k] = stack[1 + k - 1]
  BY <1>1, <1>2, SubSeqProperties
<1>4. s \in Seq(Frames) /\ Len(s) = n /\ \A k \in 1..n : s[k] = stack[k]
  BY <1>1, <1>3
<1>5. stack' = [s EXCEPT ![n] = f] /\ DOMAIN s = 1..n
  BY <1>4, LenProperties DEF OnTop
<1>6. DOMAIN stack' = 1..n /\ stack' \in Seq(Frames)
  BY <1>5 DEF LoopInv, LoopTypes
<1>7. Len(stack') = n
  BY <1>1, <1>6, LenProperties
<1>8. stack' # <<>>
  BY <1>1, <1>7, EmptySeq
<1>9. n \in 1..n /\ \A k \in 1..n : k \in 1..Len(stack)
  BY <1>1
<1> QED
  BY <1>4, <1>5, <1>7, <1>8, <1>9 DEF Top, Kept

\* A host call that raises goes back to its cell, which may latch it, or ends the
\* run.
LEMMA HostRaisesIs ==
    ASSUME LoopInv, LoopInv', NEW s, NEW n, Asker(s, n), NEW e, HostRaises(s, e)
    PROVE  /\ Kept /\ Len(stack') = n /\ stack' # <<>>
           /\ \/ /\ e.error = "killed" /\ Top' = stack[n]
                 /\ raised' = [error |-> "killed", cause |-> NoEvent]
              \/ Top' = [stack[n] EXCEPT !.place = "cell"] /\ raised' = NoError
              \/ Top' = [stack[n] EXCEPT !.place = "cell", !.latch = e] /\ raised' = NoError
<1>1. s[Len(s)] = stack[n] /\ OnTop(s, stack[n]) = s
  BY AskerIs, Unchanged
<1>2. CASE e.error = "killed" /\ stack' = s /\ raised' = [error |-> "killed", cause |-> NoEvent]
  BY <1>1, <1>2, AnsweredIs
<1>3. CASE stack' = OnTop(s, [stack[n] EXCEPT !.place = "cell"]) /\ raised' = NoError
  BY <1>3, AnsweredIs
<1>4. CASE stack' = OnTop(s, [stack[n] EXCEPT !.place = "cell", !.latch = e]) /\ raised' = NoError
  BY <1>4, AnsweredIs
<1> QED
  BY <1>1, <1>2, <1>3, <1>4 DEF HostRaises

\* A host call that returns goes back to its cell, whose time may be over.
LEMMA HostReturnsIs ==
    ASSUME LoopInv, LoopInv', NEW s, NEW n, Asker(s, n), HostReturns(s)
    PROVE  /\ Kept /\ Len(stack') = n /\ stack' # <<>> /\ raised' = NoError
           /\ \/ Top' = [stack[n] EXCEPT !.place = "cell"]
              \/ Top' = [stack[n] EXCEPT !.place = "cell", !.latch = Limit]
<1>1. s[Len(s)] = stack[n]
  BY AskerIs
<1>2. CASE stack' = OnTop(s, [s[Len(s)] EXCEPT !.place = "cell"]) /\ raised' = NoError
  BY <1>1, <1>2, AnsweredIs
<1>3. CASE HostRaises(s, Limit)
  <2>1. Limit.error # "killed"
    BY LimitIs
  <2>2. /\ Kept /\ Len(stack') = n /\ stack' # <<>>
        /\ \/ /\ Limit.error = "killed" /\ Top' = stack[n]
              /\ raised' = [error |-> "killed", cause |-> NoEvent]
           \/ Top' = [stack[n] EXCEPT !.place = "cell"] /\ raised' = NoError
           \/ Top' = [stack[n] EXCEPT !.place = "cell", !.latch = Limit] /\ raised' = NoError
    BY <1>3, HostRaisesIs
  <2> QED
    BY <2>1, <2>2
<1> QED
  BY <1>2, <1>3 DEF HostReturns

\* A conversation is not disturbed by what other branches trace, nor by the
\* branch's own events other than its actions.
LEMMA DigestedKept ==
    ASSUME NEW f, Digested(f), Positions \subseteq Positions',
           \A i \in Positions : lines'[i] = lines[i],
           \A i \in Positions' \ Positions :
               lines'[i].branch = f.branch => lines'[i].type # "controller.action"
    PROVE  Digested(f)'
<1>1. PICK i \in Positions :
          /\ lines[i].id = f.items[2]
          /\ lines[i].type = "model.response"
          /\ lines[i].branch = f.branch
          /\ \A j \in Positions :
                lines[j].branch = f.branch /\ lines[j].type = "controller.action"
                    => j < i \/ lines[j].parent = lines[i].id
  BY DEF Digested
<1>2. \A j \in Positions' :
         lines'[j].branch = f.branch /\ lines'[j].type = "controller.action"
             => j < i \/ lines'[j].parent = lines'[i].id
  BY <1>1
<1> QED
  BY <1>1, <1>2 DEF Digested

\* A branch that waits is in its cell, and has no say in the other facts.
LEMMA WaitingTalk ==
    ASSUME NEW f, f.place = "cell", Len(f.items) <= 2, Len(f.items) = 2 => Digested(f)
    PROVE  Talk(f)
BY DEF Talk

\* Conversations below the top rest if no new line is of their branches.
LEMMA TalksStep ==
    ASSUME LoopInv, LoopInv', Talks, Kept, Len(stack') \in Nat,
           stack' # <<>> => Talk(Top)',
           Positions \subseteq Positions',
           \A i \in Positions : lines'[i] = lines[i],
           \A k \in 1..Len(stack), i \in Positions' \ Positions :
               k < Len(stack') => lines'[i].branch # stack[k].branch
    PROVE  Talks'
<1> SUFFICES ASSUME NEW k \in 1..Len(stack') PROVE Talk(stack[k])'
  BY DEF Talks
<1>1. stack' # <<>>
  BY EmptySeq
<1>2. CASE k = Len(stack')
  BY <1>1, <1>2 DEF Top
<1>3. CASE k # Len(stack')
  <2>1. k \in 1..Len(stack) /\ stack'[k] = stack[k] /\ k < Len(stack')
    BY <1>3 DEF Kept
  <2>2. stack'[k].place = "cell"
    BY <2>1 DEF LoopInv, Waiting
  <2>3. PICK f : f = stack[k]
    OBVIOUS
  <2>4. f.place = "cell" /\ Busy(f) /\ Talk(f) /\ stack'[k] = f
    BY <2>1, <2>2, <2>3 DEF Talks, Busy
  <2>5. \A i \in Positions' \ Positions : lines'[i].branch # f.branch
    BY <2>1, <2>3
  <2>6. Len(f.items) <= 2 /\ (Len(f.items) = 2 => Digested(f))
    BY <2>4 DEF Talk
  <2>7. Len(f.items) = 2 => Digested(f)'
    BY <2>5, <2>6, DigestedKept
  <2>8. Talk(f)'
    BY <2>4, <2>6, <2>7 DEF Talk, Busy
  <2> QED
    BY <2>4, <2>8 DEF Talk, Digested, Latest, Busy
<1> QED
  BY <1>2, <1>3

\* A step that writes no line keeps what the trace tells.
LEMMA QuietTells ==
    ASSUME LoopInv, LoopInv', TalkInv, UNCHANGED <<traceVars, modelCalls>>, Kept,
           phase \notin {"starting", "closing", "closed"},
           phase' \notin {"starting", "closing", "closed"},
           phase' = "failing" => Traced(fatal)',
           CallsTold', Traced(raised)',
           stack' # <<>> => Traced(Top.latch)' /\ Talk(Top)'
    PROVE  TalkInv'
<1>1. UNCHANGED <<lines, nextId, known, closed, manifest, modelCalls>>
  BY DEF traceVars
<1>2. Positions' = Positions
  BY <1>1, LinesRest
<1>3. Recorded'
  BY <1>1, <1>2 DEF TalkInv, Recorded, IdsOrdered, Calls
<1>4. Framed'
  <2>1. ~closed
    BY DEF LoopInv, RunControl
  <2>2. \A i \in Positions : ~Final(lines[i])
    BY DEF TalkInv, Framed
  <2>3. \A i \in Positions' : ~Final(lines[i])'
    BY <1>1, <1>2, <2>2 DEF Final
  <2>4. \A i \in Positions' : (lines[i].type = "run.started" <=> i = 1)'
    BY <1>1, <1>2 DEF TalkInv, Framed
  <2>5. lines # <<>>
    BY DEF TalkInv, Framed
  <2> QED
    BY <1>1, <2>1, <2>3, <2>4, <2>5 DEF Framed
<1>5. CausesTold'
  BY DEF CausesTold
<1>6. Talks'
  <2>1. Len(stack') \in Nat
    BY LenProperties DEF LoopInv, LoopTypes
  <2>2. Talks
    BY DEF TalkInv
  <2> QED
    BY <1>1, <1>2, <2>1, <2>2, TalksStep
<1> QED
  BY <1>3, <1>4, <1>5, <1>6 DEF TalkInv

\* The event of a branch, and where it is in the trace.
LEMMA LogIs ==
    ASSUME LoopInv, TalkInv, stack # <<>>, phase = "running",
           modelCalls' \in {modelCalls, modelCalls + 1},
           NEW type \in BranchTypes \cup ModelTypes, NEW call \in Nat \cup {NoCall},
           NEW parent \in Nat \cup {NoEvent}, NEW good \in BOOLEAN,
           IF type \in ModelTypes THEN call \in Calls' ELSE call = NoCall,
           Log(type, call, parent, good)
    PROVE  /\ Recorded' /\ lines # <<>> /\ lines' # <<>>
           /\ Len(lines) \in Nat \ {0} /\ Len(lines') = Len(lines) + 1 /\ nextId = Len(lines)
           /\ nextId' = nextId + 1
           /\ Positions = 1..Len(lines) /\ Positions' = Positions \cup {Len(lines) + 1}
           /\ Len(lines) + 1 \notin Positions
           /\ \A i \in Positions : lines'[i] = lines[i]
           /\ lines'[Len(lines) + 1].type = type
           /\ lines'[Len(lines) + 1].branch = Top.branch
           /\ lines'[Len(lines) + 1].parent = parent
           /\ lines'[Len(lines) + 1].good = good
           /\ lines'[Len(lines) + 1].id = Len(lines)
<1>1. Top.branch \in Nat /\ modelCalls \in Nat
  BY StackTop DEF Frames, LoopInv, LoopTypes
<1>2. type \in EventTypes /\ type # "run.started" /\ Recorded
  BY DEF EventTypes, BranchTypes, ModelTypes, TalkInv
<1>3. Emit(type, Top.branch, call, parent, good)
  BY DEF Log
<1>4. PICK b \in Nat : b = Top.branch /\ Emit(type, b, call, parent, good)
  BY <1>1, <1>3
<1>0. Written(type, b, call, parent, good)
  BY <1>1, <1>2, <1>4 DEF Written
<1>5. /\ Recorded'
      /\ Len(lines) \in Nat /\ Len(lines') = Len(lines) + 1
      /\ Positions = 1..Len(lines) /\ Positions' = Positions \cup {Len(lines) + 1}
      /\ Len(lines) + 1 \notin Positions
      /\ \A i \in Positions : lines'[i] = lines[i]
      /\ lines'[Len(lines) + 1].type = type
      /\ lines'[Len(lines) + 1].branch = b
      /\ lines'[Len(lines) + 1].call = call
      /\ lines'[Len(lines) + 1].parent = parent
      /\ lines'[Len(lines) + 1].good = good
      /\ lines'[Len(lines) + 1].id = Len(lines)
  BY <1>0, EmitEffects
<1>6. /\ Recorded'
      /\ Len(lines) \in Nat /\ Len(lines') = Len(lines) + 1
      /\ Positions = 1..Len(lines) /\ Positions' = Positions \cup {Len(lines) + 1}
      /\ Len(lines) + 1 \notin Positions
      /\ \A i \in Positions : lines'[i] = lines[i]
      /\ lines'[Len(lines) + 1].type = type
      /\ lines'[Len(lines) + 1].branch = Top.branch
      /\ lines'[Len(lines) + 1].parent = parent
      /\ lines'[Len(lines) + 1].good = good
      /\ lines'[Len(lines) + 1].id = Len(lines)
  BY <1>4, <1>5
<1>7. lines # <<>> /\ lines \in Seq(Events) /\ nextId = Len(lines) /\ nextId' = nextId + 1
  BY <1>3 DEF TalkInv, Framed, Recorded, Emit
<1>8. Len(lines) # 0
  BY <1>7, EmptySeq
<1>9. lines' # <<>>
  BY <1>6, EmptySeq DEF Recorded
<1> QED
  BY <1>6, <1>7, <1>8, <1>9

\* What LogIs says, in one word.
Logged(type, parent, good) ==
    /\ Recorded' /\ lines # <<>> /\ lines' # <<>>
    /\ Len(lines) \in Nat \ {0} /\ Len(lines') = Len(lines) + 1
    /\ Positions = 1..Len(lines) /\ Positions' = Positions \cup {Len(lines) + 1}
    /\ Len(lines) + 1 \notin Positions
    /\ \A i \in Positions : lines'[i] = lines[i]
    /\ lines'[Len(lines) + 1].type = type
    /\ lines'[Len(lines) + 1].branch = Top.branch
    /\ lines'[Len(lines) + 1].parent = parent
    /\ lines'[Len(lines) + 1].good = good

\* A logged event is logged, as one fact the provers can match.
LEMMA LogIsLogged ==
    ASSUME LoopInv, TalkInv, stack # <<>>, phase = "running",
           modelCalls' \in {modelCalls, modelCalls + 1},
           NEW type \in BranchTypes \cup ModelTypes, NEW call \in Nat \cup {NoCall},
           NEW parent \in Nat \cup {NoEvent}, NEW good \in BOOLEAN,
           IF type \in ModelTypes THEN call \in Calls' ELSE call = NoCall,
           Log(type, call, parent, good)
    PROVE  Logged(type, parent, good)
<1>1. /\ Recorded' /\ lines # <<>> /\ lines' # <<>>
      /\ Len(lines) \in Nat \ {0} /\ Len(lines') = Len(lines) + 1
      /\ Positions = 1..Len(lines) /\ Positions' = Positions \cup {Len(lines) + 1}
      /\ Len(lines) + 1 \notin Positions
      /\ \A i \in Positions : lines'[i] = lines[i]
      /\ lines'[Len(lines) + 1].type = type
      /\ lines'[Len(lines) + 1].branch = Top.branch
      /\ lines'[Len(lines) + 1].parent = parent
      /\ lines'[Len(lines) + 1].good = good
  BY LogIs, SMTT(30)
<1> QED
  BY <1>1 DEF Logged

\* A step of the running branch that logs an event tells what it does.
LEMMA LogTells ==
    ASSUME LoopInv, LoopInv', TalkInv, stack # <<>>, phase = "running", phase' = "running",
           modelCalls' \in {modelCalls, modelCalls + 1}, Kept, Len(stack') = Len(stack),
           NEW type \in BranchTypes \cup ModelTypes, NEW call \in Nat \cup {NoCall},
           NEW parent \in Nat \cup {NoEvent}, NEW good \in BOOLEAN,
           IF type \in ModelTypes THEN call \in Calls' ELSE call = NoCall,
           Log(type, call, parent, good),
           CallsTold', Traced(raised)', Traced(Top.latch)', Talk(Top)'
    PROVE  TalkInv'
<1>1. /\ Recorded' /\ lines # <<>> /\ lines' # <<>>
      /\ Len(lines) \in Nat \ {0} /\ Len(lines') = Len(lines) + 1
      /\ Positions = 1..Len(lines) /\ Positions' = Positions \cup {Len(lines) + 1}
      /\ Len(lines) + 1 \notin Positions
      /\ \A i \in Positions : lines'[i] = lines[i]
      /\ lines'[Len(lines) + 1].type = type
      /\ lines'[Len(lines) + 1].branch = Top.branch
  <2>1. Logged(type, parent, good)
    BY LogIsLogged
  <2> QED
    BY <2>1 DEF Logged
<1>2. Framed'
  <2>1. (~closed)'
    BY DEF LoopInv, RunControl
  <2>2. \A i \in Positions : ~Final(lines[i]) /\ (lines[i].type = "run.started" <=> i = 1)
    BY DEF TalkInv, Framed
  <2>3. type \notin RunTypes
    BY DEF BranchTypes, ModelTypes, RunTypes
  <2>4. \A i \in Positions' : ~Final(lines[i])'
    BY <1>1, <2>2, <2>3 DEF Final, RunTypes
  <2>5. 1 \in Positions /\ Len(lines) + 1 # 1
    BY <1>1
  <2>6. \A i \in Positions' : (lines[i].type = "run.started" <=> i = 1)'
    BY <1>1, <2>2, <2>3, <2>5 DEF RunTypes
  <2> QED
    BY <1>1, <2>1, <2>4, <2>6 DEF Framed
<1>3. CausesTold'
  BY DEF CausesTold
<1>4. Talks'
  <2>1. Len(stack') \in Nat /\ Len(stack) \in 1..Len(stack) /\ Top = stack[Len(stack)]
        /\ Len(stack) \in Nat
    BY StackTop, LenProperties DEF LoopInv, LoopTypes
  <2>2. \A k \in 1..Len(stack) : k < Len(stack) => Top.branch # stack[k].branch
    <3>1. \A k \in 1..Len(stack) : stack[k] \in Frames
      BY ElementOfSeq DEF LoopInv, LoopTypes
    <3>2. \A k \in 1..Len(stack) : stack[k].branch \in Nat
      BY <3>1 DEF Frames
    <3>3. \A k \in 1..Len(stack) : k < Len(stack) => stack[k].branch < stack[Len(stack)].branch
      BY <2>1 DEF LoopInv, Waiting
    <3>4. \A k \in 1..Len(stack) : k < Len(stack) => stack[k].branch # stack[Len(stack)].branch
      BY <2>1, <3>2, <3>3
    <3> QED
      BY <2>1, <3>4
  <2>3. Talks
    BY DEF TalkInv
  <2>4. \A k \in 1..Len(stack), i \in Positions' \ Positions :
            k < Len(stack') => lines'[i].branch # stack[k].branch
    BY <1>1, <2>2
  <2> QED
    BY <1>1, <2>1, <2>3, <2>4, TalksStep
<1> QED
  BY <1>1, <1>2, <1>3, <1>4 DEF TalkInv

\* Nothing is traced, or what is traced is not an action.
Grows ==
    /\ Positions \subseteq Positions'
    /\ \A i \in Positions : lines'[i] = lines[i]
    /\ \A i \in Positions' \ Positions : lines'[i].type # "controller.action"

\* A trace that rests has grown by nothing.
LEMMA RestGrows == ASSUME UNCHANGED lines PROVE Grows
BY LinesRest DEF Grows

\* A branch that is busy with its cell keeps its conversation as the trace grows.
LEMMA BusyTalk ==
    ASSUME NEW f, NEW g, Busy(f), Talk(f), Grows, g.items = f.items, g.branch = f.branch,
           g.place \notin {"starting", "opening", "turn", "parse"},
           g.place = "asking" => g.role = "subcall"
    PROVE  Talk(g)'
<1>1. Len(f.items) <= 2 /\ (Len(f.items) = 2 => Digested(f))
  BY DEF Talk
<1>2. Len(f.items) = 2 => Digested(f)'
  BY <1>1, DigestedKept DEF Grows
<1>3. Len(g.items) = 2 => Digested(g)'
  BY <1>2 DEF Digested
<1> QED
  BY <1>1, <1>3 DEF Talk

\* What is said of a frame is said of the top that it becomes.
LEMMA TopTalk ==
    ASSUME NEW g, Top' = g, Talk(g)'
    PROVE  Talk(Top)'
BY DEF Talk, Digested, Latest, Busy

\* So does the branch on top.
LEMMA BusyTop ==
    ASSUME Busy(Top), Talk(Top), Grows, Top'.items = Top.items, Top'.branch = Top.branch,
           Top'.place \notin {"starting", "opening", "turn", "parse"},
           Top'.place = "asking" => Top'.role = "subcall"
    PROVE  Talk(Top)'
<1>1. PICK f : f = Top
  OBVIOUS
<1>2. PICK g : g = Top'
  OBVIOUS
<1>3. Busy(f) /\ Talk(f)
  BY <1>1 DEF Busy, Talk
<1>4. Talk(g)'
  BY <1>1, <1>2, <1>3, BusyTalk
<1> QED
  BY <1>2, <1>4, TopTalk

\* A top that rests while the trace does keeps its conversation.
LEMMA RestingTop ==
    ASSUME Talk(Top), Top' = Top, UNCHANGED <<lines, nextId>>
    PROVE  Talk(Top)'
<1>1. Positions' = Positions
  BY DEF Positions
<1> QED
  BY <1>1 DEF Talk, Digested, Latest, Busy

\* The conversation of the top is one of those the invariant speaks of.
LEMMA TopTalks ==
    ASSUME LoopInv, TalkInv, stack # <<>>
    PROVE  Talk(Top)
BY StackTop DEF TalkInv, Talks

\* Exceptions and their causes.
LEMMA Uncaused ==
    ASSUME NEW e, e.cause = NoEvent
    PROVE  Traced(e) /\ Traced(e)'
BY DEF Traced

\* An exception whose cause is in the trace keeps it there.
LEMMA TracedRest ==
    ASSUME NEW e, Traced(e), UNCHANGED lines
    PROVE  Traced(e)'
<1>1. Positions' = Positions
  BY DEF Positions
<1> QED
  BY <1>1 DEF Traced, Causing

\* No exception needs no cause in the trace.
LEMMA NoneRaised ==
    ASSUME raised' = NoError
    PROVE  Traced(raised)'
BY NoErrorIs DEF Traced

\* Nor does a cell that has latched none.
LEMMA NoneLatched ==
    ASSUME Top'.latch = NoError
    PROVE  Traced(Top.latch)'
BY NoErrorIs DEF Traced

\* Calls are told of as before when none is on its way.
NoneAwaited == ~TopAt("asked") /\ ~TopAt("answered")

\* What the trace tells of the calls rests with the trace.
LEMMA CallsRest ==
    ASSUME TalkInv, UNCHANGED <<lines, modelCalls>>, NoneAwaited, NoneAwaited'
    PROVE  CallsTold'
<1>1. \A d \in Calls : SameEvents(d)
  BY LinesRest DEF SameEvents
<1>2. \A d \in Calls : EventsOf(d) /\ Settled(d)
  BY DEF TalkInv, CallsTold, Awaited, NoneAwaited
<1>3. \A d \in Calls : EventsOf(d)' /\ Settled(d)'
  BY <1>1, <1>2, EventsKept
<1> QED
  BY <1>3 DEF CallsTold, NoneAwaited, Calls

\* It also rests when a line about a branch is written.
LEMMA CallsBeside ==
    ASSUME LoopInv, TalkInv, stack # <<>>, UNCHANGED modelCalls, NoneAwaited, NoneAwaited',
           NEW type \in BranchTypes, NEW parent \in Nat,
           Log(type, NoCall, parent, TRUE)
    PROVE  CallsTold'
<1>1. type \in EventTypes /\ type \notin ModelTypes /\ type # "run.started" /\ Recorded
      /\ modelCalls \in Nat /\ Top.branch \in Nat
  BY StackTop DEF EventTypes, BranchTypes, ModelTypes, TalkInv, LoopInv, LoopTypes, Frames
<1>2. PICK b \in Nat : Emit(type, b, NoCall, parent, TRUE)
  BY <1>1 DEF Log
<1>0. Written(type, b, NoCall, parent, TRUE)
  BY <1>1, <1>2 DEF Written
<1>3. ASSUME NEW t \in ModelTypes, NEW d \in Calls
      PROVE  At(t, d)' = At(t, d) /\ IdOf(t, d)' = IdOf(t, d)
  BY <1>0, <1>1, EmitAt
<1>4. \A i \in Positions : lines'[i] = lines[i]
  BY <1>0, EmitEffects
<1>5. \A d \in Calls : SameEvents(d)
  BY <1>3, <1>4 DEF SameEvents
<1>6. \A d \in Calls : EventsOf(d) /\ Settled(d)
  BY DEF TalkInv, CallsTold, Awaited, NoneAwaited
<1>7. \A d \in Calls : EventsOf(d)' /\ Settled(d)'
  BY <1>5, <1>6, EventsKept
<1> QED
  BY <1>7 DEF CallsTold, NoneAwaited, Calls

\* The branch traces nothing, and no call is on its way.
LEMMA RestTells ==
    ASSUME LoopInv, LoopInv', TalkInv, NEW spot, TopAt(spot),
           spot \notin {"asked", "answered"}, NoneAwaited',
           UNCHANGED <<traceVars, modelCalls>>, Kept, phase' \in {"running", "completing"},
           Traced(raised)', stack' # <<>> => Traced(Top.latch)' /\ Talk(Top)'
    PROVE  TalkInv'
<1>1. phase = "running" /\ NoneAwaited /\ UNCHANGED lines
  BY TopAtIs DEF NoneAwaited, TopAt, traceVars
<1>2. CallsTold'
  BY <1>1, CallsRest
<1> QED
  BY <1>1, <1>2, QuietTells

\* The branch traces an event of its own.
LEMMA EventTells ==
    ASSUME LoopInv, LoopInv', TalkInv, NEW spot, TopAt(spot),
           spot \notin {"asked", "answered"}, NoneAwaited',
           UNCHANGED modelCalls, Kept, Len(stack') = Len(stack), phase' = "running",
           NEW type \in BranchTypes, NEW parent \in Nat, Log(type, NoCall, parent, TRUE),
           Traced(raised)', Traced(Top.latch)', Talk(Top)'
    PROVE  TalkInv'
<1>1. phase = "running" /\ NoneAwaited /\ stack # <<>>
  BY TopAtIs DEF NoneAwaited, TopAt
<1>2. CallsTold'
  BY <1>1, CallsBeside
<1>3. type \notin ModelTypes /\ TRUE \in BOOLEAN
  BY DEF BranchTypes, ModelTypes
<1> QED
  BY <1>1, <1>2, <1>3, LogTells

\* The same for what is traced, as its place in the trace.
LEMMA EventIs ==
    ASSUME LoopInv, TalkInv, NEW spot, TopAt(spot), UNCHANGED modelCalls,
           NEW type \in BranchTypes, NEW parent \in Nat, Log(type, NoCall, parent, TRUE)
    PROVE  /\ lines' # <<>> /\ nextId \in Nat
           /\ Len(lines) \in Nat \ {0} /\ Len(lines') = Len(lines) + 1 /\ nextId = Len(lines)
           /\ nextId' = nextId + 1
           /\ Positions = 1..Len(lines) /\ Positions' = Positions \cup {Len(lines) + 1}
           /\ Len(lines) + 1 \notin Positions
           /\ \A i \in Positions : lines'[i] = lines[i]
           /\ lines'[Len(lines')].type = type
           /\ lines'[Len(lines')].branch = Top.branch
           /\ lines'[Len(lines')].parent = parent
           /\ lines'[Len(lines')].id = nextId
           /\ type # "controller.action" => Grows
<1>1. phase = "running" /\ stack # <<>>
  BY TopAtIs DEF TopAt
<1>2. type \notin ModelTypes /\ TRUE \in BOOLEAN
  BY DEF BranchTypes, ModelTypes
<1>3. /\ lines' # <<>>
      /\ Len(lines) \in Nat \ {0} /\ Len(lines') = Len(lines) + 1 /\ nextId = Len(lines)
      /\ nextId' = nextId + 1
      /\ Positions = 1..Len(lines) /\ Positions' = Positions \cup {Len(lines) + 1}
      /\ Len(lines) + 1 \notin Positions
      /\ \A i \in Positions : lines'[i] = lines[i]
      /\ lines'[Len(lines) + 1].type = type
      /\ lines'[Len(lines) + 1].branch = Top.branch
      /\ lines'[Len(lines) + 1].parent = parent
      /\ lines'[Len(lines) + 1].id = Len(lines)
  BY <1>1, <1>2, LogIs
<1>4. type # "controller.action" => Grows
  BY <1>3 DEF Grows
<1> QED
  BY <1>3, <1>4

-----------------------------------------------------------------------------
(* Every step keeps TalkInv                                                 *)

\* A branch is left without an event: the exception has no cause, or that of
\* the failure that was latched.
LEMMA LeaveTells ==
    ASSUME LoopInv, LoopInv', TalkInv, NEW spot, TopAt(spot),
           spot \notin {"asked", "answered"},
           UNCHANGED <<traceVars, modelCalls, phase>>,
           NEW error \in Errors \ {"none"}, NEW cause \in {NoEvent, Top.latch.cause},
           Leave(error, cause)
    PROVE  TalkInv'
<1>1. /\ UNCHANGED <<stack, lines, nextId>> /\ raised' = [error |-> error, cause |-> cause]
      /\ phase = "running" /\ stack # <<>>
  BY TopAtIs DEF Leave, traceVars
<1>2. raised' # NoError
  BY <1>1, NoErrorIs
<1>3. NoneAwaited'
  BY <1>2 DEF NoneAwaited, TopAt
<1>4. Kept /\ Top' = Top
  BY <1>1, StackRests
<1>5. PICK l : l = Top.latch
  OBVIOUS
<1>6. Traced(l)'
  BY <1>1, <1>5, TracedRest DEF TalkInv, CausesTold
<1>7. Traced(Top.latch)'
  BY <1>4, <1>5, <1>6 DEF Traced, Causing
<1>8. Traced(raised)'
  <2>1. CASE cause = NoEvent
    BY <1>1, <2>1 DEF Traced
  <2>2. CASE cause = Top.latch.cause
    BY <1>1, <1>5, <1>6, <2>2 DEF Traced, Causing
  <2> QED
    BY <2>1, <2>2
<1>9. Talk(Top)'
  BY <1>1, <1>4, TopTalks, RestingTop
<1> QED
  BY <1>1, <1>3, <1>4, <1>7, <1>8, <1>9, RestTells

\* A handler that only raises keeps what the trace tells.
LEMMA OutOfTimeTells ==
    ASSUME LoopInv, LoopInv', TalkInv, NEW spot, TopAt(spot),
           spot \notin {"asked", "answered"},
           UNCHANGED <<traceVars, modelCalls, phase>>,
           OutOfTime \/ \E error \in {"limit", "killed", "executor"} : Leave(error, NoEvent)
    PROVE  TalkInv'
<1>1. PICK error \in {"limit", "killed", "executor"} : Leave(error, NoEvent)
  BY DEF OutOfTime
<1>2. error \in Errors \ {"none"}
  BY DEF Errors
<1> QED
  BY <1>1, <1>2, LeaveTells

\* A host call is answered without an event.
LEMMA AnswerTells ==
    ASSUME LoopInv, LoopInv', TalkInv, UNCHANGED <<traceVars, modelCalls>>, NoneAwaited,
           phase = "running", phase' = "running",
           NEW s, NEW n, Asker(s, n), Busy(stack[n]), stack[n].place \notin {"asked", "answered"},
           NEW e, Traced(e), HostRaises(s, e) \/ (HostReturns(s) /\ e = Limit)
    PROVE  TalkInv'
<1>1. n \in 1..Len(stack) /\ stack[n].latch = NoError /\ stack[n] \in Frames /\ UNCHANGED lines
  BY AskerIs DEF Asker, traceVars
<1>2. /\ Kept /\ stack' # <<>>
      /\ \/ /\ Top' = stack[n]
            /\ raised' = [error |-> "killed", cause |-> NoEvent]
         \/ Top' = [stack[n] EXCEPT !.place = "cell"] /\ raised' = NoError
         \/ Top' = [stack[n] EXCEPT !.place = "cell", !.latch = e] /\ raised' = NoError
  <2>1. CASE HostRaises(s, e)
    BY <2>1, HostRaisesIs
  <2>2. CASE HostReturns(s) /\ e = Limit
    BY <2>2, HostReturnsIs
  <2> QED
    BY <2>1, <2>2
<1>3. /\ Top'.items = stack[n].items /\ Top'.branch = stack[n].branch
      /\ Top'.place \in {"cell", stack[n].place} /\ Top'.role = stack[n].role
      /\ Top'.latch \in {NoError, e}
  BY <1>1, <1>2 DEF Frames
<1>4. Talk(stack[n])
  BY <1>1 DEF TalkInv, Talks
<1>5. Talk(Top)'
  <2>1. PICK f : f = stack[n]
    OBVIOUS
  <2>2. PICK g : g = Top'
    OBVIOUS
  <2>3. Busy(f) /\ Talk(f)
    BY <1>4, <2>1 DEF Busy, Talk
  <2>4. g.place \notin {"starting", "opening", "turn", "parse"}
        /\ (g.place = "asking" => g.role = "subcall")
    BY <1>3, <2>1, <2>2, <2>3 DEF Busy, Talk
  <2>5. g.items = f.items /\ g.branch = f.branch
    BY <1>3, <2>1, <2>2
  <2>6. Talk(g)'
    BY <1>1, <2>3, <2>4, <2>5, RestGrows, BusyTalk
  <2> QED
    BY <2>2, <2>6, TopTalk
<1>6. NoneAwaited'
  BY <1>1, <1>3 DEF NoneAwaited, TopAt
<1>7. CallsTold'
  BY <1>1, <1>6, CallsRest
<1>8. Traced(e)'
  BY <1>1, TracedRest
<1>9. Traced(Top.latch)'
  BY <1>3, <1>8, NoErrorIs DEF Traced, Causing
<1>10. Traced(raised)'
  BY <1>2, NoErrorIs DEF Traced
<1> QED
  BY <1>1, <1>2, <1>5, <1>7, <1>9, <1>10, QuietTells

\* So do the handlers from the start of a branch to that of a cell.
LEMMA OpeningTells ==
    ASSUME LoopInv, LoopInv', TalkInv, StartBranch \/ OpenExecutor \/ TurnsExhausted \/ StartCell
    PROVE  TalkInv'
<1>1. CASE StartBranch
  <2>1. TopAt("starting") /\ UNCHANGED <<modelCalls, phase>>
    BY <1>1 DEF StartBranch, ledgerVars, counters
  <2>2. CASE Log("branch.started", NoCall, Top.cause, TRUE) /\ UNCHANGED raised
             /\ Become([Top EXCEPT !.place = "opening", !.cause = nextId, !.items = <<nextId>>])
    <3> DEFINE f == [Top EXCEPT !.place = "opening", !.cause = nextId, !.items = <<nextId>>]
    <3>1. Top \in Frames /\ Top.cause \in Nat /\ stack # <<>> /\ raised' = NoError
          /\ Top.latch = NoError /\ phase' = "running"
      BY <2>1, <2>2, TopAtIs
    <3>2. "branch.started" \in BranchTypes /\ "branch.started" \in Turning
      BY DEF BranchTypes, Turning
    <3>3. /\ lines' # <<>> /\ nextId \in Nat /\ nextId' = nextId + 1
          /\ lines'[Len(lines')].type = "branch.started"
          /\ lines'[Len(lines')].branch = Top.branch
      BY <2>1, <2>2, <3>1, <3>2, EventIs
    <3>4. /\ f.place = "opening" /\ f.cause = nextId /\ f.items = <<nextId>>
          /\ f.branch = Top.branch /\ f.latch = NoError /\ f.turn = Top.turn
      BY <3>1 DEF Frames
    <3> HIDE DEF f
    <3>5. Top' = f /\ Kept /\ Len(stack') = Len(stack)
      BY <2>2, <3>1, BecomeIs DEF f
    <3>6. f.turn = 1
      BY <2>1, <3>1, <3>4, TopTalks DEF Talk, TopAt
    <3>7. Talk(Top)'
      <4>1. <<nextId>>[1] = nextId /\ Len(<<nextId>>) = 1
        OBVIOUS
      <4>2. nextId' - 1 = nextId
        BY <3>3
      <4> QED
        BY <3>2, <3>3, <3>4, <3>5, <3>6, <4>1, <4>2 DEF Talk, Latest, Busy
    <3>8. NoneAwaited'
      BY <3>4, <3>5 DEF NoneAwaited, TopAt
    <3>9. Traced(raised)' /\ Traced(Top.latch)'
      BY <3>1, <3>4, <3>5, NoneRaised, NoneLatched
    <3> QED
      BY <2>1, <2>2, <3>1, <3>2, <3>5, <3>7, <3>8, <3>9, EventTells
  <2>3. CASE OutOfTime /\ UNCHANGED traceVars
    BY <2>1, <2>3, OutOfTimeTells
  <2> QED
    BY <1>1, <2>2, <2>3 DEF StartBranch
<1>2. CASE OpenExecutor
  <2>1. TopAt("opening") /\ UNCHANGED <<traceVars, modelCalls, phase>>
    BY <1>2 DEF OpenExecutor, ledgerVars, counters
  <2>2. CASE Become([Top EXCEPT !.place = "turn"]) /\ UNCHANGED raised
    <3> DEFINE f == [Top EXCEPT !.place = "turn"]
    <3>1. Top \in Frames /\ stack # <<>> /\ raised' = NoError /\ Top.place = "opening"
          /\ Top.latch = NoError /\ phase' = "running" /\ UNCHANGED <<lines, nextId>>
      BY <2>1, <2>2, TopAtIs DEF traceVars
    <3>2. /\ f.place = "turn" /\ f.cause = Top.cause /\ f.items = Top.items
          /\ f.branch = Top.branch /\ f.latch = NoError /\ f.turn = Top.turn
      BY <3>1 DEF Frames
    <3> HIDE DEF f
    <3>3. Top' = f /\ Kept
      BY <2>2, <3>1, BecomeIs DEF f
    <3>4. Talk(Top)'
      <4>1. Latest(Top, Turning) /\ Top.items[Len(Top.items)] = Top.cause /\ Len(Top.items) = 1
        BY <3>1, TopTalks DEF Talk
      <4>2. Latest(Top, Turning)'
        BY <3>1, <3>2, <3>3, <4>1 DEF Latest, Turning
      <4>3. Top'.place = "turn" /\ Len(Top'.items) = 1 /\ Top'.items[Len(Top'.items)] = Top'.cause
        BY <3>2, <3>3, <4>1
      <4>4. Len(Top'.items) <= 3 /\ Len(Top'.items) # 3
        BY <4>3
      <4> QED
        BY <4>2, <4>3, <4>4 DEF Talk, Busy
    <3>5. NoneAwaited'
      BY <3>2, <3>3 DEF NoneAwaited, TopAt
    <3>6. Traced(raised)' /\ Traced(Top.latch)'
      BY <3>1, <3>2, <3>3, NoneRaised, NoneLatched
    <3> QED
      BY <2>1, <3>1, <3>3, <3>4, <3>5, <3>6, RestTells
  <2>3. CASE OutOfTime
    BY <2>1, <2>3, OutOfTimeTells
  <2>4. CASE \E error \in {"killed", "executor"} : Leave(error, NoEvent)
    BY <2>1, <2>4, OutOfTimeTells
  <2> QED
    BY <1>2, <2>2, <2>3, <2>4 DEF OpenExecutor
<1>3. CASE TurnsExhausted
  <2>1. TopAt("turn") /\ UNCHANGED <<traceVars, modelCalls, phase>> /\ Leave("limit", NoEvent)
    BY <1>3 DEF TurnsExhausted, ledgerVars, counters
  <2> QED
    BY <2>1, OutOfTimeTells
<1>4. CASE StartCell
  <2>1. TopAt("launch") /\ UNCHANGED <<traceVars, modelCalls, phase>>
    BY <1>4 DEF StartCell, ledgerVars, counters
  <2>2. CASE Become([Top EXCEPT !.place = "cell"]) /\ UNCHANGED raised
    <3> DEFINE f == [Top EXCEPT !.place = "cell"]
    <3>1. Top \in Frames /\ stack # <<>> /\ raised' = NoError /\ Top.place = "launch"
          /\ Top.latch = NoError /\ phase' = "running" /\ UNCHANGED lines
      BY <2>1, <2>2, TopAtIs DEF traceVars
    <3>2. f.place = "cell" /\ f.items = Top.items /\ f.branch = Top.branch /\ f.latch = NoError
      BY <3>1 DEF Frames
    <3> HIDE DEF f
    <3>3. Top' = f /\ Kept
      BY <2>2, <3>1, BecomeIs DEF f
    <3>4. Talk(Top)'
      BY <3>1, <3>2, <3>3, TopTalks, RestGrows, BusyTop DEF Busy
    <3>5. NoneAwaited'
      BY <3>2, <3>3 DEF NoneAwaited, TopAt
    <3>6. Traced(raised)' /\ Traced(Top.latch)'
      BY <3>1, <3>2, <3>3, NoneRaised, NoneLatched
    <3> QED
      BY <2>1, <3>1, <3>3, <3>4, <3>5, <3>6, RestTells
  <2>3. CASE OutOfTime
    BY <2>1, <2>3, OutOfTimeTells
  <2> QED
    BY <1>4, <2>2, <2>3 DEF StartCell
<1> QED
  BY <1>1, <1>2, <1>3, <1>4

\* From one place of a turn to another, without an event.
LEMMA MovingTells ==
    ASSUME LoopInv, LoopInv', TalkInv, NEW spot, TopAt(spot),
           spot \notin {"asked", "answered"}, Busy(Top), Top.latch = NoError,
           UNCHANGED <<traceVars, modelCalls, phase, raised>>,
           NEW next \in {"recover", "asking"}, NEW role \in {Top.role, "subcall"},
           next = "asking" => role = "subcall",
           Become([Top EXCEPT !.place = next, !.role = role])
    PROVE  TalkInv'
<1> DEFINE f == [Top EXCEPT !.place = next, !.role = role]
<1>1. Top \in Frames /\ stack # <<>> /\ raised' = NoError /\ phase' = "running" /\ UNCHANGED lines
  BY TopAtIs DEF traceVars
<1>2. f.place = next /\ f.items = Top.items /\ f.branch = Top.branch /\ f.latch = NoError
      /\ f.role = role
  BY <1>1 DEF Frames
<1> HIDE DEF f
<1>3. Top' = f /\ Kept
  BY <1>1, BecomeIs DEF f
<1>4. Talk(Top)'
  BY <1>1, <1>2, <1>3, TopTalks, RestGrows, BusyTop
<1>5. NoneAwaited'
  BY <1>2, <1>3 DEF NoneAwaited, TopAt
<1>6. Traced(raised)' /\ Traced(Top.latch)'
  BY <1>1, <1>2, <1>3, NoneRaised, NoneLatched
<1> QED
  BY <1>1, <1>3, <1>4, <1>5, <1>6, RestTells

\* An event of a call, and what it changes of what the trace has of the calls.
LEMMA CallEvent ==
    ASSUME LoopInv, TalkInv, stack # <<>>, modelCalls' \in {modelCalls, modelCalls + 1},
           NEW type \in ModelTypes, NEW c \in Nat, c \in Calls',
           NEW parent \in Nat \cup {NoEvent}, NEW good \in BOOLEAN,
           Log(type, c, parent, good)
    PROVE  /\ \A d : d # c => SameEvents(d)
           /\ At(type, c)' = At(type, c) \cup {Len(lines) + 1}
           /\ \A t \in ModelTypes \ {type} : At(t, c)' = At(t, c) /\ IdOf(t, c)' = IdOf(t, c)
           /\ \A i \in Positions : lines'[i] = lines[i]
           /\ lines'[Len(lines) + 1].parent = parent
           /\ lines'[Len(lines) + 1].good = good
           /\ Len(lines) \in Nat /\ Positions = 1..Len(lines)
<1>1. Top.branch \in Nat /\ modelCalls \in Nat /\ Recorded
  BY StackTop DEF Frames, LoopInv, LoopTypes, TalkInv
<1>2. PICK b \in Nat : Emit(type, b, c, parent, good)
  BY <1>1 DEF Log
<1>3. type \in EventTypes /\ type # "run.started"
  BY DEF EventTypes, ModelTypes
<1>4. c \in Nat \cup {NoCall} /\ (IF type \in ModelTypes THEN c \in Calls' ELSE c = NoCall)
  OBVIOUS
<1>0. Written(type, b, c, parent, good)
  BY <1>1, <1>2, <1>3, <1>4 DEF Written
<1>5. /\ \A i \in Positions : lines'[i] = lines[i]
      /\ lines'[Len(lines) + 1].parent = parent
      /\ lines'[Len(lines) + 1].good = good
      /\ Len(lines) \in Nat /\ Positions = 1..Len(lines)
  BY <1>0, EmitEffects
<1>6. ASSUME NEW t, NEW d
      PROVE  /\ t = type /\ d = c => At(t, d)' = At(t, d) \cup {Len(lines) + 1}
             /\ t # type \/ d # c => At(t, d)' = At(t, d) /\ IdOf(t, d)' = IdOf(t, d)
  BY <1>0, EmitAt
<1>7. \A d : d # c => SameEvents(d)
  BY <1>5, <1>6 DEF SameEvents
<1> QED
  BY <1>5, <1>6, <1>7

\* A request opens the next call.
LEMMA RequestCalls ==
    ASSUME LoopInv, TalkInv, NEW spot \in {"turn", "asking"}, TopAt(spot),
           NEW parent \in Nat \cup {NoEvent}, modelCalls' = modelCalls + 1,
           NEW c, c = modelCalls + 1,
           Log("model.request", c, parent, TRUE),
           TopAt("asked")', (~TopAt("answered"))', Top'.call = c
    PROVE  CallsTold'
<1>1. /\ modelCalls \in Nat /\ c \in Nat /\ c \in Calls' /\ Calls' = Calls \cup {c} /\ c \notin Calls
      /\ stack # <<>> /\ Recorded
  BY TopAtIs DEF LoopInv, LoopTypes, Calls, TalkInv
<1>2. "model.request" \in ModelTypes /\ TRUE \in BOOLEAN
  BY DEF ModelTypes
<1>3. /\ \A d : d # c => SameEvents(d)
      /\ At("model.request", c)' = At("model.request", c) \cup {Len(lines) + 1}
      /\ \A t \in ModelTypes \ {"model.request"} : At(t, c)' = At(t, c) /\ IdOf(t, c)' = IdOf(t, c)
  BY <1>1, <1>2, CallEvent
<1>4. ASSUME NEW d \in Calls
      PROVE  EventsOf(d)' /\ Settled(d)'
  <2>1. EventsOf(d) /\ Settled(d)
    BY <1>4 DEF TalkInv, CallsTold, Awaited, TopAt
  <2> QED
    BY <1>1, <1>3, <1>4, <2>1, EventsKept
<1>5. \A t \in ModelTypes : At(t, c) = {}
  BY <1>1 DEF Recorded, At
<1>6. At("model.request", c)' = {Len(lines) + 1}
  BY <1>2, <1>3, <1>5
<1>7. At("model.response", c)' = {} /\ At("model.failed", c)' = {}
  BY <1>3, <1>5 DEF ModelTypes
<1>8. EventsOf(c)' /\ ~Answered(c)' /\ ~HasFailed(c)'
  BY <1>6, <1>7 DEF EventsOf, AtMostOne, Requested, Answered, HasFailed
<1>9. Awaited(c)'
  BY DEF Awaited
<1>10. \A d \in Calls' : (EventsOf(d) /\ (Settled(d) \/ Awaited(d)))'
  BY <1>1, <1>4, <1>8, <1>9
<1>11. (Top.call \in Calls /\ ~Answered(Top.call) /\ ~HasFailed(Top.call))'
  BY <1>1, <1>7 DEF Answered, HasFailed, At
<1> QED
  BY <1>10, <1>11 DEF CallsTold

\* So does a request for a call, which writes its first event.
LEMMA RequestTells ==
    ASSUME LoopInv, LoopInv', TalkInv, NEW spot \in {"turn", "asking"}, TopAt(spot),
           UNCHANGED phase, NEW parent \in Nat \cup {NoEvent},
           NEW f \in {[Top EXCEPT !.role = "controller"], Top},
           spot = "turn" => f = [Top EXCEPT !.role = "controller"],
           spot = "asking" => f = Top,
           Request(f, parent)
    PROVE  TalkInv'
<1>1. /\ Top \in Frames /\ stack # <<>> /\ phase = "running" /\ modelCalls \in Nat
      /\ Top.latch = NoError /\ Top.place = spot
      /\ raised = NoError /\ modelCalls' = modelCalls + 1 /\ UNCHANGED raised
  BY TopAtIs DEF Request, ReserveModelCall
<1>2. PICK c : c = modelCalls + 1
  OBVIOUS
<1> DEFINE g == [f EXCEPT !.place = "asked", !.call = modelCalls + 1]
<1>3. f \in Frames /\ f.items = Top.items /\ f.branch = Top.branch /\ f.latch = NoError
      /\ (spot = "turn" => f.role = "controller") /\ (spot = "asking" => f = Top)
  <2>1. CASE f = Top
    BY <1>1, <2>1 DEF Frames
  <2>2. CASE f = [Top EXCEPT !.role = "controller"]
    BY <1>1, <2>2 DEF Frames
  <2> QED
    BY <2>1, <2>2
<1>4. /\ g.place = "asked" /\ g.items = Top.items /\ g.branch = Top.branch /\ g.latch = NoError
      /\ g.call = c /\ g.role = f.role
  BY <1>2, <1>3 DEF Frames
<1>5. Become(g) /\ Log("model.request", c, parent, TRUE)
  BY <1>2 DEF Request
<1> HIDE DEF g
<1>6. Top' = g /\ Kept /\ Len(stack') = Len(stack) /\ stack' # <<>>
  BY <1>1, <1>5, BecomeIs
<1>7. TopAt("asked")' /\ (~TopAt("answered"))'
  BY <1>1, <1>4, <1>6 DEF TopAt
<1>8. CallsTold'
  BY <1>1, <1>2, <1>4, <1>5, <1>6, <1>7, RequestCalls
<1>9. "model.request" \in BranchTypes \cup ModelTypes /\ TRUE \in BOOLEAN
      /\ "model.request" \in ModelTypes /\ c \in Nat \cup {NoCall} /\ c \in Calls'
  BY <1>1, <1>2 DEF ModelTypes, Calls
<1>10. Grows
  <2>1. /\ Positions' = Positions \cup {Len(lines) + 1}
        /\ \A i \in Positions : lines'[i] = lines[i]
        /\ lines'[Len(lines) + 1].type = "model.request"
    BY <1>1, <1>5, <1>9, LogIs
  <2> QED
    BY <2>1 DEF Grows
<1>11. Talk(Top)'
  <2>1. CASE spot = "turn"
    BY <1>3, <1>4, <1>6, <2>1 DEF Talk, Busy
  <2>2. CASE spot = "asking"
    <3>1. Busy(Top) /\ Talk(Top)
      BY <1>1, <2>2, TopTalks DEF Busy
    <3> QED
      BY <1>4, <1>6, <1>10, <3>1, BusyTop
  <2> QED
    BY <2>1, <2>2
<1>12. Traced(raised)' /\ Traced(Top.latch)'
  BY <1>1, <1>4, <1>6, NoneRaised, NoneLatched
<1>13. phase' = "running" /\ modelCalls' \in {modelCalls, modelCalls + 1}
  BY <1>1
<1> QED
  BY <1>1, <1>5, <1>6, <1>8, <1>9, <1>11, <1>12, <1>13, LogTells

\* So do the two handlers that make a request, and a value that is returned.
LEMMA AskingTells ==
    ASSUME LoopInv, LoopInv', TalkInv, ControllerTurn \/ AskModel \/ ReturnValue
    PROVE  TalkInv'
<1>1. CASE ControllerTurn
  <2>1. TopAt("turn") /\ UNCHANGED phase /\ Top.cause \in Nat
    BY <1>1, TopAtIs DEF ControllerTurn
  <2>2. CASE Request([Top EXCEPT !.role = "controller"], Top.cause)
    BY <2>1, <2>2, RequestTells
  <2>3. CASE Leave("limit", NoEvent) /\ UNCHANGED <<ledgerVars, traceVars>>
    <3>1. UNCHANGED modelCalls
      BY <2>3 DEF ledgerVars, counters
    <3> QED
      BY <2>1, <2>3, <3>1, OutOfTimeTells
  <2> QED
    BY <1>1, <2>2, <2>3 DEF ControllerTurn
<1>2. CASE AskModel
  <2>1. TopAt("asking") /\ UNCHANGED phase /\ Top.action \in Nat /\ phase = "running"
        /\ stack # <<>> /\ Top.place = "asking" /\ Top.latch = NoError
    BY <1>2, TopAtIs DEF AskModel, Frames
  <2>2. CASE Request(Top, Top.action)
    BY <2>1, <2>2, RequestTells
  <2>3. CASE HostRaises(stack, Limit) /\ UNCHANGED <<ledgerVars, traceVars>>
    <3>1. UNCHANGED <<traceVars, modelCalls>>
      BY <2>3 DEF ledgerVars, counters
    <3>2. Asker(stack, Len(stack)) /\ Top = stack[Len(stack)]
      BY <2>1, AskerOfTop, StackTop
    <3>3. Busy(stack[Len(stack)]) /\ stack[Len(stack)].place \notin {"asked", "answered"}
      BY <2>1, <3>2 DEF Busy
    <3>4. Traced(Limit) /\ NoneAwaited
      BY <2>1, LimitIs DEF Traced, NoneAwaited, TopAt
    <3>5. phase' = "running"
      BY <2>1
    <3> QED
      BY <2>1, <2>3, <3>1, <3>2, <3>3, <3>4, <3>5, AnswerTells
  <2> QED
    BY <1>2, <2>2, <2>3 DEF AskModel
<1>3. CASE ReturnValue
  <2>1. TopAt("returning") /\ phase = "running" /\ UNCHANGED phase /\ HostReturns(stack)
        /\ stack # <<>> /\ Top.place = "returning" /\ Top.latch = NoError
    BY <1>3, TopAtIs DEF ReturnValue
  <2>2. UNCHANGED <<traceVars, modelCalls>>
    BY <1>3 DEF ReturnValue, ledgerVars, counters
  <2>3. Asker(stack, Len(stack)) /\ Top = stack[Len(stack)]
    BY <2>1, AskerOfTop, StackTop
  <2>4. Busy(stack[Len(stack)]) /\ stack[Len(stack)].place \notin {"asked", "answered"}
    BY <2>1, <2>3 DEF Busy
  <2>5. Traced(Limit) /\ NoneAwaited
    BY <2>1, LimitIs DEF Traced, NoneAwaited, TopAt
  <2>6. phase' = "running"
    BY <2>1
  <2> QED
    BY <2>1, <2>2, <2>3, <2>4, <2>5, <2>6, AnswerTells
<1> QED
  BY <1>1, <1>2, <1>3

\* So does the event of a response.
LEMMA RespondsTells ==
    ASSUME LoopInv, LoopInv', TalkInv, CallResponds
    PROVE  TalkInv'
<1>1. /\ TopAt("asked") /\ stack # <<>> /\ phase = "running" /\ Top \in Frames
      /\ raised = NoError /\ Top.latch = NoError /\ Top.place = "asked"
      /\ UNCHANGED <<modelCalls, phase, raised>> /\ modelCalls \in Nat /\ nextId \in Nat
  BY TopAtIs DEF CallResponds, ledgerVars, counters
<1>2. PICK c : c = Top.call
  OBVIOUS
<1>3. /\ c \in Calls /\ c \in Nat /\ EventsOf(c)
      /\ At("model.response", c) = {} /\ At("model.failed", c) = {}
  BY <1>1, <1>2 DEF TalkInv, CallsTold, Answered, HasFailed, Calls
<1>4. PICK good \in BOOLEAN : Log("model.response", c, IdOf("model.request", c), good)
  BY <1>2 DEF CallResponds
<1>5. PICK parent \in Nat \cup {NoEvent} : parent = IdOf("model.request", c)
  BY IdOfSome DEF TalkInv
<1>6. /\ "model.response" \in ModelTypes /\ "model.response" \in BranchTypes \cup ModelTypes
      /\ c \in Calls' /\ c \in Nat \cup {NoCall} /\ modelCalls' \in {modelCalls, modelCalls + 1}
      /\ Log("model.response", c, parent, good)
  BY <1>1, <1>3, <1>4, <1>5 DEF ModelTypes, Calls
<1>7. /\ \A d : d # c => SameEvents(d)
      /\ At("model.response", c)' = At("model.response", c) \cup {Len(lines) + 1}
      /\ \A t \in ModelTypes \ {"model.response"} :
            At(t, c)' = At(t, c) /\ IdOf(t, c)' = IdOf(t, c)
      /\ lines'[Len(lines) + 1].parent = parent
  <2>1. stack # <<>> /\ c \in Nat
    BY <1>1, <1>3
  <2> QED
    BY <1>6, <2>1, CallEvent
<1>8. /\ Len(lines') = Len(lines) + 1 /\ nextId = Len(lines) /\ nextId' = nextId + 1
      /\ lines'[Len(lines) + 1].branch = Top.branch
      /\ lines'[Len(lines) + 1].type = "model.response"
      /\ Positions' = Positions \cup {Len(lines) + 1}
      /\ \A i \in Positions : lines'[i] = lines[i]
  BY <1>1, <1>6, LogIs
<1> DEFINE f == [Top EXCEPT !.place = "answered", !.cause = nextId]
<1>9. /\ f.place = "answered" /\ f.items = Top.items /\ f.branch = Top.branch
      /\ f.latch = NoError /\ f.call = c /\ f.role = Top.role /\ f.cause = nextId
  BY <1>1, <1>2 DEF Frames
<1>10. Become(f)
  BY DEF CallResponds
<1> HIDE DEF f
<1>11. Top' = f /\ Kept /\ Len(stack') = Len(stack) /\ stack' # <<>>
  BY <1>1, <1>10, BecomeIs
<1>12. TopAt("answered")' /\ (~TopAt("asked"))'
  BY <1>1, <1>9, <1>11 DEF TopAt
<1>13. CallsTold'
  <2>1. ASSUME NEW d \in Calls, d # c
        PROVE  EventsOf(d)' /\ Settled(d)'
    <3>1. EventsOf(d) /\ Settled(d)
      BY <1>2, <2>1 DEF TalkInv, CallsTold, Awaited
    <3> QED
      BY <1>7, <2>1, <3>1, EventsKept
  <2>2. At("model.response", c)' = {Len(lines) + 1}
    BY <1>3, <1>7
  <2>3. /\ At("model.request", c)' = At("model.request", c)
        /\ IdOf("model.request", c)' = parent
        /\ At("model.failed", c)' = {}
    BY <1>3, <1>5, <1>7 DEF ModelTypes
  <2>4. EventsOf(c)'
    BY <1>3, <1>7, <2>2, <2>3 DEF EventsOf, AtMostOne, Requested
  <2>5. Awaited(c)' /\ ~HasFailed(c)'
    BY <1>9, <1>11, <1>12, <2>3 DEF Awaited, HasFailed
  <2>6. \A d \in Calls' : (EventsOf(d) /\ (Settled(d) \/ Awaited(d)))'
    BY <1>1, <2>1, <2>4, <2>5 DEF Calls
  <2>7. (/\ Top.call \in Calls /\ ~HasFailed(Top.call)
         /\ At("model.response", Top.call) = {Len(lines)}
         /\ lines[Len(lines)].branch = Top.branch)'
    BY <1>6, <1>8, <1>9, <1>11, <2>2, <2>3 DEF HasFailed, At
  <2>8. (Top.cause = nextId - 1)'
    BY <1>1, <1>8, <1>9, <1>11
  <2> QED
    BY <1>12, <2>6, <2>7, <2>8 DEF CallsTold
<1>14. Grows
  BY <1>8 DEF Grows
<1>15. Talk(Top)'
  <2>1. CASE Top.role = "subcall"
    <3>1. Busy(Top) /\ Talk(Top)
      BY <1>1, <2>1, TopTalks DEF Busy
    <3> QED
      BY <1>9, <1>11, <1>14, <3>1, BusyTop
  <2>2. CASE Top.role # "subcall"
    BY <1>9, <1>11, <2>2 DEF Talk, Busy
  <2> QED
    BY <2>1, <2>2
<1>16. Traced(raised)' /\ Traced(Top.latch)' /\ phase' = "running"
  BY <1>1, <1>9, <1>11, NoneRaised, NoneLatched
<1> QED
  BY <1>1, <1>6, <1>11, <1>13, <1>15, <1>16, LogTells

\* So does a call that succeeds.
LEMMA SucceedsTells ==
    ASSUME LoopInv, LoopInv', TalkInv, CallSucceeds
    PROVE  TalkInv'
<1>1. /\ TopAt("answered") /\ stack # <<>> /\ phase = "running" /\ Top \in Frames
      /\ raised = NoError /\ Top.latch = NoError /\ Top.place = "answered"
      /\ UNCHANGED <<modelCalls, phase, raised, traceVars, lines, nextId>>
      /\ lines[Len(lines)].good /\ Top.items \in Seq(Nat)
  BY TopAtIs DEF CallSucceeds, ledgerVars, counters, traceVars
<1>2. PICK c : c = Top.call
  OBVIOUS
<1>3. /\ c \in Calls /\ ~HasFailed(c)
      /\ At("model.response", c) = {Len(lines)}
      /\ lines[Len(lines)].branch = Top.branch /\ Top.cause = nextId - 1
  BY <1>1, <1>2 DEF TalkInv, CallsTold
<1>4. \A d \in Calls : EventsOf(d) /\ Settled(d)
  <2>1. Settled(c)
    BY <1>1, <1>3 DEF Settled, Answered
  <2> QED
    BY <1>2, <2>1 DEF TalkInv, CallsTold, Awaited
<1>5. \A d \in Calls : EventsOf(d)' /\ Settled(d)'
  BY <1>1, <1>4, LinesRest, EventsKept DEF SameEvents
<1>6. ASSUME NEW f, f.place \in {"parse", "returning"}, f.latch = NoError, Become(f),
             Talk(f)'
      PROVE  TalkInv'
  <2>1. Top' = f /\ Kept
    BY <1>1, <1>6, BecomeIs
  <2>2. NoneAwaited'
    BY <1>6, <2>1 DEF NoneAwaited, TopAt
  <2>3. CallsTold'
    BY <1>1, <1>5, <2>2 DEF CallsTold, NoneAwaited, Calls
  <2>4. Talk(Top)'
    BY <1>6, <2>1, TopTalk
  <2>5. Traced(raised)' /\ Traced(Top.latch)'
    BY <1>1, <1>6, <2>1, NoneRaised, NoneLatched
  <2> QED
    BY <1>1, <2>1, <2>3, <2>4, <2>5, QuietTells
<1>7. CASE Top.role = "controller"
  <2>1. PICK items \in ItemsAfterResponse(Top.items, Top.cause) :
            Become([Top EXCEPT !.place = "parse", !.items = items])
    BY <1>7 DEF CallSucceeds
  <2>2. PICK f : f = [Top EXCEPT !.place = "parse", !.items = items]
    OBVIOUS
  <2>3. /\ f.place = "parse" /\ f.items = items /\ f.branch = Top.branch /\ f.latch = NoError
        /\ f.cause = Top.cause /\ Become(f)
    BY <1>1, <2>1, <2>2 DEF Frames
  <2>4. Len(items) <= 2 /\ (Len(items) = 2 => items[2] = Top.cause)
    <3>1. PICK first : items = <<first>> \/ items = <<first, Top.cause>>
      BY <2>1 DEF ItemsAfterResponse
    <3>2. CASE items = <<first>>
      <4>1. Len(items) = 1
        BY <3>2
      <4> QED
        BY <4>1
    <3>3. CASE items = <<first, Top.cause>>
      <4>1. Len(items) = 2 /\ items[2] = Top.cause
        BY <3>3
      <4> QED
        BY <4>1
    <3> QED
      BY <3>1, <3>2, <3>3
  <2>5. lines[Len(lines)].type = "model.response" /\ lines # <<>>
    BY <1>1, <1>3 DEF At, TalkInv, Framed
  <2>6. Talk(f)'
    BY <1>1, <1>3, <2>3, <2>4, <2>5 DEF Talk, Latest, Busy
  <2> QED
    BY <1>6, <2>3, <2>6
<1>8. CASE Top.role # "controller"
  <2>1. Become([Top EXCEPT !.place = "returning"]) /\ Top.role = "subcall"
    BY <1>1, <1>8 DEF CallSucceeds, Frames
  <2>2. PICK f : f = [Top EXCEPT !.place = "returning"]
    OBVIOUS
  <2>3. PICK g : g = Top
    OBVIOUS
  <2>4. /\ f.place = "returning" /\ f.items = g.items /\ f.branch = g.branch /\ f.latch = NoError
        /\ Become(f)
    BY <1>1, <2>1, <2>2, <2>3 DEF Frames
  <2>5. Busy(g) /\ Talk(g)
    BY <1>1, <2>1, <2>3, TopTalks DEF Busy, Talk
  <2>6. Talk(f)'
    BY <1>1, <2>4, <2>5, RestGrows, BusyTalk
  <2> QED
    BY <1>6, <2>4, <2>6
<1> QED
  BY <1>7, <1>8

\* So does a call that fails: its event is the cause of the failure.
LEMMA FailsTells ==
    ASSUME LoopInv, LoopInv', TalkInv, CallFails
    PROVE  TalkInv'
<1>1. /\ TopAt("asked") \/ TopAt("answered")
      /\ stack # <<>> /\ phase = "running" /\ Top \in Frames
      /\ raised = NoError /\ Top.latch = NoError /\ Top.place \in {"asked", "answered"}
      /\ UNCHANGED <<modelCalls, phase>> /\ modelCalls \in Nat /\ nextId \in Nat
      /\ Len(stack) \in Nat /\ Top = stack[Len(stack)]
  <2>1. PICK spot \in {"asked", "answered"} : TopAt(spot)
    BY DEF CallFails
  <2> QED
    BY <2>1, TopAtIs, StackTop DEF CallFails, ledgerVars, counters
<1>2. PICK c : c = Top.call
  OBVIOUS
<1>3. /\ c \in Calls /\ c \in Nat /\ EventsOf(c) /\ At("model.failed", c) = {}
      /\ Top.place = "asked" => At("model.response", c) = {}
      /\ Top.place = "answered" => At("model.response", c) = {Len(lines)}
  BY <1>1, <1>2 DEF TalkInv, CallsTold, Answered, HasFailed, Calls, TopAt
<1>4. PICK parent \in Nat \cup {NoEvent} : parent = FailureParent(Top)
  BY IdOfSome DEF TalkInv, FailureParent
<1>5. parent = IdOf(IF Answered(c) THEN "model.response" ELSE "model.request", c)
  BY <1>1, <1>2, <1>3, <1>4 DEF FailureParent, Answered
<1>6. /\ "model.failed" \in ModelTypes /\ "model.failed" \in BranchTypes \cup ModelTypes
      /\ c \in Calls' /\ c \in Nat \cup {NoCall} /\ modelCalls' \in {modelCalls, modelCalls + 1}
      /\ Log("model.failed", c, parent, FALSE) /\ FALSE \in BOOLEAN
  BY <1>1, <1>2, <1>3, <1>4 DEF ModelTypes, Calls, CallFails
<1>7. /\ \A d : d # c => SameEvents(d)
      /\ At("model.failed", c)' = At("model.failed", c) \cup {Len(lines) + 1}
      /\ \A t \in ModelTypes \ {"model.failed"} :
            At(t, c)' = At(t, c) /\ IdOf(t, c)' = IdOf(t, c)
      /\ \A i \in Positions : lines'[i] = lines[i]
      /\ lines'[Len(lines) + 1].parent = parent
  <2>1. stack # <<>> /\ c \in Nat
    BY <1>1, <1>3
  <2> QED
    BY <1>6, <2>1, CallEvent
<1>8. /\ Len(lines') = Len(lines) + 1 /\ nextId = Len(lines) /\ Len(lines) \in Nat
      /\ lines'[Len(lines) + 1].id = Len(lines)
      /\ lines'[Len(lines) + 1].type = "model.failed"
      /\ Positions = 1..Len(lines)
      /\ Positions' = Positions \cup {Len(lines) + 1}
  BY <1>1, <1>6, LogIs
<1>9. Grows
  BY <1>7, <1>8 DEF Grows
<1>10. \A d \in Calls : EventsOf(d)' /\ Settled(d)'
  <2>1. ASSUME NEW d \in Calls, d # c
        PROVE  EventsOf(d)' /\ Settled(d)'
    <3>1. EventsOf(d) /\ Settled(d)
      BY <1>2, <2>1 DEF TalkInv, CallsTold, Awaited
    <3> QED
      BY <1>7, <2>1, <3>1, EventsKept
  <2>2. At("model.failed", c)' = {Len(lines) + 1}
    BY <1>3, <1>7
  <2>3. /\ At("model.request", c)' = At("model.request", c)
        /\ At("model.response", c)' = At("model.response", c)
        /\ IdOf("model.request", c)' = IdOf("model.request", c)
        /\ IdOf("model.response", c)' = IdOf("model.response", c)
    BY <1>7 DEF ModelTypes
  <2>4. \A i \in At("model.response", c) : lines'[i] = lines[i]
    BY <1>7 DEF At
  <2>5. EventsOf(c)'
    BY <1>3, <1>5, <1>7, <2>2, <2>3, <2>4 DEF EventsOf, AtMostOne, Requested, Answered
  <2>6. Settled(c)'
    BY <1>1, <1>3, <2>2, <2>3 DEF Settled, HasFailed, CallAdjacent
  <2> QED
    BY <2>1, <2>5, <2>6
<1>11. PICK error \in FailureOfCall :
           IF Top.role = "controller" THEN Leave(error, nextId)
           ELSE HostRaises(stack, [error |-> error, cause |-> nextId])
  BY DEF CallFails
<1>12. PICK e : e = [error |-> error, cause |-> nextId]
  OBVIOUS
<1>13. Traced(e)' /\ e # NoError /\ e.error \in {"remote", "invalid"} /\ e.cause = Len(lines)
  <2>1. e.error \in {"remote", "invalid"} /\ e.cause = Len(lines)
    BY <1>8, <1>11, <1>12 DEF FailureOfCall
  <2>2. Len(lines) + 1 \in Positions' /\ \A j \in Positions' : ~(Len(lines) + 1 < j)
    BY <1>8
  <2>4. Traced(e)'
    BY <1>8, <2>1, <2>2 DEF Traced, Causing
  <2> QED
    BY <2>1, <2>4, NoErrorIs
<1>14. CASE Top.role = "controller"
  <2>1. UNCHANGED stack /\ raised' = e
    BY <1>11, <1>12, <1>14 DEF Leave
  <2>2. Top' = Top /\ Kept /\ Len(stack') = Len(stack)
    BY <2>1, StackRests
  <2>3. NoneAwaited'
    BY <1>13, <2>1 DEF NoneAwaited, TopAt
  <2>4. CallsTold'
    BY <1>1, <1>10, <2>3 DEF CallsTold, NoneAwaited, Calls
  <2>5. Traced(raised)'
    BY <1>13, <2>1 DEF Traced, Causing
  <2>6. Traced(Top.latch)'
    BY <1>1, <2>2, NoneLatched
  <2>7. Talk(Top)'
    BY <1>1, <1>14, <2>2 DEF Talk, Busy
  <2> QED
    BY <1>1, <1>6, <2>2, <2>4, <2>5, <2>6, <2>7, LogTells
<1>15. CASE Top.role # "controller"
  <2>1. HostRaises(stack, e) /\ Top.role = "subcall"
    BY <1>1, <1>11, <1>12, <1>15 DEF Frames
  <2>2. Asker(stack, Len(stack))
    BY <1>1, AskerOfTop
  <2>3. /\ Kept /\ Len(stack') = Len(stack) /\ stack' # <<>> /\ raised' = NoError
        /\ \/ Top' = [Top EXCEPT !.place = "cell"]
           \/ Top' = [Top EXCEPT !.place = "cell", !.latch = e]
    <3>1. e.error # "killed"
      BY <1>13
    <3> QED
      BY <1>1, <2>1, <2>2, <3>1, HostRaisesIs
  <2>4. /\ Top'.place = "cell" /\ Top'.items = Top.items /\ Top'.branch = Top.branch
        /\ Top'.latch \in {NoError, e}
    BY <1>1, <2>3 DEF Frames
  <2>5. NoneAwaited'
    BY <2>4 DEF NoneAwaited, TopAt
  <2>6. CallsTold'
    BY <1>1, <1>10, <2>5 DEF CallsTold, NoneAwaited, Calls
  <2>7. Traced(raised)'
    BY <2>3, NoneRaised
  <2>8. Traced(Top.latch)'
    BY <1>13, <2>4, NoErrorIs DEF Traced, Causing
  <2>9. Talk(Top)'
    <3>1. Busy(Top) /\ Talk(Top)
      BY <1>1, <2>1, TopTalks DEF Busy
    <3> QED
      BY <1>9, <2>4, <3>1, BusyTop
  <2> QED
    BY <1>1, <1>6, <2>3, <2>6, <2>7, <2>8, <2>9, LogTells
<1> QED
  BY <1>14, <1>15

\* So do the requests of a cell.
LEMMA HostCallTells ==
    ASSUME LoopInv, LoopInv', TalkInv,
           ModelComplete \/ RlmComplete \/ InvalidRequest \/ SubcallRefused
    PROVE  TalkInv'
<1>1. /\ TopAt("cell") /\ stack # <<>> /\ phase = "running" /\ Top \in Frames /\ raised = NoError
      /\ Top.latch = NoError /\ Top.place = "cell" /\ Busy(Top) /\ NoneAwaited
  <2>1. TopAt("cell") /\ Top.latch = NoError
    BY DEF ModelComplete, RlmComplete, InvalidRequest, SubcallRefused, SubcallReserved,
           HostCalls
  <2> QED
    BY <2>1, TopAtIs DEF Busy, NoneAwaited, TopAt
<1>2. UNCHANGED <<traceVars, modelCalls, phase>>
  BY DEF ModelComplete, RlmComplete, InvalidRequest, SubcallRefused, SubcallReserved,
         ReserveSubcalls, ledgerVars, counters, loopVars
<1>3. phase' = "running" /\ UNCHANGED lines
  BY <1>1, <1>2 DEF traceVars
<1>4. CASE ModelComplete
  <2>1. Become([Top EXCEPT !.place = "asking", !.role = "subcall"]) /\ UNCHANGED raised
    BY <1>4 DEF ModelComplete
  <2> QED
    BY <1>1, <1>2, <2>1, MovingTells
<1>5. CASE RlmComplete
  <2> DEFINE f == NewBranch(Top.action)
  <2>1. stack' = Append(stack, f) /\ UNCHANGED raised
    BY <1>5 DEF RlmComplete
  <2>2. f.place = "starting" /\ f.latch = NoError /\ f.turn = 1
    BY DEF NewBranch
  <2> HIDE DEF f
  <2>3. stack \in Seq(Frames) /\ Len(stack) \in Nat /\ DOMAIN stack = 1..Len(stack)
    BY LenProperties DEF LoopInv, LoopTypes
  <2>4. /\ Len(stack') = Len(stack) + 1 /\ stack'[Len(stack) + 1] = f
        /\ \A k \in 1..Len(stack) : stack'[k] = stack[k]
    BY <2>1, <2>3
  <2>5. Top' = f
    BY <2>4 DEF Top
  <2>6. Kept
    BY <2>3, <2>4 DEF Kept
  <2>7. NoneAwaited'
    BY <2>2, <2>5 DEF NoneAwaited, TopAt
  <2>8. Talk(Top)'
    BY <2>2, <2>5 DEF Talk, Busy
  <2>9. Traced(raised)' /\ Traced(Top.latch)'
    BY <1>1, <2>1, <2>2, <2>5, NoneRaised, NoneLatched
  <2> QED
    BY <1>1, <1>2, <1>3, <2>6, <2>7, <2>8, <2>9, RestTells
<1>6. CASE InvalidRequest
  <2>1. UNCHANGED <<stack, raised, lines, nextId>>
    BY <1>6 DEF InvalidRequest, loopVars, traceVars
  <2>2. Top' = Top /\ Kept
    BY <2>1, StackRests
  <2>3. NoneAwaited'
    BY <1>1, <2>2 DEF NoneAwaited, TopAt
  <2>4. Talk(Top)'
    BY <1>1, <2>1, <2>2, TopTalks, RestingTop
  <2>5. Traced(raised)' /\ Traced(Top.latch)'
    BY <1>1, <2>1, <2>2, NoneRaised, NoneLatched
  <2> QED
    BY <1>1, <1>2, <1>3, <2>2, <2>3, <2>4, <2>5, RestTells
<1>7. CASE SubcallRefused
  <2>1. HostRaises(stack, Limit)
    BY <1>7 DEF SubcallRefused
  <2>2. Asker(stack, Len(stack)) /\ Top = stack[Len(stack)]
    BY <1>1, AskerOfTop, StackTop
  <2>3. Traced(Limit)
    BY LimitIs DEF Traced
  <2>4. Busy(stack[Len(stack)]) /\ stack[Len(stack)].place \notin {"asked", "answered"}
    BY <1>1, <2>2 DEF Busy
  <2> QED
    BY <1>1, <1>2, <1>3, <2>1, <2>2, <2>3, <2>4, AnswerTells
<1> QED
  BY <1>4, <1>5, <1>6, <1>7

\* A branch enters a cell's launch: the action answers the latest response.
LEMMA ParseTells ==
    ASSUME LoopInv, LoopInv', TalkInv, Parse
    PROVE  TalkInv'
<1>1. /\ TopAt("parse") /\ stack # <<>> /\ phase = "running" /\ Top \in Frames
      /\ raised' = NoError /\ Top.latch = NoError /\ Top.place = "parse" /\ Top.cause \in Nat
      /\ UNCHANGED <<modelCalls, phase, raised>> /\ phase' = "running"
  BY TopAtIs DEF Parse, ledgerVars, counters
<1>2. /\ lines # <<>> /\ Top.cause = nextId - 1
      /\ lines[Len(lines)].branch = Top.branch /\ lines[Len(lines)].type = "model.response"
      /\ Len(Top.items) <= 2
      /\ Len(Top.items) = 2 => Top.items[2] = Top.cause
  BY <1>1, TopTalks DEF Talk, Latest
<1>3. /\ Positions = 1..Len(lines) /\ Len(lines) \in Positions /\ Len(lines) \in Nat
      /\ lines[Len(lines)].id = Top.cause
  <2>1. lines \in Seq(Events) /\ IdsOrdered /\ nextId = Len(lines)
    BY DEF TalkInv, Recorded
  <2>2. Len(lines) \in Nat \ {0} /\ Positions = 1..Len(lines)
    BY <1>2, <2>1, EmptySeq, LenProperties DEF Positions
  <2>3. Len(lines) \in Positions
    BY <2>2
  <2> QED
    BY <1>2, <2>1, <2>2, <2>3 DEF IdsOrdered
<1>4. CASE Become([Top EXCEPT !.place = "recover"]) /\ UNCHANGED traceVars
  <2>1. PICK f : f = [Top EXCEPT !.place = "recover"]
    OBVIOUS
  <2>2. /\ f.place = "recover" /\ f.items = Top.items /\ f.branch = Top.branch
        /\ f.latch = NoError /\ Become(f) /\ UNCHANGED lines
    BY <1>1, <1>4, <2>1 DEF Frames, traceVars
  <2>3. Top' = f /\ Kept
    BY <1>1, <2>2, BecomeIs
  <2>4. Len(f.items) = 2 => Digested(f)'
    <3> SUFFICES ASSUME Len(f.items) = 2 PROVE Digested(f)'
      OBVIOUS
    <3>1. f.items[2] = lines[Len(lines)].id
      BY <1>2, <1>3, <2>2
    <3>2. \A j \in Positions : j < Len(lines) \/ j = Len(lines)
      BY <1>3
    <3>3. lines[Len(lines)].type # "controller.action"
      BY <1>2
    <3>4. \A j \in Positions : lines[j].type = "controller.action" => j < Len(lines)
      BY <3>2, <3>3
    <3>5. Digested(f)
      BY <1>2, <1>3, <2>2, <3>1, <3>4 DEF Digested
    <3> QED
      BY <2>2, <3>5 DEF Digested, Positions
  <2>5. Talk(f)'
    BY <1>2, <2>2, <2>4 DEF Talk, Busy
  <2>6. Talk(Top)'
    BY <2>3, <2>5, TopTalk
  <2>7. NoneAwaited'
    BY <2>2, <2>3 DEF NoneAwaited, TopAt
  <2>8. Traced(raised)' /\ Traced(Top.latch)'
    BY <1>1, <2>2, <2>3, NoneRaised, NoneLatched
  <2> QED
    BY <1>1, <1>4, <2>3, <2>6, <2>7, <2>8, RestTells
<1>5. CASE /\ Log("controller.action", NoCall, Top.cause, TRUE)
           /\ Become([Top EXCEPT !.place = "launch", !.action = nextId,
                                 !.latch = NoError, !.result = "nothing"])
  <2>1. PICK f : f = [Top EXCEPT !.place = "launch", !.action = nextId,
                                 !.latch = NoError, !.result = "nothing"]
    OBVIOUS
  <2>2. /\ f.place = "launch" /\ f.items = Top.items /\ f.branch = Top.branch
        /\ f.latch = NoError /\ Become(f)
    BY <1>1, <1>5, <2>1 DEF Frames
  <2>3. "controller.action" \in BranchTypes
    BY DEF BranchTypes
  <2>4. /\ Positions' = Positions \cup {Len(lines) + 1} /\ Len(lines') = Len(lines) + 1
        /\ \A i \in Positions : lines'[i] = lines[i]
        /\ lines'[Len(lines')].parent = Top.cause
    BY <1>1, <1>5, <2>3, EventIs
  <2>5. Top' = f /\ Kept /\ Len(stack') = Len(stack)
    BY <1>1, <2>2, BecomeIs
  <2>6. Len(f.items) = 2 => Digested(f)'
    <3> SUFFICES ASSUME Len(f.items) = 2 PROVE Digested(f)'
      OBVIOUS
    <3> DEFINE i == Len(lines)
    <3>1. i \in Positions' /\ lines'[i] = lines[i] /\ f.items[2] = lines[i].id
      BY <1>2, <1>3, <2>2, <2>4
    <3>2. \A j \in Positions' : j < i \/ j = i \/ j = i + 1
      BY <1>3, <2>4
    <3>3. lines'[i].type # "controller.action"
      BY <1>2, <3>1
    <3>4. lines'[i + 1].parent = lines'[i].id
      BY <1>3, <2>4, <3>1
    <3>5. \A j \in Positions' :
             lines'[j].type = "controller.action" => j < i \/ lines'[j].parent = lines'[i].id
      BY <3>2, <3>3, <3>4
    <3>6. lines'[i].type = "model.response" /\ lines'[i].branch = f.branch
          /\ lines'[i].id = f.items[2]
      BY <1>2, <2>2, <3>1
    <3> HIDE DEF i
    <3> QED
      BY <3>1, <3>5, <3>6 DEF Digested
  <2>7. Talk(f)'
    BY <1>2, <2>2, <2>6 DEF Talk, Busy
  <2>8. Talk(Top)'
    BY <2>5, <2>7, TopTalk
  <2>9. NoneAwaited'
    BY <2>2, <2>5 DEF NoneAwaited, TopAt
  <2>10. Traced(raised)' /\ Traced(Top.latch)'
    BY <1>1, <2>2, <2>5, NoneRaised, NoneLatched
  <2> QED
    BY <1>1, <1>5, <2>3, <2>5, <2>8, <2>9, <2>10, EventTells
<1> QED
  BY <1>4, <1>5 DEF Parse

\* A failure that was latched is still what the trace ends with, but for the
\* end of its cell.
LEMMA TracedLater ==
    ASSUME NEW e, Traced(e), Len(lines) \in Nat, Positions = 1..Len(lines),
           Len(lines') = Len(lines) + 1, Positions' = Positions \cup {Len(lines) + 1},
           \A i \in Positions : lines'[i] = lines[i],
           lines'[Len(lines')].type = "controller.execution"
    PROVE  Traced(e)'
<1> SUFFICES ASSUME e.cause # NoEvent
             PROVE  \E i \in Positions' : lines'[i].id = e.cause /\ Causing(i, Len(lines) + 1)'
  BY DEF Traced
<1>1. PICK i \in Positions : lines[i].id = e.cause /\ Causing(i, Len(lines) + 1)
  BY DEF Traced
<1>2. i \in Positions' /\ lines'[i] = lines[i]
  BY <1>1
<1>3. \A j \in Positions' : (j \in Positions /\ j < Len(lines) + 1) \/ j = Len(lines')
  OBVIOUS
<1>4. \A j \in Positions' : i < j => lines'[j].type = "controller.execution"
  BY <1>1, <1>3 DEF Causing
<1>5. Causing(i, Len(lines) + 1)'
  BY <1>1, <1>2, <1>4 DEF Causing
<1> QED
  BY <1>1, <1>2, <1>5

\* So do the ends of a cell.
LEMMA CellTells ==
    ASSUME LoopInv, LoopInv', TalkInv, CellEnds \/ CellDies \/ HostFailure \/ CellFaulty
    PROVE  TalkInv'
<1>1. CASE CellEnds
  <2>1. /\ TopAt("cell") /\ stack # <<>> /\ phase = "running" /\ Top \in Frames
        /\ raised' = NoError /\ Top.place = "cell" /\ Top.action \in Nat
        /\ UNCHANGED <<modelCalls, phase, raised>> /\ phase' = "running"
    BY <1>1, TopAtIs DEF CellEnds, ledgerVars, counters, Frames
  <2>2. PICK result \in Results :
            Become([Top EXCEPT !.place = "ran", !.cause = nextId, !.result = result])
    BY <1>1 DEF CellEnds
  <2>3. PICK f : f = [Top EXCEPT !.place = "ran", !.cause = nextId, !.result = result]
    OBVIOUS
  <2>4. PICK l : l = Top.latch
    OBVIOUS
  <2>5. /\ f.place = "ran" /\ f.items = Top.items /\ f.branch = Top.branch /\ f.latch = l
        /\ Become(f)
    BY <2>1, <2>2, <2>3, <2>4 DEF Frames
  <2>6. "controller.execution" \in BranchTypes /\ "controller.execution" # "controller.action"
        /\ Log("controller.execution", NoCall, Top.action, TRUE)
    BY <1>1 DEF BranchTypes, CellEnds
  <2>7. /\ Len(lines) \in Nat /\ Positions = 1..Len(lines)
        /\ Positions' = Positions \cup {Len(lines) + 1} /\ Len(lines') = Len(lines) + 1
        /\ \A i \in Positions : lines'[i] = lines[i]
        /\ lines'[Len(lines')].type = "controller.execution" /\ Grows
    BY <2>1, <2>6, EventIs
  <2>8. Top' = f /\ Kept /\ Len(stack') = Len(stack)
    BY <2>1, <2>5, BecomeIs
  <2>9. Busy(Top) /\ Talk(Top)
    BY <2>1, TopTalks DEF Busy
  <2>10. Talk(Top)'
    BY <2>5, <2>7, <2>8, <2>9, BusyTop
  <2>11. NoneAwaited'
    BY <2>5, <2>8 DEF NoneAwaited, TopAt
  <2>12. Traced(l)'
    <3>1. Traced(l)
      BY <2>1, <2>4 DEF TalkInv, CausesTold
    <3> QED
      BY <2>7, <3>1, TracedLater
  <2>13. Traced(raised)' /\ Traced(Top.latch)'
    <3>1. Top'.latch = l
      BY <2>5, <2>8
    <3>2. Traced(Top.latch)'
      BY <2>12, <3>1 DEF Traced, Causing
    <3> QED
      BY <2>1, <3>2, NoneRaised
  <2> QED
    BY <2>1, <2>6, <2>8, <2>10, <2>11, <2>13, EventTells
<1>2. CASE CellDies
  <2>1. TopAt("cell") /\ UNCHANGED <<traceVars, modelCalls, phase>>
        /\ \E error \in {"killed", "executor"} : Leave(error, NoEvent)
    BY <1>2 DEF CellDies, ledgerVars, counters
  <2> QED
    BY <2>1, OutOfTimeTells
<1>3. CASE HostFailure
  <2>1. TopAt("ran") /\ UNCHANGED <<traceVars, modelCalls, phase>>
        /\ Leave("remote", Top.latch.cause)
    BY <1>3 DEF HostFailure, ledgerVars, counters
  <2>2. "remote" \in Errors \ {"none"} /\ Top.latch.cause \in {NoEvent, Top.latch.cause}
    BY DEF Errors
  <2> QED
    BY <2>1, <2>2, LeaveTells
<1>4. CASE CellFaulty
  <2>1. TopAt("ran") /\ UNCHANGED <<traceVars, modelCalls, phase, raised>>
        /\ Top.latch = NoError /\ Become([Top EXCEPT !.place = "recover"])
    BY <1>4 DEF CellFaulty, ledgerVars, counters
  <2>2. Busy(Top) /\ Top \in Frames
    BY <2>1, TopAtIs DEF Busy
  <2>3. [Top EXCEPT !.place = "recover"] = [Top EXCEPT !.place = "recover", !.role = Top.role]
    BY <2>2 DEF Frames
  <2>4. Become([Top EXCEPT !.place = "recover", !.role = Top.role])
    BY <2>1, <2>3
  <2> QED
    BY <2>1, <2>2, <2>4, MovingTells
<1> QED
  BY <1>1, <1>2, <1>3, <1>4

\* The exception that has just been given an event of its own as cause.
LEMMA TracedNow ==
    ASSUME NEW e, e.cause = Len(lines), Len(lines) \in Nat, Positions = 1..Len(lines),
           Len(lines') = Len(lines) + 1, Positions' = Positions \cup {Len(lines) + 1},
           lines'[Len(lines')].id = Len(lines),
           lines'[Len(lines')].type \in {"controller.recovery_decision", "model.failed"}
    PROVE  Traced(e)'
<1>1. Len(lines) + 1 \in Positions' /\ \A j \in Positions' : ~(Len(lines) + 1 < j)
  OBVIOUS
<1> QED
  BY <1>1 DEF Traced, Causing

\* So does a recovery.
LEMMA RecoverTells ==
    ASSUME LoopInv, LoopInv', TalkInv, Recover
    PROVE  TalkInv'
<1>1. /\ TopAt("recover") /\ stack # <<>> /\ phase = "running" /\ Top \in Frames
      /\ raised = NoError /\ Top.latch = NoError /\ Top.place = "recover" /\ Top.cause \in Nat
      /\ UNCHANGED <<modelCalls, phase>> /\ phase' = "running"
  BY TopAtIs DEF Recover, ledgerVars, counters
<1>2. /\ "controller.recovery_decision" \in BranchTypes
      /\ "controller.recovery_decision" # "controller.action"
      /\ Log("controller.recovery_decision", NoCall, Top.cause, TRUE)
  BY DEF BranchTypes, Recover
<1>3. /\ Len(lines) \in Nat /\ Positions = 1..Len(lines) /\ nextId = Len(lines)
      /\ Positions' = Positions \cup {Len(lines) + 1} /\ Len(lines') = Len(lines) + 1
      /\ lines'[Len(lines')].type = "controller.recovery_decision"
      /\ lines'[Len(lines')].id = nextId /\ Grows
  BY <1>1, <1>2, EventIs
<1>4. Busy(Top) /\ Talk(Top)
  BY <1>1, TopTalks DEF Busy
<1>5. CASE Become([Top EXCEPT !.place = "repairing", !.cause = nextId]) /\ UNCHANGED raised
  <2>1. PICK f : f = [Top EXCEPT !.place = "repairing", !.cause = nextId]
    OBVIOUS
  <2>2. /\ f.place = "repairing" /\ f.items = Top.items /\ f.branch = Top.branch
        /\ f.latch = NoError /\ Become(f)
    BY <1>1, <1>5, <2>1 DEF Frames
  <2>3. Top' = f /\ Kept /\ Len(stack') = Len(stack)
    BY <1>1, <2>2, BecomeIs
  <2>4. Talk(Top)'
    BY <1>3, <1>4, <2>2, <2>3, BusyTop
  <2>5. NoneAwaited'
    BY <2>2, <2>3 DEF NoneAwaited, TopAt
  <2>6. Traced(raised)' /\ Traced(Top.latch)'
    BY <1>1, <1>5, <2>2, <2>3, NoneRaised, NoneLatched
  <2> QED
    BY <1>1, <1>2, <2>3, <2>4, <2>5, <2>6, EventTells
<1>6. CASE Leave("aborted", nextId)
  <2>1. PICK e : e = [error |-> "aborted", cause |-> nextId]
    OBVIOUS
  <2>2. UNCHANGED stack /\ raised' = e /\ e.error = "aborted" /\ e.cause = nextId
    BY <1>6, <2>1 DEF Leave
  <2>3. Top' = Top /\ Kept /\ Len(stack') = Len(stack)
    BY <2>2, StackRests
  <2>4. Talk(Top)'
    BY <1>1, <1>3, <1>4, <2>3, BusyTop
  <2>5. NoneAwaited'
    BY <1>1, <2>3 DEF NoneAwaited, TopAt
  <2>6. Traced(e)'
    BY <1>3, <2>2, TracedNow
  <2>7. Traced(raised)'
    BY <2>2, <2>6 DEF Traced, Causing
  <2>8. Traced(Top.latch)'
    BY <1>1, <2>3, NoneLatched
  <2> QED
    BY <1>1, <1>2, <2>3, <2>4, <2>5, <2>7, <2>8, EventTells
<1> QED
  BY <1>5, <1>6 DEF Recover

\* The next turn begins with an item more than the last.
LEMMA NextTurnTells ==
    ASSUME LoopInv, LoopInv', TalkInv, NEW spot \in {"ran", "repairing"}, TopAt(spot),
           Top.latch = NoError, UNCHANGED <<modelCalls, phase, raised>>,
           NEW type \in {"controller.observation", "controller.repair"},
           Log(type, NoCall, Top.cause, TRUE), Become(NextTurn(Top, nextId))
    PROVE  TalkInv'
<1>1. /\ stack # <<>> /\ phase = "running" /\ Top \in Frames
      /\ raised' = NoError /\ Top.place = spot /\ Top.cause \in Nat
      /\ phase' = "running" /\ Top.items \in Seq(Nat) /\ Top.items # <<>>
      /\ Top.turn \in Nat /\ Top.turn >= 1
  BY TopAtIs
<1>2. type \in BranchTypes /\ type # "controller.action" /\ type \in Turning
  BY DEF BranchTypes, Turning
<1>3. /\ lines' # <<>> /\ nextId \in Nat /\ nextId' = nextId + 1
      /\ lines'[Len(lines')].type = type
      /\ lines'[Len(lines')].branch = Top.branch
      /\ Grows
  BY <1>1, <1>2, EventIs
<1>4. PICK f : f = NextTurn(Top, nextId)
  OBVIOUS
<1>5. /\ f.place = "turn" /\ f.branch = Top.branch /\ f.latch = NoError
      /\ f.turn = Top.turn + 1 /\ f.cause = nextId /\ f.items = Append(Top.items, nextId)
      /\ Become(f)
  BY <1>1, <1>4 DEF NextTurn, Frames
<1>6. Top' = f /\ Kept /\ Len(stack') = Len(stack)
  BY <1>1, <1>5, BecomeIs
<1>7. Len(Top.items) <= 2 /\ (Len(Top.items) = 2 => Digested(Top))
  <2>1. Busy(Top) /\ Talk(Top)
    BY <1>1, TopTalks DEF Busy
  <2> QED
    BY <2>1 DEF Talk
<1>8. /\ Len(f.items) = Len(Top.items) + 1 /\ Len(Top.items) \in Nat
      /\ f.items[Len(f.items)] = nextId
      /\ Len(Top.items) = 2 => f.items[2] = Top.items[2]
  <2>1. Append(Top.items, nextId)[Len(Top.items) + 1] = nextId
        /\ Len(Append(Top.items, nextId)) = Len(Top.items) + 1 /\ Len(Top.items) \in Nat
        /\ \A i \in 1..Len(Top.items) : Append(Top.items, nextId)[i] = Top.items[i]
    BY <1>1, <1>3
  <2>2. Len(Top.items) = 2 => 2 \in 1..Len(Top.items)
    OBVIOUS
  <2> QED
    BY <1>5, <2>1, <2>2
<1>9. Len(f.items) = 3 => Digested(f)'
  <2> SUFFICES ASSUME Len(f.items) = 3 PROVE Digested(f)'
    OBVIOUS
  <2>1. Len(Top.items) = 2
    <3>1. PICK m \in Nat : m = Len(Top.items) /\ m + 1 = 3
      BY <1>8
    <3>2. \A k \in Nat : k + 1 = 3 => k = 2
      OBVIOUS
    <3> QED
      BY <3>1, <3>2
  <2>2. PICK g : g = Top
    OBVIOUS
  <2>3. Digested(g) /\ f.items[2] = g.items[2] /\ f.branch = g.branch
    BY <1>5, <1>7, <1>8, <2>1, <2>2
  <2>4. Digested(g)'
    BY <1>3, <2>3, DigestedKept DEF Grows
  <2> QED
    BY <2>3, <2>4 DEF Digested
<1>10. Talk(f)'
  <2>1. f.turn # 1 /\ Len(f.items) <= 3 /\ f.cause = nextId' - 1
    BY <1>1, <1>3, <1>5, <1>7, <1>8
  <2>2. Latest(f, Turning)'
    BY <1>2, <1>3, <1>5, <2>1 DEF Latest, Turning
  <2> QED
    BY <1>5, <1>8, <1>9, <2>1, <2>2 DEF Talk, Busy
<1>11. Talk(Top)'
  BY <1>6, <1>10, TopTalk
<1>12. NoneAwaited'
  BY <1>5, <1>6 DEF NoneAwaited, TopAt
<1>13. Traced(raised)' /\ Traced(Top.latch)'
  BY <1>1, <1>5, <1>6, NoneRaised, NoneLatched
<1> QED
  BY <1>1, <1>2, <1>6, <1>11, <1>12, <1>13, EventTells

\* So do a completion, an observation and a repair.
LEMMA AfterCellTells ==
    ASSUME LoopInv, LoopInv', TalkInv, BranchCompletes \/ Observe \/ Repair
    PROVE  TalkInv'
<1>1. CASE BranchCompletes
  <2>1. /\ TopAt("ran") /\ stack # <<>> /\ phase = "running" /\ Top \in Frames
        /\ raised' = NoError /\ Top.latch = NoError /\ Top.cause \in Nat
        /\ UNCHANGED <<modelCalls, phase, raised>> /\ phase' = "running"
    BY <1>1, TopAtIs DEF BranchCompletes, ledgerVars, counters
  <2>2. PICK f : f = [Top EXCEPT !.place = "exiting", !.cause = nextId]
    OBVIOUS
  <2>3. /\ f.place = "exiting" /\ f.latch = NoError /\ Become(f)
    BY <1>1, <2>1, <2>2 DEF Frames, BranchCompletes
  <2>4. "branch.completed" \in BranchTypes
        /\ Log("branch.completed", NoCall, Top.cause, TRUE)
    BY <1>1 DEF BranchTypes, BranchCompletes
  <2>5. Top' = f /\ Kept /\ Len(stack') = Len(stack)
    BY <2>1, <2>3, BecomeIs
  <2>6. Talk(Top)'
    BY <2>3, <2>5 DEF Talk, Busy
  <2>7. NoneAwaited'
    BY <2>3, <2>5 DEF NoneAwaited, TopAt
  <2>8. Traced(raised)' /\ Traced(Top.latch)'
    BY <2>1, <2>3, <2>5, NoneRaised, NoneLatched
  <2> QED
    BY <2>1, <2>4, <2>5, <2>6, <2>7, <2>8, EventTells
<1>2. CASE Observe
  BY <1>2, NextTurnTells DEF Observe, ledgerVars, counters
<1>3. CASE Repair
  <2>1. TopAt("repairing") /\ Top.latch = NoError
    BY <1>3, TopAtIs DEF Repair
  <2> QED
    BY <1>3, <2>1, NextTurnTells DEF Repair, ledgerVars, counters
<1> QED
  BY <1>1, <1>2, <1>3

\* The root is over: no branch is open, and nothing more is told of one.
LEMMA EmptiedTells ==
    ASSUME LoopInv, LoopInv', TalkInv, UNCHANGED <<traceVars, modelCalls>>, NoneAwaited,
           phase = "running", stack' = <<>>, raised' = NoError,
           phase' \in {"completing", "failing"}, phase' = "failing" => Traced(fatal)'
    PROVE  TalkInv'
<1>1. Len(stack') = 0 /\ Kept
  BY EmptySeq DEF Kept
<1>2. NoneAwaited'
  BY DEF NoneAwaited, TopAt
<1>3. CallsTold'
  BY <1>2, CallsRest DEF traceVars
<1>4. Traced(raised)'
  BY NoneRaised
<1> QED
  BY <1>1, <1>3, <1>4, QuietTells

\* So does the end of an executor.
LEMMA ExitTells ==
    ASSUME LoopInv, LoopInv', TalkInv, ExitExecutor
    PROVE  TalkInv'
<1>1. /\ TopAt("exiting") /\ stack # <<>> /\ phase = "running" /\ raised = NoError
      /\ UNCHANGED <<traceVars, modelCalls>>
  BY TopAtIs DEF ExitExecutor, ledgerVars, counters
<1>2. NoneAwaited
  BY <1>1 DEF NoneAwaited, TopAt
<1>3. CASE Leave("executor", NoEvent) /\ UNCHANGED phase
  <2>1. "executor" \in Errors \ {"none"}
    BY DEF Errors
  <2> QED
    BY <1>1, <1>3, <2>1, LeaveTells
<1>4. CASE phase' = "completing" /\ stack' = <<>> /\ UNCHANGED raised
  BY <1>1, <1>2, <1>4, EmptiedTells
<1>5. CASE Depth > 0 /\ HostReturns(Below) /\ UNCHANGED phase
  <2>1. PICK n : n = Len(stack) - 1
    OBVIOUS
  <2>2. Asker(Below, n)
    BY <1>5, <2>1, AskerBelow
  <2>3. stack[n].place = "cell"
    <3>1. n \in 1..Len(stack) /\ n < Len(stack)
      BY <2>1, <2>2, LenProperties DEF Asker, LoopInv, LoopTypes
    <3> QED
      BY <3>1 DEF LoopInv, Waiting
  <2>4. Busy(stack[n]) /\ stack[n].place \notin {"asked", "answered"}
    BY <2>3 DEF Busy
  <2>5. Traced(Limit) /\ phase' = "running"
    BY <1>1, <1>5, LimitIs DEF Traced
  <2> QED
    BY <1>1, <1>2, <1>5, <2>2, <2>4, <2>5, AnswerTells
<1> QED
  BY <1>3, <1>4, <1>5 DEF ExitExecutor

\* So does an exception that leaves a branch: the end of its cell follows the cause.
LEMMA UnwindTells ==
    ASSUME LoopInv, LoopInv', TalkInv, Unwind
    PROVE  TalkInv'
<1>1. /\ raised # NoError /\ UNCHANGED <<traceVars, modelCalls>> /\ UNCHANGED lines
      /\ phase = "running" /\ NoneAwaited
  BY DEF Unwind, ledgerVars, counters, traceVars, LoopInv, RunControl, NoneAwaited, TopAt
<1>2. PICK e : e = raised
  OBVIOUS
<1>3. Traced(e) /\ Traced(e)'
  BY <1>1, <1>2, TracedRest DEF TalkInv, CausesTold
<1>4. CASE Depth = 0
  <2>1. phase' = "failing" /\ fatal' = e /\ stack' = <<>> /\ raised' = NoError
    BY <1>2, <1>4 DEF Unwind
  <2>2. Traced(fatal)'
    BY <1>3, <2>1 DEF Traced, Causing
  <2> QED
    BY <1>1, <2>1, <2>2, EmptiedTells
<1>5. CASE Depth # 0
  <2>1. Depth > 0
    <3>1. stack # <<>> /\ stack \in Seq(Frames)
      BY <1>1 DEF LoopInv, LoopTypes, RunControl
    <3>2. Len(stack) \in Nat \ {0}
      BY <3>1, EmptySeq, LenProperties
    <3> QED
      BY <1>5, <3>2 DEF Depth
  <2>2. HostRaises(Below, e) /\ phase' = "running"
    BY <1>1, <1>2, <1>5 DEF Unwind
  <2>3. PICK n : n = Len(stack) - 1
    OBVIOUS
  <2>4. Asker(Below, n)
    BY <2>1, <2>3, AskerBelow
  <2>5. stack[n].place = "cell"
    <3>1. n \in 1..Len(stack) /\ n < Len(stack)
      BY <2>3, <2>4, LenProperties DEF Asker, LoopInv, LoopTypes
    <3> QED
      BY <3>1 DEF LoopInv, Waiting
  <2>6. Busy(stack[n]) /\ stack[n].place \notin {"asked", "answered"}
    BY <2>5 DEF Busy
  <2> QED
    BY <1>1, <1>3, <2>2, <2>4, <2>6, AnswerTells
<1> QED
  BY <1>4, <1>5

-----------------------------------------------------------------------------
(* The first and the last event, and the end of the run                     *)

\* An event of the run itself leaves what is told of the calls alone.
LEMMA RunEvent ==
    ASSUME LoopInv, TalkInv, stack = <<>>, NoneAwaited', UNCHANGED modelCalls,
           NEW type \in RunTypes, NEW parent \in Nat \cup {NoEvent},
           type = "run.started" => parent = NoEvent,
           Emit(type, Root, NoCall, parent, TRUE)
    PROVE  /\ Recorded' /\ CallsTold' /\ lines' # <<>> /\ UNCHANGED <<closed, manifest>>
           /\ Len(lines) \in Nat /\ Len(lines') = Len(lines) + 1 /\ nextId = Len(lines)
           /\ Positions = 1..Len(lines) /\ Positions' = Positions \cup {Len(lines) + 1}
           /\ Len(lines) + 1 \notin Positions
           /\ \A i \in Positions : lines'[i] = lines[i]
           /\ lines'[Len(lines) + 1].type = type
           /\ lines'[Len(lines) + 1].parent = parent
<1>1. type \in EventTypes /\ type \notin ModelTypes /\ Recorded /\ modelCalls \in Nat
      /\ Root \in Nat /\ NoCall \in Nat \cup {NoCall} /\ TRUE \in BOOLEAN
      /\ modelCalls' \in {modelCalls, modelCalls + 1} /\ nextId = Len(lines)
  BY DEF EventTypes, RunTypes, ModelTypes, TalkInv, LoopInv, LoopTypes, Root, Recorded
<1>0. Written(type, Root, NoCall, parent, TRUE)
  BY <1>1 DEF Written
<1>2. /\ Recorded'
      /\ Len(lines) \in Nat /\ Len(lines') = Len(lines) + 1
      /\ Positions = 1..Len(lines) /\ Positions' = Positions \cup {Len(lines) + 1}
      /\ Len(lines) + 1 \notin Positions
      /\ \A i \in Positions : lines'[i] = lines[i]
      /\ lines'[Len(lines) + 1].type = type
      /\ lines'[Len(lines) + 1].parent = parent
  BY <1>0, EmitEffects
<1>3. ASSUME NEW t \in ModelTypes, NEW d \in Calls
      PROVE  At(t, d)' = At(t, d) /\ IdOf(t, d)' = IdOf(t, d)
  <2>1. At(t, d)' = At(t, d)
    BY <1>1, <1>2 DEF At
  <2>2. \A i \in At(t, d) : lines'[i] = lines[i]
    BY <1>2 DEF At
  <2>3. CASE At(t, d) = {}
    BY <2>1, <2>3 DEF IdOf
  <2>4. CASE At(t, d) # {}
    BY <2>1, <2>2, <2>4 DEF IdOf
  <2> QED
    BY <2>1, <2>3, <2>4
<1>4. \A d \in Calls : SameEvents(d)
  BY <1>2, <1>3 DEF SameEvents
<1>5. \A d \in Calls : EventsOf(d) /\ Settled(d)
  BY DEF TalkInv, CallsTold, Awaited, TopAt
<1>6. \A d \in Calls : EventsOf(d)' /\ Settled(d)'
  BY <1>4, <1>5, EventsKept
<1>7. CallsTold'
  BY <1>6 DEF CallsTold, NoneAwaited, Calls
<1>8. lines' # <<>>
  BY <1>2
<1> QED
  BY <1>1, <1>2, <1>7, <1>8 DEF Emit

\* So does the start of a run.
LEMMA StartTells ==
    ASSUME LoopInv, LoopInv', TalkInv, StartRun
    PROVE  TalkInv'
<1>1. /\ phase = "starting" /\ phase' = "running" /\ stack = <<>> /\ lines = <<>>
      /\ raised' = NoError /\ UNCHANGED modelCalls /\ ~closed
      /\ Emit("run.started", Root, NoCall, NoEvent, TRUE)
  BY DEF StartRun, LoopInv, RunControl, TalkInv, Framed, ledgerVars, counters
<1>2. PICK f : f = NewBranch(nextId)
  OBVIOUS
<1>3. stack' = <<f>> /\ f.place = "starting" /\ f.latch = NoError /\ f.turn = 1
  BY <1>2 DEF StartRun, NewBranch
<1>4. Len(stack') = 1 /\ stack'[1] = f /\ Top' = f
  BY <1>3 DEF Top
<1>5. NoneAwaited'
  BY <1>3, <1>4 DEF NoneAwaited, TopAt
<1>6. "run.started" \in RunTypes /\ NoEvent \in Nat \cup {NoEvent}
  BY DEF RunTypes
<1>7. /\ Recorded' /\ CallsTold' /\ lines' # <<>> /\ UNCHANGED closed
      /\ Len(lines) \in Nat /\ Len(lines') = Len(lines) + 1
      /\ Positions = 1..Len(lines) /\ Positions' = Positions \cup {Len(lines) + 1}
      /\ lines'[Len(lines) + 1].type = "run.started"
  BY <1>1, <1>5, <1>6, RunEvent
<1>8. Positions' = {1} /\ lines'[1].type = "run.started"
  <2>1. Len(lines) = 0
    BY <1>1
  <2> QED
    BY <1>7, <2>1
<1>9. Framed'
  BY <1>1, <1>7, <1>8 DEF Framed, Final
<1>10. Talk(f)'
  BY <1>3 DEF Talk, Busy
<1>11. Talks'
  <2>1. \A k \in 1..Len(stack') : k = 1
    BY <1>4
  <2> QED
    BY <1>4, <1>10, <2>1 DEF Talks, Talk, Busy, Latest, Digested
<1>12. CausesTold'
  BY <1>1, <1>3, <1>4, NoneRaised, NoneLatched DEF CausesTold
<1> QED
  BY <1>7, <1>9, <1>11, <1>12 DEF TalkInv

\* The final event closes the trace, and tells how the run fared.
LEMMA LastTells ==
    ASSUME LoopInv, LoopInv', TalkInv, phase \in {"completing", "failing"}, phase' = "closing",
           UNCHANGED <<modelCalls, stack, raised, fatal>>,
           NEW type \in {"run.completed", "run.failed"}, NEW parent \in Nat,
           type = "run.completed" <=> fatal = NoError,
           fatal.cause # NoEvent => parent = fatal.cause /\ phase = "failing",
           Emit(type, Root, NoCall, parent, TRUE)
    PROVE  TalkInv'
<1>1. stack = <<>> /\ stack' = <<>> /\ raised' = NoError /\ ~closed
  BY DEF LoopInv, RunControl
<1>2. NoneAwaited'
  BY <1>1 DEF NoneAwaited, TopAt
<1>3. type \in RunTypes /\ type # "run.started" /\ parent \in Nat \cup {NoEvent}
  BY DEF RunTypes
<1>4. /\ Recorded' /\ CallsTold' /\ lines' # <<>> /\ UNCHANGED closed
      /\ Len(lines) \in Nat /\ Len(lines') = Len(lines) + 1
      /\ Positions = 1..Len(lines) /\ Positions' = Positions \cup {Len(lines) + 1}
      /\ Len(lines) + 1 \notin Positions
      /\ \A i \in Positions : lines'[i] = lines[i]
      /\ lines'[Len(lines) + 1].type = type
      /\ lines'[Len(lines) + 1].parent = parent
  BY <1>1, <1>2, <1>3, RunEvent
<1>5. Framed'
  <2>1. /\ \A i \in Positions : lines[i].type = "run.started" <=> i = 1
        /\ \A i \in Positions : ~Final(lines[i])
        /\ lines # <<>>
    BY DEF TalkInv, Framed
  <2>2. Len(lines) + 1 # 1
    <3>1. Len(lines) # 0
      BY <2>1, EmptySeq DEF TalkInv, Recorded
    <3> QED
      BY <1>4, <3>1
  <2>3. \A i \in Positions' : (lines[i].type = "run.started" <=> i = 1)'
    BY <1>3, <1>4, <2>1, <2>2
  <2>4. \A i \in Positions' : (Final(lines[i]) <=> i = Len(lines))'
    BY <1>4, <2>1 DEF Final
  <2> QED
    BY <1>1, <1>4, <2>3, <2>4 DEF Framed
<1>6. CausesTold'
  <2>1. Traced(raised)'
    BY <1>1, NoneRaised
  <2>2. ASSUME fatal.cause # NoEvent
        PROVE  (\E i \in Positions : lines[i].id = lines[Len(lines)].parent /\ Causing(i, Len(lines)))'
    <3>1. PICK i \in Positions : lines[i].id = fatal.cause /\ Causing(i, Len(lines) + 1)
      BY <2>2 DEF TalkInv, CausesTold, Traced
    <3>2. i \in Positions' /\ lines'[i] = lines[i] /\ lines'[i].id = lines'[Len(lines')].parent
      BY <1>4, <2>2, <3>1
    <3>3. \A j \in Positions' : i < j /\ j < Len(lines') => lines'[j].type = "controller.execution"
      <4>1. \A j \in Positions' : j < Len(lines') => j \in Positions
        BY <1>4
      <4> QED
        BY <1>4, <3>1, <4>1 DEF Causing
    <3>4. Causing(i, Len(lines))'
      BY <3>1, <3>2, <3>3 DEF Causing
    <3> QED
      BY <3>2, <3>4
  <2> QED
    BY <1>1, <2>1, <2>2 DEF CausesTold
<1>7. Talks'
  BY <1>1, EmptySeq DEF Talks
<1> QED
  BY <1>4, <1>5, <1>6, <1>7 DEF TalkInv

\* So does a step that changes none of it.
LEMMA RestsTells ==
    ASSUME TalkInv, UNCHANGED <<traceVars, modelCalls, phase, stack, raised, fatal>>
    PROVE  TalkInv'
<1>1. /\ UNCHANGED <<lines, nextId, known, closed, manifest>> /\ Positions' = Positions
      /\ Top' = Top
  BY LinesRest DEF traceVars, Top
<1>2. Recorded' /\ Framed'
  BY <1>1 DEF TalkInv, Recorded, Framed, IdsOrdered, Calls, Final
<1>3. CallsTold'
  <2>1. ASSUME NEW d PROVE EventsOf(d)' = EventsOf(d) /\ Settled(d)' = Settled(d)
    BY <1>1, LinesRest
       DEF EventsOf, Settled, CallAdjacent, Requested, Answered, HasFailed
  <2>2. ASSUME NEW d PROVE Awaited(d)' = Awaited(d)
    BY <1>1 DEF Awaited, TopAt
  <2>3. ASSUME NEW d
        PROVE  Answered(d)' = Answered(d) /\ HasFailed(d)' = HasFailed(d)
               /\ At("model.response", d)' = At("model.response", d)
    BY <1>1, LinesRest DEF Answered, HasFailed
  <2>4. Calls' = Calls /\ TopAt("asked")' = TopAt("asked") /\ TopAt("answered")' = TopAt("answered")
    BY <1>1 DEF Calls, TopAt
  <2>5. \A d \in Calls' : (EventsOf(d) /\ (Settled(d) \/ Awaited(d)))'
    BY <2>1, <2>2, <2>4 DEF TalkInv, CallsTold
  <2>6. PICK c : c = Top.call
    OBVIOUS
  <2>7. TopAt("asked")' => c \in Calls' /\ ~Answered(c)' /\ ~HasFailed(c)'
    BY <2>3, <2>4, <2>6 DEF TalkInv, CallsTold
  <2>8. TopAt("answered")' => c \in Calls' /\ ~HasFailed(c)' /\ At("model.response", c)' = {Len(lines)}
    BY <2>3, <2>4, <2>6 DEF TalkInv, CallsTold
  <2>9. TopAt("answered")' =>
           (lines[Len(lines)].branch = Top.branch /\ Top.cause = nextId - 1)'
    BY <1>1, <2>4 DEF TalkInv, CallsTold
  <2>10. Top'.call = c
    BY <1>1, <2>6
  <2> QED
    BY <1>1, <2>5, <2>7, <2>8, <2>9, <2>10 DEF CallsTold, Answered, HasFailed, At
<1>4. CausesTold'
  BY <1>1 DEF TalkInv, CausesTold, Traced, Causing
<1>5. Talks'
  BY <1>1 DEF TalkInv, Talks, Talk, Busy, Latest, Digested
<1> QED
  BY <1>2, <1>3, <1>4, <1>5 DEF TalkInv

\* So do all steps of the run itself.
LEMMA RunTells ==
    ASSUME LoopInv, LoopInv', TalkInv, RunStep
    PROVE  TalkInv'
<1>1. CASE StartRun
  BY <1>1, StartTells
<1>2. CASE CompleteRun
  <2>1. /\ phase = "completing" /\ fatal = NoError /\ lines # <<>> /\ Recorded
    BY <1>2 DEF CompleteRun, LoopInv, RunControl, TalkInv, Framed
  <2>2. lines[Len(lines)].id \in Nat
    <3>1. Len(lines) \in Positions
      BY <2>1, EmptySeq, LenProperties DEF Recorded, Positions
    <3>2. lines[Len(lines)] \in Events
      BY <2>1, <3>1 DEF Recorded, Positions
    <3> QED
      BY <3>2 DEF Events
  <2>3. PICK parent \in Nat : parent = lines[Len(lines)].id
    BY <2>2
  <2> QED
    BY <1>2, <2>1, <2>3, NoErrorIs, LastTells DEF CompleteRun, ledgerVars, counters
<1>3. CASE FailRun
  <2>1. phase = "failing" /\ fatal # NoError /\ fatal \in Exceptions
    BY <1>3 DEF FailRun, LoopInv, RunControl, LoopTypes
  <2>2. PICK parent \in Nat : parent = IF fatal.cause = NoEvent THEN 0 ELSE fatal.cause
    BY <2>1 DEF Exceptions
  <2> QED
    BY <1>3, <2>1, <2>2, LastTells DEF FailRun, ledgerVars, counters
<1>4. CASE CloseRun
  <2>1. /\ phase = "closing" /\ phase' = "closed" /\ stack = <<>> /\ raised = NoError
        /\ UNCHANGED <<lines, nextId, known, modelCalls, stack, raised, fatal>>
        /\ closed' = TRUE
        /\ manifest'.status = IF fatal = NoError THEN "completed" ELSE "failed"
    BY <1>4 DEF CloseRun, Close, ledgerVars, counters, LoopInv, RunControl
  <2>2. Positions' = Positions
    BY <2>1, LinesRest
  <2>3. Recorded'
    BY <2>1, <2>2 DEF TalkInv, Recorded, IdsOrdered, Calls
  <2>4. Framed'
    BY <2>1, <2>2 DEF TalkInv, Framed, Final
  <2>5. CallsTold'
    <3>1. NoneAwaited /\ NoneAwaited'
      BY <2>1 DEF NoneAwaited, TopAt
    <3> QED
      BY <2>1, <3>1, CallsRest
  <2>6. CausesTold'
    BY <2>1, <2>2 DEF TalkInv, CausesTold, Traced, Causing
  <2>7. Talks'
    BY <2>1, EmptySeq DEF Talks
  <2> QED
    BY <2>3, <2>4, <2>5, <2>6, <2>7 DEF TalkInv
<1> QED
  BY <1>1, <1>2, <1>3, <1>4 DEF RunStep

\* No line is written at first.
LEMMA TalkInitially == Init => TalkInv
<1> SUFFICES ASSUME Init PROVE TalkInv
  OBVIOUS
<1>1. /\ lines = <<>> /\ nextId = 0 /\ known = {} /\ ~closed /\ modelCalls = 0
      /\ phase = "starting" /\ stack = <<>> /\ raised = NoError
  BY DEF Init, LedgerInit, TraceInit
<1>2. Positions = {} /\ Len(lines) = 0 /\ lines \in Seq(Events)
  BY <1>1 DEF Positions
<1>3. Recorded
  BY <1>1, <1>2 DEF Recorded, IdsOrdered
<1>4. Framed
  BY <1>1, <1>2 DEF Framed
<1>5. CallsTold
  BY <1>1 DEF CallsTold, Calls, TopAt
<1>6. CausesTold
  BY <1>1, NoErrorIs DEF CausesTold, Traced
<1>7. Talks
  BY <1>1, EmptySeq DEF Talks
<1> QED
  BY <1>3, <1>4, <1>5, <1>6, <1>7 DEF TalkInv

\* Every step keeps what the trace tells.
LEMMA TalkStep == LoopInv /\ LoopInv' /\ TalkInv /\ [Next]_vars => TalkInv'
<1> SUFFICES ASSUME LoopInv, LoopInv', TalkInv, [Next]_vars PROVE TalkInv'
  OBVIOUS
<1>1. CASE UNCHANGED vars \/ Tick \/ Terminated
  BY <1>1, RestsTells DEF vars, Tick, Terminated, ledgerVars, counters, loopVars
<1>2. CASE BranchStep
  BY <1>2, OpeningTells, AskingTells, RespondsTells, FailsTells, SucceedsTells, ParseTells,
     CellTells, AfterCellTells, RecoverTells, ExitTells, UnwindTells DEF BranchStep
<1>3. CASE HostCallStep
  BY <1>3, HostCallTells DEF HostCallStep
<1>4. CASE RunStep
  BY <1>4, RunTells
<1> QED
  BY <1>1, <1>2, <1>3, <1>4 DEF Next

\* Along every run the trace tells of its calls, its failures and its
\* conversations what the branches have of them.
THEOREM TalkInvariant == Spec => []TalkInv
<1>1. Init => TalkInv
  BY TalkInitially
<1>2. LoopInv /\ LoopInv' /\ TalkInv /\ [Next]_vars => TalkInv'
  BY TalkStep
<1> QED
  BY <1>1, <1>2, LoopInvariant, PTL DEF Spec

-----------------------------------------------------------------------------
(* What the reader finds, and what a controller is told                     *)

\* A set with at most one member has no more, as a cardinality.
LEMMA AtMostOneIs ==
    ASSUME NEW S, AtMostOne(S)
    PROVE  /\ Cardinality(S) <= 1
           /\ S # {} => Cardinality(S) = 1
<1>1. CASE S = {}
  BY <1>1, FS_EmptySet
<1>2. CASE S # {}
  <2>1. PICK x : S = {x}
    BY <1>2 DEF AtMostOne
  <2> QED
    BY <2>1, FS_Singleton
<1> QED
  BY <1>1, <1>2

\* A call that is over has one outcome, as the reader wants it.
LEMMA SettledIsCoherent ==
    ASSUME NEW c, EventsOf(c), Settled(c), Positions \subseteq Int
    PROVE  CallCoherent(c) /\ CallAdjacent(c)
<1>1. /\ Cardinality(At("model.request", c)) = 1
      /\ Cardinality(At("model.response", c)) <= 1
      /\ Cardinality(At("model.failed", c)) <= 1
  BY AtMostOneIs DEF EventsOf, Requested
<1>2. At("model.response", c) \cup At("model.failed", c) # {}
  BY DEF Settled, Answered, HasFailed
<1>3. CallAdjacent(c)
  BY DEF Settled, HasFailed, CallAdjacent
<1>4. ASSUME NEW i \in At("model.response", c)
      PROVE  /\ lines[i].parent = IdOf("model.request", c)
             /\ \A j \in At("model.failed", c) : i < j
             /\ At("model.failed", c) = {} => lines[i].good
  <2>1. i \in Int
    BY DEF At
  <2>2. \A j \in At("model.failed", c) : j = i + 1
    BY <1>3, <1>4 DEF CallAdjacent
  <2>3. \A j \in At("model.failed", c) : i < j
    BY <2>1, <2>2
  <2>4. At("model.failed", c) = {} => lines[i].good
    BY <1>4 DEF Settled, HasFailed
  <2> QED
    BY <1>4, <2>3, <2>4 DEF EventsOf
<1>5. \A i \in At("model.failed", c) :
         lines[i].parent = IF At("model.response", c) = {}
                              THEN IdOf("model.request", c)
                              ELSE IdOf("model.response", c)
  BY DEF EventsOf, Answered
<1> QED
  BY <1>1, <1>2, <1>3, <1>4, <1>5 DEF CallCoherent

\* A closed trace tells the cause of the failure.
LEMMA ClosedTrace == LoopInv /\ TalkInv => TraceTellsTheCause
<1> SUFFICES ASSUME LoopInv, TalkInv, closed PROVE TraceTellsTheCause
  BY DEF TraceTellsTheCause, TraceAccepted, CauseSurvives
<1>1. phase = "closed" /\ stack = <<>>
  BY DEF LoopInv, RunControl
<1>2. /\ lines # <<>> /\ IdsOrdered /\ lines \in Seq(Events)
      /\ \A i \in Positions : lines[i].type = "run.started" <=> i = 1
      /\ \A i \in Positions : Final(lines[i]) <=> i = Len(lines)
      /\ lines[Len(lines)].type = "run.completed" <=> fatal = NoError
  BY <1>1 DEF TalkInv, Recorded, Framed
<1>3. Len(lines) \in Nat \ {0} /\ Positions = 1..Len(lines)
  BY <1>2, EmptySeq, LenProperties DEF Positions
<1>4. 1 \in Positions /\ Len(lines) \in Positions
  BY <1>3
<1>5. OneStartOneEnd
  <2>1. {i \in Positions : lines[i].type = "run.started"} = {1}
    BY <1>2, <1>4
  <2>2. {i \in Positions : Final(lines[i])} = {Len(lines)}
    BY <1>2, <1>4
  <2> QED
    BY <2>1, <2>2, FS_Singleton DEF OneStartOneEnd
<1>6. \A c \in CallsIn : CallCoherent(c) /\ CallAdjacent(c)
  <2>1. CallsIn \subseteq Calls
    BY DEF CallsIn, TalkInv, Recorded
  <2>2. \A c \in Calls : EventsOf(c) /\ Settled(c)
    BY <1>1 DEF TalkInv, CallsTold, Awaited, TopAt
  <2>3. Positions \subseteq Int
    BY <1>3
  <2> QED
    BY <2>1, <2>2, <2>3, SettledIsCoherent
<1>7. manifest.status = "completed" <=> lines[Len(lines)].type = "run.completed"
  BY <1>2 DEF TalkInv, Framed
<1>8. TraceAccepted
  BY <1>2, <1>5, <1>6, <1>7 DEF TraceAccepted, CallsCoherent, CallsAdjacent
<1>9. CauseSurvives
  <2> DEFINE aborts == {i \in Positions : lines[i].type = "controller.recovery_decision"}
             failures == {i \in Positions : lines[i].type = "model.failed"}
  <2> SUFFICES ASSUME fatal.cause # NoEvent
               PROVE  \E i \in aborts \cup failures :
                          /\ lines[i].id = lines[Len(lines)].parent
                          /\ \A j \in Positions :
                                i < j /\ j < Len(lines) => lines[j].type = "controller.execution"
    BY DEF CauseSurvives
  <2>1. PICK i \in Positions : lines[i].id = lines[Len(lines)].parent /\ Causing(i, Len(lines))
    BY <1>1 DEF TalkInv, CausesTold
  <2>2. i \in aborts \cup failures
    BY <2>1 DEF Causing
  <2> QED
    BY <2>1, <2>2 DEF Causing
<1> QED
  BY <1>8, <1>9 DEF TraceTellsTheCause

\* A request is made with the latest conversation.
LEMMA ToldIsCurrent == LoopInv /\ TalkInv => ConversationCurrent
<1> SUFFICES ASSUME LoopInv, TalkInv, NEW k \in DOMAIN stack, stack[k].place = "turn"
             PROVE  LET f == stack[k]
                        latest == LastOf(f.branch, Turning)
                    IN  /\ f.cause = latest
                        /\ f.items[Len(f.items)] = latest
                        /\ f.turn = 1 => Len(f.items) = 1
                        /\ Len(f.items) <= 3
                        /\ Len(f.items) = 3 => Digested(f)
  BY DEF ConversationCurrent, Digested
<1>1. PICK f : f = stack[k]
  OBVIOUS
<1>2. stack \in Seq(Frames) /\ k \in 1..Len(stack)
  BY LenProperties DEF LoopInv, LoopTypes
<1>3. /\ Latest(f, Turning) /\ f.items[Len(f.items)] = f.cause
      /\ f.turn = 1 => Len(f.items) = 1
      /\ Len(f.items) <= 3
      /\ Len(f.items) = 3 => Digested(f)
  BY <1>1, <1>2 DEF TalkInv, Talks, Talk
<1>4. /\ lines # <<>> /\ nextId = Len(lines) /\ lines \in Seq(Events)
      /\ IdsOrdered /\ f.cause = nextId - 1
      /\ lines[Len(lines)].branch = f.branch /\ lines[Len(lines)].type \in Turning
  BY <1>3 DEF Latest, TalkInv, Recorded
<1>5. /\ Len(lines) \in Nat \ {0} /\ Positions = 1..Len(lines)
  BY <1>4, EmptySeq, LenProperties DEF Positions
<1>6. Len(lines) \in Positions
  BY <1>5
<1>7. lines[Len(lines)].id = f.cause
  BY <1>4, <1>5, <1>6 DEF IdsOrdered
<1>8. LastOf(f.branch, Turning) = lines[Len(lines)].id
  <2> DEFINE events == {i \in Positions : lines[i].branch = f.branch /\ lines[i].type \in Turning}
  <2>1. Len(lines) \in events /\ events \subseteq Positions
    BY <1>4, <1>6
  <2> HIDE DEF events
  <2>2. \A j \in events : j <= Len(lines)
    BY <1>5, <2>1
  <2>3. \A i \in events : Len(lines) <= i => i = Len(lines)
    BY <1>5, <2>1
  <2>4. (CHOOSE i \in events : \A j \in events : j <= i) = Len(lines)
    BY <2>1, <2>2, <2>3
  <2> QED
    BY <2>4 DEF LastOf, events
<1> QED
  BY <1>1, <1>3, <1>7, <1>8

\* trace_reader.py:164-220, 362-432, executor.py:515-537.  The trace a run
\* leaves is one the reader accepts, however deep branches go and whatever
\* fails, and its last event names the first cause of the failure.
THEOREM TraceTells == Spec => []TraceTellsTheCause
<1>1. LoopInv /\ TalkInv => TraceTellsTheCause
  BY ClosedTrace
<1> QED
  BY <1>1, LoopInvariant, TalkInvariant, PTL

\* protocol.py:77-104, engine.py:384-560.  A branch that asks its controller
\* shows it the latest observation or repair of that branch, at most one
\* response besides, and nothing of another branch or an older turn.
THEOREM ConversationIsCurrent == Spec => []ConversationCurrent
<1>1. LoopInv /\ TalkInv => ConversationCurrent
  BY ToldIsCurrent
<1> QED
  BY <1>1, LoopInvariant, TalkInvariant, PTL

\* A set of numbers that is not empty has a least one.
LEMMA LeastOf ==
    ASSUME NEW T \in SUBSET Nat, T # {} PROVE \E m \in T : \A n \in T : m <= n
<1>1. PICK m \in T : \A n \in T : ~(<<n, m>> \in OpToRel(<, Nat))
  BY NatLessThanWellFounded, WFMin
<1>2. \A n \in T : n < m => <<n, m>> \in OpToRel(<, Nat)
  BY DEF OpToRel
<1>3. \A n \in T : ~(n < m)
  BY <1>1, <1>2
<1>4. \A n \in T : n \in Nat /\ m \in Nat
  OBVIOUS
<1>5. \A n \in T : m <= n
  BY <1>3, <1>4
<1> QED
  BY <1>5

\* A set of numbers with zero, and with each one its successor, is all of them.
LEMMA AllNumbers == ASSUME NEW T \in SUBSET Nat, 0 \in T, \A n \in T : n + 1 \in T PROVE T = Nat
<1> SUFFICES ASSUME Nat \ T # {} PROVE FALSE
  OBVIOUS
<1>1. PICK m \in Nat \ T : \A n \in Nat \ T : m <= n
  BY LeastOf
<1>2. m # 0 /\ m - 1 \in Nat /\ m - 1 \in T
  BY <1>1
<1> QED
  BY <1>1, <1>2

(***************************************************************************)
(* The branches of a batch.                                                *)
(***************************************************************************)
Nodes == Batch!Branches
Child(p) == Batch!ChildrenOf(p)
Parent(b) == Batch!ParentOf(b)

\* The children of a branch.
LEMMA ChildIs == \A p : Child(p) = {BatchChildren[p][i] : i \in DOMAIN BatchChildren[p]}
BY DEF Child, Batch!ChildrenOf, Batch!Range

\* Each branch but the root has one parent, and the root has none.
LEMMA TreeIs ==
    /\ BatchRoot \in Nodes
    /\ \A p \in Nodes : \A c \in Child(p) : c \in Nodes /\ c # BatchRoot /\ Parent(c) = p
    /\ \A b \in Nodes : b # BatchRoot => Parent(b) \in Nodes /\ b \in Child(Parent(b))
<1>1. PICK depth \in [Nodes -> 0..BatchDepth] :
         depth[BatchRoot] = 0 /\ \A p \in Nodes : \A c \in Child(p) : depth[c] = depth[p] + 1
  BY BranchesAssumption DEF Nodes, Child
<1>2. BatchRoot \in Nodes /\ BatchDepth \in Nat
  BY BranchesAssumption DEF Nodes
<1>3. ASSUME NEW p \in Nodes, NEW c \in Child(p)
      PROVE  c \in Nodes /\ c # BatchRoot /\ Parent(c) = p
  <2>1. c \in Nodes
    <3>1. BatchChildren[p] \in Seq(Nodes)
      BY BranchesAssumption DEF Nodes
    <3> QED
      BY <3>1, ChildIs
  <2>2. c # BatchRoot
    BY <1>1, <1>2
  <2>3. \A q \in Nodes : c \in Child(q) => q = p
    BY BranchesAssumption DEF Nodes, Child
  <2> QED
    BY <2>1, <2>2, <2>3 DEF Parent, Batch!ParentOf, Nodes, Child
<1>4. ASSUME NEW b \in Nodes, b # BatchRoot
      PROVE  Parent(b) \in Nodes /\ b \in Child(Parent(b))
  BY <1>4, BranchesAssumption DEF Parent, Batch!ParentOf, Nodes, Child
<1> QED
  BY <1>2, <1>3, <1>4

\* The branches above b, from those above its parent.
Up(f, b) == IF b = BatchRoot THEN <<>> ELSE <<Parent(b)>> \o f[Parent(b)]

\* How deep a branch is says how far it is from the root.
Depths(depth) ==
    /\ depth \in [Nodes -> Nat]
    /\ \A b \in Nodes : depth[b] <= BatchDepth
    /\ \A b \in Nodes : b # BatchRoot => depth[b] = depth[Parent(b)] + 1

\* There is such a depth (_ensure_recursion counts it).
LEMMA DepthIs == \E depth : Depths(depth)
<1>1. PICK depth \in [Nodes -> 0..BatchDepth] :
         depth[BatchRoot] = 0 /\ \A p \in Nodes : \A c \in Child(p) : depth[c] = depth[p] + 1
  BY BranchesAssumption DEF Nodes, Child
<1>2. BatchDepth \in Nat
  BY BranchesAssumption
<1> QED
  BY <1>1, <1>2, TreeIs DEF Depths

\* What holds of the root, and of a branch if of its parent, holds of all.
LEMMA DownTheTree ==
    ASSUME NEW S \in SUBSET Nodes, BatchRoot \in S,
           \A b \in Nodes : b # BatchRoot /\ Parent(b) \in S => b \in S
    PROVE  S = Nodes
<1>1. PICK depth : Depths(depth)
  BY DepthIs
<1> DEFINE T == {n \in Nat : \A b \in Nodes : depth[b] <= n => b \in S}
<1>2. 0 \in T
  BY <1>1, TreeIs DEF Depths
<1>3. ASSUME NEW n \in T
      PROVE  n + 1 \in T
  BY <1>1, TreeIs DEF Depths
<1>4. T = Nat
  <2> HIDE DEF T
  <2>1. T \in SUBSET Nat
    BY DEF T
  <2> QED
    BY <1>2, <1>3, <2>1, AllNumbers
<1>5. ASSUME NEW b \in Nodes
      PROVE  b \in S
  BY <1>1, <1>4 DEF Depths
<1> QED
  BY <1>5

\* The equation that Above is defined by; some function solves it, and so Above does.
Upward(f) == f = [b \in Nodes |-> Up(f, b)]

\* A solution down to each depth extends to the next one.
LEMMA AboveExists == \E f : Upward(f)
<1>1. PICK depth : Depths(depth)
  BY DepthIs
<1> DEFINE To(n) == {b \in Nodes : depth[b] <= n}
           T == {n \in Nat : \E f : f = [b \in To(n) |-> Up(f, b)]}
<1>2. 0 \in T
  <2> DEFINE f == [b \in To(0) |-> <<>>]
  <2>1. \A b \in To(0) : b = BatchRoot
    BY <1>1, TreeIs DEF Depths
  <2>2. f = [b \in To(0) |-> Up(f, b)]
    BY <2>1 DEF Up
  <2> QED
    BY <2>2
<1>3. ASSUME NEW n \in T
      PROVE  n + 1 \in T
  <2>1. PICK f : f = [b \in To(n) |-> Up(f, b)]
    BY <1>3
  <2> DEFINE g == [b \in To(n + 1) |-> Up(f, b)]
  <2>2. \A b \in To(n + 1) : b # BatchRoot => Parent(b) \in To(n) /\ Parent(b) \in To(n + 1)
    BY <1>1, TreeIs DEF Depths
  <2>3. \A b \in To(n) : g[b] = f[b]
    <3>1. \A b \in To(n) : b \in To(n + 1)
      BY <1>1 DEF Depths
    <3>2. \A b \in To(n) : f[b] = Up(f, b)
      BY <2>1
    <3> QED
      BY <3>1, <3>2
  <2>4. \A b \in To(n + 1) : Up(f, b) = Up(g, b)
    BY <2>2, <2>3 DEF Up
  <2>5. g = [b \in To(n + 1) |-> Up(g, b)]
    BY <2>4
  <2>6. \E h : h = [b \in To(n + 1) |-> Up(h, b)]
    BY <2>5
  <2>7. n \in Nat /\ n + 1 \in Nat
    OBVIOUS
  <2> QED
    BY <2>6, <2>7
<1>4. T = Nat
  <2>1. T \in SUBSET Nat
    OBVIOUS
  <2> HIDE DEF T
  <2> QED
    BY <1>2, <1>3, <2>1, AllNumbers
<1>5. BatchDepth \in Nat
  BY BranchesAssumption
<1>6. To(BatchDepth) = Nodes
  BY <1>1 DEF Depths
<1>7. PICK f : f = [b \in To(BatchDepth) |-> Up(f, b)]
  BY <1>4, <1>5
<1> QED
  BY <1>6, <1>7 DEF Upward

\* So Above is one.
LEMMA AboveIs == Upward(Batch!Above)
<1>1. Batch!Above = CHOOSE f : Upward(f)
  BY DEF Batch!Above, Upward, Up, Nodes, Parent
<1> QED
  BY <1>1, AboveExists

\* All branches above one.
Higher(b) == Batch!Ancestors(b)

\* The branches above one are its parent and those above that.
LEMMA AncestorsAre ==
    /\ Higher(BatchRoot) = {}
    /\ \A b \in Nodes : b # BatchRoot => Higher(b) = {Parent(b)} \cup Higher(Parent(b))
<1> DEFINE f == Batch!Above
<1>1. \A b \in Nodes : f[b] = Up(f, b)
  BY AboveIs DEF Upward
<1> HIDE DEF f
<1>0. f[BatchRoot] = <<>>
  <2>1. f[BatchRoot] = Up(f, BatchRoot)
    BY <1>1, TreeIs
  <2> QED
    BY Zenon, <2>1 DEF Up
<1>2. \A b \in Nodes : f[b] \in Seq(Nodes)
  <2> DEFINE S == {b \in Nodes : f[b] \in Seq(Nodes)}
  <2>1. BatchRoot \in S
    <3>1. <<>> \in Seq(Nodes)
      BY EmptySeq
    <3> QED
      BY <1>0, <3>1, TreeIs
  <2>2. ASSUME NEW b \in Nodes, b # BatchRoot, Parent(b) \in S
        PROVE  b \in S
    <3>1. f[b] = <<Parent(b)>> \o f[Parent(b)]
      BY <1>1, <2>2 DEF Up
    <3>2. <<Parent(b)>> \in Seq(Nodes) /\ f[Parent(b)] \in Seq(Nodes)
      BY <2>2, TreeIs
    <3>3. f[b] \in Seq(Nodes)
      BY <3>1, <3>2, ConcatProperties
    <3> QED
      BY <3>3
  <2> HIDE DEF S
  <2>3. S \in SUBSET Nodes
    BY DEF S
  <2>4. S = Nodes
    BY <2>1, <2>2, <2>3, DownTheTree
  <2> QED
    BY <2>4 DEF S
<1>3. \A b : Higher(b) = {f[b][i] : i \in DOMAIN f[b]}
  BY DEF Higher, Batch!Ancestors, Batch!Range, f
<1>4. Higher(BatchRoot) = {}
  BY <1>0, <1>3
<1>5. ASSUME NEW b \in Nodes, b # BatchRoot
      PROVE  Higher(b) = {Parent(b)} \cup Higher(Parent(b))
  <2> DEFINE p == Parent(b)
             s == f[p]
             t == <<p>> \o s
  <2>1. p \in Nodes /\ s \in Seq(Nodes) /\ f[b] = t
    BY <1>1, <1>2, <1>5, TreeIs DEF Up
  <2> HIDE DEF p, s
  <2>2. /\ Len(t) = Len(s) + 1 /\ t[1] = p /\ DOMAIN t = 1..Len(t) /\ Len(s) \in Nat
        /\ \A i \in 1..Len(s) : t[i + 1] = s[i]
    BY <2>1
  <2>3. {t[i] : i \in DOMAIN t} = {p} \cup {s[i] : i \in DOMAIN s}
    <3> HIDE DEF t
    <3>1. \A i \in DOMAIN t : t[i] \in {p} \cup {s[j] : j \in DOMAIN s}
      <4>1. \A i \in DOMAIN t : i # 1 => i - 1 \in 1..Len(s) /\ i = (i - 1) + 1
        BY <2>2
      <4>2. \A i \in DOMAIN t : i # 1 => t[i] = s[i - 1]
        BY <2>2, <4>1
      <4> QED
        BY <2>1, <2>2, <4>1, <4>2
    <3>2. \A i \in DOMAIN s : i + 1 \in DOMAIN t /\ s[i] = t[i + 1]
      BY <2>1, <2>2
    <3>3. 1 \in DOMAIN t /\ p \in {t[i] : i \in DOMAIN t}
      BY <2>2
    <3>4. {t[i] : i \in DOMAIN t} \subseteq {p} \cup {s[i] : i \in DOMAIN s}
      BY <3>1
    <3>5. {s[i] : i \in DOMAIN s} \subseteq {t[i] : i \in DOMAIN t}
      BY <3>2
    <3> QED
      BY <3>3, <3>4, <3>5
  <2> QED
    BY <1>3, <2>1, <2>3 DEF p, s
<1> QED
  BY <1>4, <1>5

\* Where a branch may be, and be before its cell.
Spots == {"none", "queued", "asking", "calling", "cell", "waiting", "cleanup", "closing", "done",
           "cancelled"}
Early == {"none", "queued", "asking", "calling"}
\* A branch has been taken and is not over.
Runs(spot) == spot \notin {"none", "queued", "done", "cancelled"}

\* What a branch may fail with.
NoFailure == [kind |-> "none", from |-> BatchRoot]
BatchErrors == [kind : {"none", "timeout", "base", "remote"}, from : Nodes]

\* The types of the variables.
BatchTypes ==
    /\ batchClock \in Nat
    /\ pc \in [Nodes -> Spots]
    /\ err \in [Nodes -> BatchErrors]
    /\ \A b \in Nodes : err[b].kind = "none" => err[b] = NoFailure
    /\ due \in [Nodes -> Nat]
    /\ live \subseteq Nodes

\* A branch that waits to be taken, runs or has an interpreter does so for a
\* parent that waits; one that has not had its cell has asked for nothing.
Nested ==
    /\ pc[BatchRoot] \notin Early
    /\ \A b \in Nodes : b # BatchRoot =>
          /\ pc[b] = "queued" => pc[Parent(b)] = "waiting"
          /\ Runs(pc[b]) => pc[Parent(b)] \in {"waiting", "cleanup"}
          /\ b \in live => Runs(pc[b])
          /\ pc[Parent(b)] \in Early => pc[b] = "none"

\* The deadline of a cell is none of a branch before it, and no later than that
\* of the cell it is a part of.
Dues ==
    \A b \in Nodes :
        /\ pc[b] \in Early => due[b] = 0
        /\ b # BatchRoot => due[b] <= due[Parent(b)]

\* A failure that came up from below was the first at every level.
First ==
    \A p \in Nodes : err[p].kind = "remote" =>
        \A a \in {err[p].from} \cup Higher(err[p].from) : a \notin {p} \cup Higher(p) =>
            \A d \in Batch!Earlier(a) : d \in Nodes /\ pc[d] = "done" /\ err[d] = NoFailure

\* The numbers of a deadline.
LEMMA LeastIs ==
    /\ \A m, n \in Nat : Batch!Least(m, n) \in Nat /\ Batch!Least(m, n) <= m
           /\ Batch!Least(m, n) <= n
BY DEF Batch!Least

\* One branch moves, in a way a branch may.
Goes(b, q) ==
    /\ pc' = [pc EXCEPT ![b] = q]
    /\ q \in Spots \ {"none", "queued", "cancelled"}
    /\ Runs(q) => pc[b] = "queued" \/ Runs(pc[b])
    /\ pc[b] \notin {"none", "done", "cancelled"}
    /\ pc[b] \in {"waiting", "cleanup"} => \A c \in Child(b) : pc[c] \in {"done", "cancelled"}
    /\ q \in Early => pc[b] \in Early
    /\ live' \subseteq live \cup {b}
    /\ b \in live' /\ b # BatchRoot => Runs(q)

\* Such a move leaves running branches inside those that wait for them.
LEMMA MovesNested ==
    ASSUME BatchTypes, Nested, NEW b \in Nodes, NEW q, Goes(b, q)
    PROVE  Nested'
<1>1. \A c \in Nodes : pc'[c] = IF c = b THEN q ELSE pc[c]
  BY DEF Goes, BatchTypes
<1>2. pc'[BatchRoot] \notin Early
  BY <1>1, TreeIs DEF Goes, Nested
<1>3. ASSUME NEW c \in Nodes, c # BatchRoot
      PROVE  /\ pc'[c] = "queued" => pc'[Parent(c)] = "waiting"
             /\ Runs(pc'[c]) => pc'[Parent(c)] \in {"waiting", "cleanup"}
             /\ c \in live' => Runs(pc'[c])
             /\ pc'[Parent(c)] \in Early => pc'[c] = "none"
  <2>1. Parent(c) \in Nodes /\ c \in Child(Parent(c)) /\ Parent(c) # c
    <3>1. Parent(c) \in Nodes /\ c \in Child(Parent(c))
      BY <1>3, TreeIs
    <3>2. PICK depth : Depths(depth)
      BY DepthIs
    <3>3. Parent(c) # c
      BY <1>3, <3>1, <3>2 DEF Depths
    <3> QED
      BY <3>1, <3>3
  <2>2. /\ pc[c] = "queued" => pc[Parent(c)] = "waiting"
        /\ Runs(pc[c]) => pc[Parent(c)] \in {"waiting", "cleanup"}
        /\ c \in live => Runs(pc[c])
        /\ pc[Parent(c)] \in Early => pc[c] = "none"
    BY <1>3 DEF Nested
  <2>3. CASE c = b
    BY <1>1, <1>3, <2>1, <2>2, <2>3 DEF Goes, Runs, Early
  <2>4. CASE Parent(c) = b
    BY <1>1, <2>1, <2>2, <2>4 DEF Goes, Runs, Early
  <2>5. CASE c # b /\ Parent(c) # b
    BY <1>1, <2>1, <2>2, <2>5 DEF Goes
  <2> QED
    BY <2>3, <2>4, <2>5
<1> QED
  BY <1>2, <1>3 DEF Nested

\* A branch that fails or ends.
LEMMA StepMoves ==
    ASSUME BatchTypes, Nested, NEW b \in Nodes,
           \/ b # BatchRoot /\ (Batch!Refused(b) \/ Batch!Opens(b) \/ Batch!OpenFails(b))
           \/ Batch!Calls(b) \/ Batch!CallTooLate(b) \/ Batch!CallReturns(b) \/ Batch!CallFails(b)
           \/ Batch!CellEnds(b) \/ Batch!CellTimesOut(b)
           \/ Batch!BatchReturns(b) \/ Batch!Cleaned(b) \/ Batch!Leaves(b)
    PROVE  \E q : Goes(b, q)
<1>0. live \subseteq Nodes /\ (b # BatchRoot /\ b \in live => Runs(pc[b]))
  BY DEF BatchTypes, Nested
<1>1. CASE b # BatchRoot /\ Batch!Refused(b)
  <2>1. Goes(b, "done")
    BY <1>0, <1>1
       DEF Goes, Batch!Refused, Batch!Taken, Batch!FailsWith, Batch!Goes, Spots, Early, Runs
  <2> QED
    BY <2>1
<1>2. CASE b # BatchRoot /\ Batch!Opens(b)
  <2>1. Goes(b, "asking")
    BY <1>0, <1>2 DEF Goes, Batch!Opens, Batch!Taken, Batch!Goes, Spots, Early, Runs
  <2> QED
    BY <2>1
<1>3. CASE b # BatchRoot /\ Batch!OpenFails(b)
  <2>1. Goes(b, "done")
    BY <1>0, <1>3
       DEF Goes, Batch!OpenFails, Batch!Taken, Batch!FailsWith, Batch!Goes, Spots, Early,
           Runs
  <2> QED
    BY <2>1
<1>4. CASE Batch!Calls(b)
  <2>1. Goes(b, "calling")
    BY <1>0, <1>4 DEF Goes, Batch!Calls, Batch!Goes, Spots, Early, Runs
  <2> QED
    BY <2>1
<1>5. CASE Batch!CallTooLate(b) \/ Batch!CallFails(b)
  <2>1. Goes(b, "closing")
    BY <1>0, <1>5
       DEF Goes, Batch!CallTooLate, Batch!CallFails, Batch!FailsWith, Batch!Goes, Spots,
           Early, Runs
  <2> QED
    BY <2>1
<1>6. CASE Batch!CallReturns(b)
  <2>1. Goes(b, "cell")
    BY <1>0, <1>6 DEF Goes, Batch!CallReturns, Batch!Goes, Spots, Early, Runs
  <2> QED
    BY <2>1
<1>7. CASE Batch!CellEnds(b) \/ Batch!CellTimesOut(b)
  <2>1. Goes(b, "closing")
    BY <1>0, <1>7
       DEF Goes, Batch!CellEnds, Batch!CellTimesOut, Batch!FailsWith, Batch!Goes, Spots,
           Early, Runs
  <2> QED
    BY <2>1
<1>8. CASE Batch!BatchReturns(b)
  <2>1. \E q \in {"closing", "cell"} : pc' = [pc EXCEPT ![b] = q]
    BY <1>8 DEF Batch!BatchReturns, Batch!FailsWith, Batch!Goes
  <2>2. pc[b] = "waiting" /\ live' = live /\ \A c \in Child(b) : pc[c] = "done"
    BY <1>8 DEF Batch!BatchReturns, Child
  <2> QED
    BY <1>0, <2>1, <2>2 DEF Goes, Spots, Early, Runs
<1>9. CASE Batch!Cleaned(b)
  <2>1. Goes(b, "closing")
    BY <1>0, <1>9
       DEF Goes, Batch!Cleaned, Batch!Joined, Batch!Settled, Batch!Goes, Spots, Early, Runs,
           Child
  <2> QED
    BY <2>1
<1>10. CASE Batch!Leaves(b)
  <2>1. Goes(b, "done")
    BY <1>0, <1>10 DEF Goes, Batch!Leaves, Batch!Goes, Spots, Early, Runs
  <2> QED
    BY <2>1
<1> QED
  BY <1>1, <1>2, <1>3, <1>4, <1>5, <1>6, <1>7, <1>8, <1>9, <1>10

\* The requests before one of a batch.
LEMMA EarlierAre ==
    ASSUME NEW p \in Nodes, NEW i \in DOMAIN BatchChildren[p]
    PROVE  Batch!Earlier(BatchChildren[p][i]) = {BatchChildren[p][j] : j \in 1..(i - 1)}
<1> DEFINE all == BatchChildren[p]
           c == all[i]
<1>1. c \in Child(p)
  BY ChildIs
<1>2. Parent(c) = p
  BY <1>1, TreeIs
<1>3. \A k \in DOMAIN all : all[k] = c => k = i
  BY BranchesAssumption DEF Nodes
<1>4. (CHOOSE k \in DOMAIN all : all[k] = c) = i
  BY <1>3
<1>5. Batch!Earlier(c) = {BatchChildren[Parent(c)][k] :
                            k \in 1..((CHOOSE m \in DOMAIN BatchChildren[Parent(c)] : BatchChildren[Parent(c)][m] = c) - 1)}
  BY DEF Batch!Earlier, Parent
<1> HIDE DEF c
<1>6. Batch!Earlier(c) = {all[k] : k \in 1..((CHOOSE m \in DOMAIN all : all[m] = c) - 1)}
  BY <1>2, <1>5
<1> QED
  BY <1>4, <1>6 DEF c

\* What a batch fails with is what its first child with a failure has.
LEMMA OutcomeIs ==
    ASSUME NEW p \in Nodes
    PROVE  \/ Batch!Outcome(p) = NoFailure
           \/ \E c \in Child(p) : /\ Batch!Outcome(p) = err[c] /\ err[c].kind # "none"
                                  /\ \A d \in Batch!Earlier(c) : d \in Child(p)
                                         /\ err[d].kind = "none"
<1> DEFINE F == Batch!Failing(p)
           all == BatchChildren[p]
<1>1. F = {c \in Child(p) : err[c].kind # "none"}
  BY DEF Batch!Failing, Child
<1>2. Batch!Outcome(p) = IF F = {} THEN NoFailure
          ELSE err[CHOOSE c \in F : F \cap Batch!Earlier(c) = {}]
  BY DEF Batch!Outcome, Batch!NoError, NoFailure
<1> HIDE DEF F
<1>3. CASE F # {}
  <2> DEFINE T == {i \in DOMAIN all : all[i] \in F}
  <2>1. all \in Seq(Nodes)
    BY BranchesAssumption DEF Nodes
  <2>2. T # {} /\ T \in SUBSET Nat
    BY <1>1, <1>3, <2>1, ChildIs
  <2>3. PICK i \in T : \A j \in T : i <= j
    <3> HIDE DEF T
    <3> QED
      BY <2>2, LeastOf
  <2>4. F \cap Batch!Earlier(all[i]) = {}
    <3>1. Batch!Earlier(all[i]) = {all[j] : j \in 1..(i - 1)}
      BY <2>3, EarlierAre
    <3>2. \A j \in 1..(i - 1) : j \in DOMAIN all /\ ~(i <= j)
      BY <2>1, <2>3
    <3>3. \A j \in 1..(i - 1) : all[j] \notin F
      BY <2>3, <3>2
    <3> QED
      BY <3>1, <3>3
  <2> DEFINE c == CHOOSE c \in F : F \cap Batch!Earlier(c) = {}
  <2>5. c \in F /\ F \cap Batch!Earlier(c) = {}
    BY <2>3, <2>4
  <2>6. Batch!Outcome(p) = err[c]
    BY <1>2, <1>3
  <2> HIDE DEF c
  <2>7. \A d \in Batch!Earlier(c) : d \in Child(p)
    <3>1. PICK k \in DOMAIN all : c = all[k]
      BY <1>1, <2>5, ChildIs
    <3>2. Batch!Earlier(c) = {all[j] : j \in 1..(k - 1)}
      BY <3>1, EarlierAre
    <3>3. \A j \in 1..(k - 1) : j \in DOMAIN all
      BY <2>1, <3>1
    <3> QED
      BY <3>2, <3>3, ChildIs
  <2>8. c \in Child(p) /\ err[c].kind # "none" /\ \A d \in Batch!Earlier(c) : err[d].kind = "none"
    BY <1>1, <2>5, <2>7
  <2> QED
    BY <2>6, <2>7, <2>8
<1> QED
  BY <1>2, <1>3

\* The steps that move one branch.
OneMoves(b) ==
    \/ b # BatchRoot /\ (Batch!Refused(b) \/ Batch!Opens(b) \/ Batch!OpenFails(b))
    \/ Batch!Calls(b) \/ Batch!CallTooLate(b) \/ Batch!CallReturns(b) \/ Batch!CallFails(b)
    \/ Batch!CellEnds(b) \/ Batch!CellTimesOut(b)
    \/ Batch!BatchReturns(b) \/ Batch!Cleaned(b) \/ Batch!Leaves(b)

\* Nothing but the clock moves.
Rests == pc' = pc /\ err' = err /\ due' = due /\ live' = live /\ batchClock' \in Nat

\* A batch is given up, for what is no Exception.
GivenUp(p) == pc[p] = "waiting" /\ \E e \in BatchErrors : e.kind = "base" /\ Batch!Cancel(p, e)

\* A step of a batch is one of those.
LEMMA StepsAre ==
    ASSUME BatchTypes, [Batch!Next]_batchVars
    PROVE  \/ Rests
           \/ \E b \in Nodes : OneMoves(b) \/ Batch!CellAsks(b) \/ GivenUp(b)
<1>1. CASE UNCHANGED batchVars
  BY <1>1 DEF batchVars, Rests, BatchTypes
<1>2. CASE Batch!Tick
  BY <1>2 DEF Batch!Tick, Rests, BatchTypes
<1>3. CASE Batch!Interrupt
  <2>1. Batch!Error("base", BatchRoot) \in BatchErrors
            /\ Batch!Error("base", BatchRoot).kind = "base"
    BY TreeIs DEF Batch!Error, BatchErrors
  <2> QED
    BY <1>3, <2>1, TreeIs DEF Batch!Interrupt, GivenUp
<1>4. ASSUME NEW b \in Nodes, Batch!BatchBreaks(b)
      PROVE  GivenUp(b)
  <2>1. PICK c \in Child(b) : err[c].kind = "base" /\ Batch!Cancel(b, err[c])
    BY <1>4 DEF Batch!BatchBreaks, Child
  <2>2. err[c] \in BatchErrors
    BY <1>4, TreeIs DEF BatchTypes
  <2> QED
    BY <1>4, <2>1, <2>2 DEF Batch!BatchBreaks, GivenUp
<1>5. CASE \E b \in Nodes : Batch!Step(b)
  BY <1>4, <1>5 DEF Batch!Step, OneMoves
<1> QED
  BY <1>1, <1>2, <1>3, <1>5 DEF Batch!Next, Nodes

\* The branches of an expansion, and of a batch given up.
LEMMA AsksIs ==
    ASSUME BatchTypes, NEW b \in Nodes, Batch!CellAsks(b)
    PROVE  \/ /\ pc' = pc /\ live' = live /\ due' = due /\ batchClock' = batchClock
              /\ pc[b] = "cell" /\ err' = [err EXCEPT ![b] = Batch!Error("remote", b)]
           \/ /\ pc[b] = "cell" /\ \A c \in Child(b) : pc[c] = "none"
              /\ pc' = [c \in Nodes |-> IF c = b THEN "waiting" ELSE IF c \in Child(b)
                         THEN "queued" ELSE pc[c]]
              /\ err' = err /\ live' = live /\ due' = due /\ batchClock' = batchClock
<1>1. CASE Batch!Affordable(b)
  BY <1>1 DEF Batch!CellAsks, Child, Nodes
<1>2. CASE ~Batch!Affordable(b)
  <2>1. pc' = [pc EXCEPT ![b] = "cell"] /\ pc[b] = "cell"
            /\ err' = [err EXCEPT ![b] = Batch!Error("remote", b)]
        /\ live' = live /\ due' = due /\ batchClock' = batchClock
    BY <1>2 DEF Batch!CellAsks, Batch!FailsWith, Batch!Goes
  <2>2. pc' = pc
    BY <2>1 DEF BatchTypes
  <2> QED
    BY <2>1, <2>2
<1> QED
  BY <1>1, <1>2

\* No step leaves a running branch without one that waits for it.
LEMMA NestedContinues ==
    ASSUME BatchTypes, Nested, [Batch!Next]_batchVars
    PROVE  Nested'
<1>1. CASE Rests
  BY <1>1 DEF Rests, Nested
<1>2. ASSUME NEW b \in Nodes, OneMoves(b)
      PROVE  Nested'
  BY <1>2, StepMoves, MovesNested DEF OneMoves
<1>3. ASSUME NEW b \in Nodes, Batch!CellAsks(b)
      PROVE  Nested'
  <2>1. CASE pc' = pc /\ live' = live
    BY <2>1 DEF Nested
  <2>2. CASE /\ pc[b] = "cell" /\ \A c \in Child(b) : pc[c] = "none"
             /\ pc' = [c \in Nodes |-> IF c = b THEN "waiting" ELSE IF c \in Child(b)
                        THEN "queued" ELSE pc[c]]
             /\ live' = live
    <3>1. pc'[BatchRoot] \notin Early
      BY <2>2, TreeIs DEF Nested, Early
    <3>2. ASSUME NEW c \in Nodes, c # BatchRoot
          PROVE  /\ pc'[c] = "queued" => pc'[Parent(c)] = "waiting"
                 /\ Runs(pc'[c]) => pc'[Parent(c)] \in {"waiting", "cleanup"}
                 /\ c \in live' => Runs(pc'[c])
                 /\ pc'[Parent(c)] \in Early => pc'[c] = "none"
      <4>1. /\ pc[c] = "queued" => pc[Parent(c)] = "waiting"
            /\ Runs(pc[c]) => pc[Parent(c)] \in {"waiting", "cleanup"}
            /\ c \in live => Runs(pc[c])
            /\ pc[Parent(c)] \in Early => pc[c] = "none"
        BY <3>2 DEF Nested
      <4>2. Parent(c) \in Nodes /\ (c \in Child(b) <=> Parent(c) = b)
        BY <3>2, TreeIs
      <4>3. Parent(c) \in Child(b) => pc[Parent(c)] = "none" /\ pc[c] = "none"
        BY <2>2, <4>1 DEF Early
      <4>4. c = b => Parent(c) \notin Child(b) /\ Parent(c) # b
        BY <2>2, <4>1, <4>3 DEF Runs
      <4> QED
        BY <2>2, <4>1, <4>2, <4>3, <4>4 DEF Runs, Early
    <3> QED
      BY <3>1, <3>2 DEF Nested
  <2> QED
    BY <1>3, <2>1, <2>2, AsksIs
<1>4. ASSUME NEW p \in Nodes, GivenUp(p)
      PROVE  Nested'
  <2>1. /\ pc[p] = "waiting" /\ live' = live
        /\ pc' = [c \in Nodes |-> IF c = p THEN "cleanup"
                                  ELSE IF c \in Child(p) /\ pc[c] = "queued" THEN "cancelled"
                                      ELSE pc[c]]
    BY <1>4 DEF GivenUp, Batch!Cancel, Nodes, Child
  <2>2. pc'[BatchRoot] \notin Early
    BY <2>1, TreeIs DEF Nested, Early
  <2>3. ASSUME NEW c \in Nodes, c # BatchRoot
        PROVE  /\ pc'[c] = "queued" => pc'[Parent(c)] = "waiting"
               /\ Runs(pc'[c]) => pc'[Parent(c)] \in {"waiting", "cleanup"}
               /\ c \in live' => Runs(pc'[c])
               /\ pc'[Parent(c)] \in Early => pc'[c] = "none"
    <3>1. /\ pc[c] = "queued" => pc[Parent(c)] = "waiting"
          /\ Runs(pc[c]) => pc[Parent(c)] \in {"waiting", "cleanup"}
          /\ c \in live => Runs(pc[c])
          /\ pc[Parent(c)] \in Early => pc[c] = "none"
      BY <2>3 DEF Nested
    <3>2. Parent(c) \in Nodes /\ (c \in Child(p) <=> Parent(c) = p)
      BY <2>3, TreeIs
    <3> QED
      BY <2>1, <3>1, <3>2 DEF Runs, Early
  <2> QED
    BY <2>2, <2>3 DEF Nested
<1> QED
  BY <1>1, <1>2, <1>3, <1>4, StepsAre

\* The limits of a batch.
LEMMA BatchNumbers == BatchTimeout \in Nat /\ BatchDeadline \in Nat
BY BranchesAssumption

\* The deadline of a cell is within that of the cell above.
LEMMA DeadlineIs ==
    ASSUME BatchTypes, NEW b \in Nodes, due[Parent(b)] \in Nat
    PROVE  Batch!CellDeadline(b) \in Nat /\ Batch!CellDeadline(b) <= due[Parent(b)]
<1> DEFINE late == batchClock + BatchTimeout
           inner == Batch!Least(BatchDeadline, due[Parent(b)])
<1>1. late \in Nat
  BY BatchNumbers DEF BatchTypes
<1>2. inner \in Nat /\ inner <= due[Parent(b)]
  BY LeastIs, BatchNumbers
<1>3. Batch!CellDeadline(b) = Batch!Least(late, inner)
  BY DEF Batch!CellDeadline, Parent
<1> HIDE DEF late, inner
<1>4. Batch!Least(late, inner) \in Nat /\ Batch!Least(late, inner) <= inner
  BY <1>1, <1>2, LeastIs
<1> DEFINE least == Batch!Least(late, inner)
           top == due[Parent(b)]
<1> HIDE DEF least
<1>5. least \in Nat /\ least <= inner
  BY <1>4 DEF least
<1> HIDE DEF top
<1>6. inner \in Nat /\ inner <= top /\ top \in Nat
  BY <1>2 DEF top
<1>7. least <= top
  BY <1>5, <1>6
<1> QED
  BY <1>3, <1>5, <1>7 DEF least, top

\* A branch that moves keeps the types,
LEMMA OneKeepsTypes ==
    ASSUME BatchTypes, Nested, NEW b \in Nodes, OneMoves(b)
    PROVE  BatchTypes'
<1>1. PICK q : Goes(b, q)
  BY StepMoves DEF OneMoves
<1>2. pc' \in [Nodes -> Spots] /\ live' \subseteq Nodes
  BY <1>1 DEF Goes, BatchTypes
<1>3. batchClock' = batchClock
  BY DEF OneMoves, Batch!Refused, Batch!Opens, Batch!OpenFails, Batch!Calls,
         Batch!CallTooLate, Batch!CallReturns,
         Batch!CallFails, Batch!CellEnds, Batch!CellTimesOut, Batch!BatchReturns, Batch!Cleaned,
             Batch!Leaves
<1>4. due' \in [Nodes -> Nat]
  <2>1. CASE Batch!CallReturns(b)
    <3>1. due' = [due EXCEPT ![b] = Batch!CellDeadline(b)]
      BY <2>1 DEF Batch!CallReturns
    <3>2. b # BatchRoot
      BY <2>1 DEF Batch!CallReturns, Nested, Early
    <3>3. due[Parent(b)] \in Nat
      BY <3>2, TreeIs DEF BatchTypes
    <3>4. Batch!CellDeadline(b) \in Nat
      BY <3>3, DeadlineIs
    <3> QED
      BY <3>1, <3>4 DEF BatchTypes
  <2>2. CASE due' = due
    BY <2>2 DEF BatchTypes
  <2> QED
    BY <2>1, <2>2
       DEF OneMoves, Batch!Refused, Batch!Opens, Batch!OpenFails, Batch!Calls,
           Batch!CallTooLate,
         Batch!CallFails, Batch!CellEnds, Batch!CellTimesOut, Batch!BatchReturns, Batch!Cleaned,
             Batch!Leaves,
         Batch!FailsWith
<1>5. err' = err \/ \E e \in BatchErrors : err' = [err EXCEPT ![b] = e]
          /\ (e.kind = "none" => e = NoFailure)
  <2>1. \A kind \in {"timeout", "base", "remote"} :
           Batch!Error(kind, b) \in BatchErrors /\ Batch!Error(kind, b).kind # "none"
    BY DEF Batch!Error, BatchErrors
  <2>2. CASE Batch!BatchReturns(b)
    <3>1. err' = [err EXCEPT ![b] = Batch!Error("timeout", b)]
              \/ err' = [err EXCEPT ![b] = Batch!Outcome(b)]
      BY <2>2 DEF Batch!BatchReturns, Batch!FailsWith
    <3>2. NoFailure \in BatchErrors
      BY TreeIs DEF NoFailure, BatchErrors
    <3>3. Batch!Outcome(b) \in BatchErrors
              /\ (Batch!Outcome(b).kind = "none" => Batch!Outcome(b) = NoFailure)
      BY <3>2, OutcomeIs, TreeIs DEF BatchTypes
    <3> QED
      BY <2>1, <3>1, <3>3
  <2>3. CASE ~Batch!BatchReturns(b)
    <3>1. err' = err \/ \E kind \in {"timeout", "base",
                                      "remote"} : err' = [err EXCEPT ![b] = Batch!Error(kind, b)]
      BY <2>3
         DEF OneMoves, Batch!Refused, Batch!Opens, Batch!OpenFails, Batch!Calls,
             Batch!CallTooLate,
         Batch!CallReturns, Batch!CallFails, Batch!CellEnds, Batch!CellTimesOut, Batch!Cleaned,
             Batch!Leaves,
         Batch!FailsWith
    <3> QED
      BY <2>1, <3>1
  <2> QED
    BY <2>2, <2>3
<1>6. err' \in [Nodes -> BatchErrors] /\ \A c \in Nodes : err'[c].kind = "none"
          => err'[c] = NoFailure
  BY <1>5 DEF BatchTypes
<1> QED
  BY <1>2, <1>3, <1>4, <1>6 DEF BatchTypes

\* and so does every step.
LEMMA TypesContinue ==
    ASSUME BatchTypes, Nested, [Batch!Next]_batchVars
    PROVE  BatchTypes'
<1>1. CASE Rests
  BY <1>1 DEF Rests, BatchTypes
<1>2. ASSUME NEW b \in Nodes, Batch!CellAsks(b)
      PROVE  BatchTypes'
  <2>1. Batch!Error("remote", b) \in BatchErrors /\ Batch!Error("remote", b).kind # "none"
    BY DEF Batch!Error, BatchErrors
  <2>2. pc' \in [Nodes -> Spots]
    BY <1>2, AsksIs DEF BatchTypes, Spots
  <2>3. err' \in [Nodes -> BatchErrors] /\ \A c \in Nodes : err'[c].kind = "none"
            => err'[c] = NoFailure
    BY <1>2, <2>1, AsksIs DEF BatchTypes
  <2>4. batchClock' = batchClock /\ due' = due /\ live' = live
    BY <1>2, AsksIs
  <2> QED
    BY <2>2, <2>3, <2>4 DEF BatchTypes
<1>3. ASSUME NEW p \in Nodes, GivenUp(p)
      PROVE  BatchTypes'
  <2>1. PICK e \in BatchErrors : e.kind = "base" /\ Batch!Cancel(p, e)
    BY <1>3 DEF GivenUp
  <2>2. pc' \in [Nodes -> Spots]
    BY <2>1 DEF Batch!Cancel, Nodes, Child, BatchTypes, Spots
  <2>3. err' \in [Nodes -> BatchErrors] /\ \A c \in Nodes : err'[c].kind = "none"
            => err'[c] = NoFailure
    BY <2>1 DEF BatchTypes, Batch!Cancel
  <2> QED
    BY <2>1, <2>2, <2>3 DEF Batch!Cancel, BatchTypes
<1> QED
  BY <1>1, <1>2, <1>3, OneKeepsTypes, StepsAre

\* Nothing of a branch that is done changes.
LEMMA DoneStays ==
    ASSUME BatchTypes, Nested, [Batch!Next]_batchVars, NEW d \in Nodes, pc[d] = "done"
    PROVE  pc'[d] = "done" /\ err'[d] = err[d]
<1>1. CASE Rests
  BY <1>1 DEF Rests
<1>2. ASSUME NEW b \in Nodes, OneMoves(b)
      PROVE  pc'[d] = "done" /\ err'[d] = err[d]
  <2>1. PICK q : Goes(b, q)
    BY <1>2, StepMoves DEF OneMoves
  <2>2. b # d
    BY <2>1 DEF Goes
  <2>3. err' = err \/ \E e : err' = [err EXCEPT ![b] = e]
    BY <1>2
       DEF OneMoves, Batch!Refused, Batch!Opens, Batch!OpenFails, Batch!Calls,
           Batch!CallTooLate,
       Batch!CallReturns, Batch!CallFails, Batch!CellEnds, Batch!CellTimesOut,
           Batch!BatchReturns, Batch!Cleaned,
       Batch!Leaves, Batch!FailsWith
  <2> QED
    BY <2>1, <2>2, <2>3 DEF Goes, BatchTypes
<1>3. ASSUME NEW b \in Nodes, Batch!CellAsks(b)
      PROVE  pc'[d] = "done" /\ err'[d] = err[d]
  BY <1>3, AsksIs DEF BatchTypes
<1>4. ASSUME NEW p \in Nodes, GivenUp(p)
      PROVE  pc'[d] = "done" /\ err'[d] = err[d]
  BY <1>4 DEF GivenUp, Batch!Cancel, BatchTypes, Nodes
<1> QED
  BY <1>1, <1>2, <1>3, <1>4, StepsAre

\* A failure is a branch's own, or the first of its children's.
LEMMA FailureIs ==
    ASSUME BatchTypes, Nested, [Batch!Next]_batchVars, NEW p \in Nodes, err'[p].kind = "remote"
    PROVE  \/ err'[p] = err[p]
           \/ err'[p].from = p
           \/ \E c \in Child(p) : /\ err'[p] = err[c] /\ pc[c] = "done"
                                  /\ \A d \in Batch!Earlier(c) : d \in Child(p) /\ pc[d] = "done"
                                         /\ err[d].kind = "none"
<1>1. CASE Rests
  BY <1>1 DEF Rests
<1>2. ASSUME NEW b \in Nodes, OneMoves(b), b # p
      PROVE  err'[p] = err[p]
  <2>1. err' = err \/ \E e : err' = [err EXCEPT ![b] = e]
    BY <1>2
       DEF OneMoves, Batch!Refused, Batch!Opens, Batch!OpenFails, Batch!Calls,
           Batch!CallTooLate,
       Batch!CallReturns, Batch!CallFails, Batch!CellEnds, Batch!CellTimesOut,
           Batch!BatchReturns, Batch!Cleaned,
       Batch!Leaves, Batch!FailsWith
  <2> QED
    BY <1>2, <2>1 DEF BatchTypes
<1>3. CASE OneMoves(p) /\ ~Batch!BatchReturns(p)
  <2>1. err' = err \/ \E kind \in {"timeout", "base",
                                    "remote"} : err' = [err EXCEPT ![p] = Batch!Error(kind, p)]
    BY <1>3
       DEF OneMoves, Batch!Refused, Batch!Opens, Batch!OpenFails, Batch!Calls,
           Batch!CallTooLate,
       Batch!CallReturns, Batch!CallFails, Batch!CellEnds, Batch!CellTimesOut, Batch!Cleaned,
           Batch!Leaves,
       Batch!FailsWith
  <2> QED
    BY <2>1 DEF BatchTypes, Batch!Error
<1>4. CASE Batch!BatchReturns(p)
  <2>1. err' = [err EXCEPT ![p] = Batch!Error("timeout", p)]
            \/ err' = [err EXCEPT ![p] = Batch!Outcome(p)]
    BY <1>4 DEF Batch!BatchReturns, Batch!FailsWith
  <2>2. \A c \in Child(p) : pc[c] = "done"
    BY <1>4 DEF Batch!BatchReturns, Child
  <2>3. CASE err' = [err EXCEPT ![p] = Batch!Error("timeout", p)]
    BY <2>3 DEF BatchTypes, Batch!Error
  <2>4. CASE err'[p] = Batch!Outcome(p)
    <3>1. Batch!Outcome(p) # NoFailure
      BY <2>4 DEF NoFailure
    <3> QED
      BY <2>2, <2>4, <3>1, OutcomeIs
  <2> QED
    BY <2>1, <2>3, <2>4 DEF BatchTypes
<1>5. ASSUME NEW b \in Nodes, Batch!CellAsks(b)
      PROVE  err'[p] = err[p] \/ err'[p].from = p
  BY <1>5, AsksIs DEF BatchTypes, Batch!Error
<1>6. ASSUME NEW b \in Nodes, GivenUp(b)
      PROVE  err'[p] = err[p]
  BY <1>6 DEF GivenUp, Batch!Cancel, BatchTypes
<1> QED
  BY <1>1, <1>2, <1>3, <1>4, <1>5, <1>6, StepsAre

\* A failure that goes up a level was the first at that level too.
LEMMA FirstContinues ==
    ASSUME BatchTypes, Nested, First, [Batch!Next]_batchVars
    PROVE  First'
<1>1. SUFFICES ASSUME NEW p \in Nodes, err'[p].kind = "remote",
                      NEW a \in {err'[p].from} \cup Higher(err'[p].from),
                          a \notin {p} \cup Higher(p),
                      NEW d \in Batch!Earlier(a)
               PROVE  d \in Nodes /\ pc'[d] = "done" /\ err'[d] = NoFailure
  BY DEF First
<1>2. d \in Nodes /\ pc[d] = "done" /\ err[d] = NoFailure
  <2>1. CASE err'[p] = err[p]
    BY <1>1, <2>1 DEF First
  <2>2. CASE err'[p].from = p
    BY <1>1, <2>2
  <2>3. CASE \E c \in Child(p) : /\ err'[p] = err[c] /\ pc[c] = "done"
                                 /\ \A e \in Batch!Earlier(c) : e \in Child(p) /\ pc[e] = "done"
                                        /\ err[e].kind = "none"
    <3>1. PICK c \in Child(p) : /\ err'[p] = err[c] /\ pc[c] = "done"
                                /\ \A e \in Batch!Earlier(c) : e \in Child(p) /\ pc[e] = "done"
                                       /\ err[e].kind = "none"
      BY <2>3
    <3>2. c \in Nodes /\ Higher(c) = {p} \cup Higher(p)
      BY TreeIs, AncestorsAre
    <3>3. CASE a = c
      BY <1>1, <3>1, <3>3, TreeIs DEF BatchTypes
    <3>4. CASE a # c
      BY <1>1, <3>1, <3>2, <3>4 DEF First
    <3> QED
      BY <3>3, <3>4
  <2> QED
    BY <1>1, <2>1, <2>2, <2>3, FailureIs
<1> QED
  BY <1>2, DoneStays

\* A deadline is set by the answer that a cell comes in, and no step goes back
\* to before that.
LEMMA DueMoves ==
    ASSUME BatchTypes, Nested, [Batch!Next]_batchVars
    PROVE  /\ \A c \in Nodes : pc'[c] \in Early => pc[c] \in Early
           /\ \/ due' = due
              \/ \E b \in Nodes : /\ Batch!CallReturns(b) /\ b # BatchRoot /\ pc[b] = "calling"
                     /\ pc'[b] = "cell"
                                  /\ due' = [due EXCEPT ![b] = Batch!CellDeadline(b)]
<1>1. CASE Rests
  BY <1>1 DEF Rests
<1>2. ASSUME NEW b \in Nodes, OneMoves(b)
      PROVE  /\ \A c \in Nodes : pc'[c] \in Early => pc[c] \in Early
             /\ \/ due' = due
                \/ /\ Batch!CallReturns(b) /\ b # BatchRoot /\ pc[b] = "calling" /\ pc'[b] = "cell"
                   /\ due' = [due EXCEPT ![b] = Batch!CellDeadline(b)]
  <2>1. PICK q : Goes(b, q)
    BY <1>2, StepMoves DEF OneMoves
  <2>2. \A c \in Nodes : pc'[c] \in Early => pc[c] \in Early
    BY <2>1 DEF Goes, BatchTypes
  <2>3. Batch!CallReturns(b) => /\ b # BatchRoot /\ pc[b] = "calling" /\ pc'[b] = "cell"
                                /\ due' = [due EXCEPT ![b] = Batch!CellDeadline(b)]
    BY DEF Batch!CallReturns, Batch!Goes, BatchTypes, Nested, Early
  <2>4. ~Batch!CallReturns(b) => due' = due
    BY <1>2
       DEF OneMoves, Batch!Refused, Batch!Opens, Batch!OpenFails, Batch!Calls,
           Batch!CallTooLate,
       Batch!CallFails, Batch!CellEnds, Batch!CellTimesOut, Batch!BatchReturns, Batch!Cleaned,
           Batch!Leaves,
       Batch!FailsWith
  <2> QED
    BY <2>2, <2>3, <2>4
<1>3. ASSUME NEW b \in Nodes, Batch!CellAsks(b)
      PROVE  due' = due /\ \A c \in Nodes : pc'[c] \in Early => pc[c] \in Early
  BY <1>3, AsksIs DEF Early
<1>4. ASSUME NEW p \in Nodes, GivenUp(p)
      PROVE  due' = due /\ \A c \in Nodes : pc'[c] \in Early => pc[c] \in Early
  BY <1>4 DEF GivenUp, Batch!Cancel, Early, Nodes
<1> QED
  BY <1>1, <1>2, <1>3, <1>4, StepsAre

\* A new deadline is within that of the cell above, and has none below it yet.
LEMMA DuesContinue ==
    ASSUME BatchTypes, Nested, Dues, [Batch!Next]_batchVars
    PROVE  Dues'
<1>1. \A c \in Nodes : pc'[c] \in Early => pc[c] \in Early
  BY DueMoves
<1>2. CASE due' = due
  BY <1>1, <1>2 DEF Dues
<1>3. ASSUME NEW b \in Nodes, b # BatchRoot, pc[b] = "calling", pc'[b] = "cell",
             due' = [due EXCEPT ![b] = Batch!CellDeadline(b)]
      PROVE  Dues'
  <2>1. Parent(b) \in Nodes /\ due[Parent(b)] \in Nat
    BY <1>3, TreeIs DEF BatchTypes
  <2>2. Batch!CellDeadline(b) \in Nat /\ Batch!CellDeadline(b) <= due[Parent(b)]
    BY <2>1, DeadlineIs
  <2>3. ASSUME NEW c \in Nodes
        PROVE  /\ pc'[c] \in Early => due'[c] = 0
               /\ c # BatchRoot => due'[c] <= due'[Parent(c)]
    <3>1. /\ pc[c] \in Early => due[c] = 0
          /\ c # BatchRoot => due[c] <= due[Parent(c)]
      BY DEF Dues
    <3>2. pc'[c] \in Early => due'[c] = 0
      BY <1>1, <1>3, <3>1 DEF Early, BatchTypes
    <3>3. c # BatchRoot => Parent(c) \in Nodes
      BY TreeIs
    <3>4. CASE c = b
      <4>1. Parent(b) # b
        <5>1. PICK depth : Depths(depth)
          BY DepthIs
        <5> QED
          BY <1>3, <2>1, <5>1 DEF Depths
      <4> QED
        BY <1>3, <2>1, <2>2, <3>2, <3>4, <4>1 DEF BatchTypes
    <3>5. CASE c # b /\ c # BatchRoot /\ Parent(c) = b
      <4>1. pc[c] = "none"
        BY <1>3, <3>5 DEF Nested, Early
      <4>2. due'[c] = 0
        BY <1>3, <3>1, <3>5, <4>1 DEF Early, BatchTypes
      <4> QED
        BY <1>3, <2>2, <3>2, <3>5, <4>2 DEF BatchTypes
    <3>6. CASE c # b /\ (c = BatchRoot \/ Parent(c) # b)
      BY <1>3, <3>1, <3>2, <3>3, <3>6 DEF BatchTypes
    <3> QED
      BY <3>4, <3>5, <3>6
  <2> QED
    BY <2>3 DEF Dues
<1> QED
  BY <1>2, <1>3, DueMoves

\* The root is alone at first.
LEMMA BatchBegins == Batch!Init => BatchTypes /\ Nested /\ Dues /\ First
<1> SUFFICES ASSUME Batch!Init PROVE BatchTypes /\ Nested /\ Dues /\ First
  OBVIOUS
<1>1. /\ batchClock = 0 /\ pc = [b \in Nodes |-> IF b = BatchRoot THEN "cell" ELSE "none"]
      /\ err = [b \in Nodes |-> NoFailure]
      /\ due = [b \in Nodes |-> IF b = BatchRoot THEN Batch!Least(BatchTimeout, BatchDeadline)
                 ELSE 0]
      /\ live = {BatchRoot}
  BY DEF Batch!Init, Nodes, Batch!NoError, NoFailure
<1>2. Batch!Least(BatchTimeout, BatchDeadline) \in Nat
  BY LeastIs, BatchNumbers
<1>3. BatchTypes
  <2>1. NoFailure \in BatchErrors
    BY TreeIs DEF NoFailure, BatchErrors
  <2> QED
    BY <1>1, <1>2, <2>1, TreeIs DEF BatchTypes, Spots
<1>4. Nested
  BY <1>1, TreeIs DEF Nested, Early, Runs
<1>5. Dues
  <2> DEFINE first == Batch!Least(BatchTimeout, BatchDeadline)
  <2>1. first \in Nat
    BY <1>2
  <2> HIDE DEF first
  <2>2. due = [b \in Nodes |-> IF b = BatchRoot THEN first ELSE 0]
    BY <1>1 DEF first
  <2> QED
    BY <1>1, <2>1, <2>2, TreeIs DEF Dues, Early
<1>6. First
  BY <1>1 DEF First, NoFailure
<1> QED
  BY <1>3, <1>4, <1>5, <1>6

\* The inductive invariant of a batch.
BatchInv == BatchTypes /\ Nested /\ Dues /\ First

\* A step of one scenario is one of its component, or none.
LEMMA OthersRest ==
    ASSUME [ScenarioNext]_restVars
    PROVE  [Failure!Next]_failureVars /\ [Batch!Next]_batchVars
BY DEF ScenarioNext, restVars, ConversationStep, BatchStep, FailureStep, BatchOver,
       FailureOver

\* engine.py:717-875.  Whatever fails in a batch and whoever is interrupted, running
\* branches are inside those that wait for them, deadlines inside those above, and a
\* failure from below is the first of every batch it came through.
THEOREM BatchInvariant == ScenarioSpec => []BatchInv
<1>1. ScenarioInit => BatchInv
  BY BatchBegins DEF ScenarioInit, BatchInv
<1>2. BatchInv /\ [ScenarioNext]_restVars => BatchInv'
  BY OthersRest, TypesContinue, NestedContinues, DuesContinue, FirstContinues DEF BatchInv
<1> QED
  BY <1>1, <1>2, PTL DEF ScenarioSpec

\* What the invariant says of running branches is Structured,
LEMMA StructuredHolds == BatchTypes /\ Nested => Structured
<1> SUFFICES ASSUME BatchTypes, Nested, NEW b \in Nodes, b # BatchRoot
             PROVE  /\ Runs(pc[b]) => pc[Parent(b)] \in {"waiting", "cleanup"}
                    /\ pc[Parent(b)] \in {"done", "cancelled"} => b \notin live
  BY DEF Structured, Batch!Structured, Nodes, Parent, Batch!Active, Batch!Settled, Runs
<1> QED
  BY DEF Nested, Runs

\* and of failures FirstFailureAtEveryLevel.
LEMMA FirstHolds == First => FirstFailureAtEveryLevel
BY DEF First, FirstFailureAtEveryLevel, Batch!FirstFailureAtEveryLevel, Nodes, Higher,
       Batch!NoError, NoFailure

\* engine.py:717-875.  For any tree of branches, number of workers and limits: a branch
\* runs only while the one that asked for it waits, none leaves an interpreter behind, and
\* a batch fails with its first failing request, at each level down to where it arose.
THEOREM BatchAlwaysSound == ScenarioSpec => []BatchSound
<1>1. BatchInv => BatchSound
  BY StructuredHolds, FirstHolds DEF BatchInv, BatchSound
<1> QED
  BY <1>1, BatchInvariant, PTL

\* The deadline of a cell is within that of every cell above it.
LEMMA DuesAbove ==
    ASSUME BatchTypes, Dues
    PROVE  \A b \in Nodes : \A a \in Higher(b) : a \in Nodes /\ due[b] <= due[a]
<1> DEFINE S == {b \in Nodes : \A a \in Higher(b) : a \in Nodes /\ due[b] <= due[a]}
<1>1. BatchRoot \in S
  BY TreeIs, AncestorsAre
<1>2. ASSUME NEW b \in Nodes, b # BatchRoot, Parent(b) \in S
      PROVE  b \in S
  <2>1. Parent(b) \in Nodes /\ due[b] <= due[Parent(b)] /\ due[b] \in Nat /\ due[Parent(b)] \in Nat
    BY <1>2, TreeIs DEF Dues, BatchTypes
  <2>2. ASSUME NEW a \in Higher(Parent(b))
        PROVE  a \in Nodes /\ due[b] <= due[a]
    <3>1. a \in Nodes /\ due[Parent(b)] <= due[a]
      BY <1>2
    <3>2. due[a] \in Nat
      BY <3>1 DEF BatchTypes
    <3> QED
      BY <2>1, <3>1, <3>2
  <2>3. \A a \in Higher(b) : a = Parent(b) \/ a \in Higher(Parent(b))
    BY <1>2, AncestorsAre
  <2> QED
    BY <2>1, <2>2, <2>3
<1> HIDE DEF S
<1>3. S \in SUBSET Nodes
  BY DEF S
<1>4. S = Nodes
  BY <1>1, <1>2, <1>3, DownTheTree
<1> QED
  BY <1>4 DEF S

\* A call starts before the deadline of the cell that asked for its branch.
LEMMA CallsInTime ==
    ASSUME BatchInv, [Batch!Next]_batchVars, NEW b \in Nodes, pc[b] # "calling", pc'[b] = "calling"
    PROVE  b # BatchRoot /\ batchClock < due[Parent(b)]
<1>0. BatchTypes /\ Nested
  BY DEF BatchInv
<1>1. ~Rests
  BY DEF Rests
<1>2. ASSUME NEW c \in Nodes, OneMoves(c)
      PROVE  c = b /\ Batch!Calls(b)
  <2>1. PICK q : Goes(c, q)
    BY <1>0, <1>2, StepMoves DEF OneMoves
  <2>2. c = b
    BY <1>0, <2>1 DEF Goes, BatchTypes
  <2>3. \/ pc'[c] = "calling" /\ Batch!Calls(c)
        \/ \E spot \in {"done", "asking", "closing", "cell"} : pc' = [pc EXCEPT ![c] = spot]
    BY <1>2, <2>2
       DEF OneMoves, Batch!Refused, Batch!Opens, Batch!OpenFails, Batch!Calls,
           Batch!CallTooLate,
       Batch!CallReturns, Batch!CallFails, Batch!CellEnds, Batch!CellTimesOut,
           Batch!BatchReturns, Batch!Cleaned,
       Batch!Leaves, Batch!FailsWith, Batch!Goes
  <2> QED
    BY <1>0, <2>2, <2>3 DEF BatchTypes
<1>3. \A c \in Nodes : ~Batch!CellAsks(c)
  BY <1>0, AsksIs
<1>4. \A p \in Nodes : ~GivenUp(p)
  BY <1>0 DEF GivenUp, Batch!Cancel, Nodes
<1>5. Batch!Calls(b)
  BY <1>0, <1>1, <1>2, <1>3, <1>4, StepsAre
<1>6. b # BatchRoot
  BY <1>0, <1>5 DEF Batch!Calls, Nested, Early
<1>7. ~(batchClock >= Batch!Least(BatchDeadline, due[Parent(b)]))
  BY <1>5 DEF Batch!Calls, Batch!Over, Parent
<1>8. due[Parent(b)] \in Nat /\ batchClock \in Nat
  BY <1>0, <1>6, TreeIs DEF BatchTypes
<1> DEFINE top == due[Parent(b)]
           least == Batch!Least(BatchDeadline, top)
<1>9. least \in Nat /\ least <= top
  BY <1>8, LeastIs, BatchNumbers
<1> HIDE DEF least, top
<1>10. top \in Nat /\ batchClock \in Nat /\ ~(batchClock >= least)
  BY <1>7, <1>8 DEF least, top
<1>11. batchClock < top
  BY <1>9, <1>10
<1> QED
  BY <1>6, <1>11 DEF top

\* engine.py:755-805, 926-943.  No branch starts a model call when the
\* cell of any branch above it, however far up, is over.
THEOREM NoCallIsLate == ScenarioSpec => NoLateCall
<1> DEFINE Step == \A b \in Nodes : pc[b] # "calling" /\ pc'[b] = "calling"
    => \A a \in Higher(b) : batchClock < due[a]
<1>1. BatchInv /\ [ScenarioNext]_restVars => [Step]_batchVars
  <2> SUFFICES ASSUME BatchInv, [ScenarioNext]_restVars, NEW b \in Nodes, pc[b] # "calling",
      pc'[b] = "calling",
                      NEW a \in Higher(b)
               PROVE  batchClock < due[a]
    OBVIOUS
  <2>1. b # BatchRoot /\ batchClock < due[Parent(b)]
    BY OthersRest, CallsInTime
  <2>2. Parent(b) \in Nodes /\ (a = Parent(b) \/ a \in Higher(Parent(b)))
    BY <2>1, TreeIs, AncestorsAre
  <2>3. a \in Nodes /\ due[Parent(b)] <= due[a]
    BY <2>2, DuesAbove DEF BatchInv, BatchTypes
  <2>4. batchClock \in Nat /\ due[a] \in Nat /\ due[Parent(b)] \in Nat
    BY <2>2, <2>3 DEF BatchInv, BatchTypes
  <2> QED
    BY <2>1, <2>3, <2>4
<1>2. ScenarioSpec => [][Step]_batchVars
  BY <1>1, BatchInvariant, PTL DEF ScenarioSpec
<1> QED
  BY <1>2 DEF NoLateCall, Batch!NoLateCall, Batch!vars, batchVars, Nodes, Higher

(***************************************************************************)
(* One failure on its way up.                                              *)
(***************************************************************************)
\* What is known of everything that can fail.
Strict(o) == o.record.strict
OriginIs(o) ==
    /\ o.class \in {"rlm", "exception", "timeout", "interrupt"}
    /\ o.place \in {"call", "branch", "handler"}
    /\ o.class = "interrupt" => o.place = "call"
    /\ Strict(o)
    /\ o.record.type = "InvalidRequestError" => o.name = "malformed request"

\* A record of an error of that type, strict JSON.
RecordIs(r, type) == r.type = type /\ r.strict

\* What the helpers that make a record return.
LEMMA RecordsAre ==
    /\ \A type, code, status, d : RecordIs(ErrorRecord(type, code, status, d), type)
    /\ \A type : RecordIs(InternalError(type), type)
    /\ \A status : RecordIs(ProviderError(status), "UpstreamError")
<1>1. ASSUME NEW type, NEW code, NEW status, NEW b, NEW d
      PROVE  RecordIs([type |-> type, code |-> code, status |-> status, body |-> b,
                        details |-> d, strict |-> TRUE], type)
  BY DEF RecordIs
<1> QED
  BY <1>1 DEF ErrorRecord, InternalError, ProviderError

\* All that can fail has a strict record and starts at a place of its own.
LEMMA OriginsAre == \A o \in FailureOrigins : OriginIs(o)
<1>1. ASSUME NEW name, NEW class \in {"rlm", "exception", "interrupt"}, NEW record, NEW type,
             RecordIs(record, type), type # "InvalidRequestError",
                 NEW o \in InCall(name, class, record)
      PROVE  OriginIs(o)
  <2>1. o.record = record /\ o.class = class /\ o.place = "call"
    BY DEF InCall
  <2>2. Strict(o)
    BY Zenon, <1>1, <2>1 DEF Strict, RecordIs
  <2> QED
    BY <1>1, <2>1, <2>2 DEF OriginIs, RecordIs
<1>2. ASSUME NEW name, NEW class \in {"rlm", "exception", "timeout"}, NEW record, NEW type,
             RecordIs(record, type), type = "InvalidRequestError" => name = "malformed request",
             NEW where \in {"branch", "handler"}
      PROVE  OriginIs(Before(name, class, record, where))
  <2> DEFINE o == Before(name, class, record, where)
  <2>1. o.record = record /\ o.class = class /\ o.place = where /\ o.name = name
    BY DEF Before
  <2> HIDE DEF o
  <2>2. Strict(o)
    BY Zenon, <1>2, <2>1 DEF Strict, RecordIs
  <2> QED
    BY <1>2, <2>1, <2>2 DEF OriginIs, RecordIs, o
<1> DEFINE r1 == ProviderError(400)
           r2 == ProviderError(503)
           r3 == ErrorRecord("BackendProtocolError", "backend_protocol_error", 502, "none")
           r4 == ErrorRecord("BackendResponseError", "backend_response_error", 502, "response")
           r5 == ErrorRecord("ExecutionTimeoutError", "execution_timeout", 500, "none")
           r6 == InternalError("KeyError")
           r7 == InternalError("KeyboardInterrupt")
           r8 == ErrorRecord("LimitExceededError", "max_model_calls_exceeded", 500, "none")
           r9 == ErrorRecord("LimitExceededError", "max_turns_exceeded", 500, "none")
           r10 == ErrorRecord("RecoveryAbortedError", "recovery_aborted", 500, "fault")
           r11 == ErrorRecord("InvalidRequestError", "invalid_request", 400, "none")
<1>3. /\ RecordIs(r1, "UpstreamError") /\ RecordIs(r2, "UpstreamError")
             /\ RecordIs(r3, "BackendProtocolError")
      /\ RecordIs(r4, "BackendResponseError") /\ RecordIs(r5, "ExecutionTimeoutError")
      /\ RecordIs(r6, "KeyError") /\ RecordIs(r7, "KeyboardInterrupt")
      /\ RecordIs(r8, "LimitExceededError") /\ RecordIs(r9, "LimitExceededError")
      /\ RecordIs(r10, "RecoveryAbortedError") /\ RecordIs(r11, "InvalidRequestError")
  BY RecordsAre
<1> DEFINE calls == {InCall("provider", "rlm", r1), InCall("provider", "rlm", r2),
                     InCall("protocol", "rlm", r3), InCall("response", "rlm", r4),
                         InCall("late", "rlm", r5),
                     InCall("backend", "exception", r6), InCall("interrupt", "interrupt", r7)}
           others == {Before("limit", "rlm", r8, "handler"), Before("limit", "rlm", r9, "branch"),
                      Before("timeout", "timeout", r5, "handler"),
                          Before("abort", "rlm", r10, "branch"),
                      Before("malformed request", "rlm", r11, "handler")}
<1>4. FailureOrigins = (UNION calls) \cup others
  BY DEF FailureOrigins
<1> HIDE DEF r1, r2, r3, r4, r5, r6, r7, r8, r9, r10, r11
<1>5. ASSUME NEW S \in calls, NEW o \in S
      PROVE  OriginIs(o)
  BY <1>1, <1>3, <1>5
<1>6. /\ OriginIs(Before("limit", "rlm", r8, "handler"))
             /\ OriginIs(Before("limit", "rlm", r9, "branch"))
      /\ OriginIs(Before("timeout", "timeout", r5, "handler"))
             /\ OriginIs(Before("abort", "rlm", r10, "branch"))
      /\ OriginIs(Before("malformed request", "rlm", r11, "handler"))
  BY <1>2, <1>3
<1>7. ASSUME NEW o \in others
      PROVE  OriginIs(o)
  BY <1>6
<1> HIDE DEF calls, others
<1>8. \A o \in FailureOrigins : o \in others \/ \E S \in calls : o \in S
  <2>1. ASSUME NEW o \in FailureOrigins
        PROVE  o \in others \/ o \in UNION calls
    BY SMT, <1>4
  <2>2. ASSUME NEW o \in UNION calls
        PROVE  \E S \in calls : o \in S
    BY Zenon
  <2> QED
    BY Zenon, <2>1, <2>2
<1> QED
  BY Zenon, <1>5, <1>7, <1>8

\* The failure goes by its own record, and by the event that caused it, on either
\* side of a worker.
Flies == flying = [class |-> flying.class, record |-> origin.record,
                   parent |-> IF request = "failed" /\ flying.class # "interrupt"
                       THEN Failure!Cause ELSE "no event"]

\* The inductive invariant of a failure.
FailInv ==
    /\ OriginIs(origin)
    /\ place \in {"call", "branch", "handler", "worker", "result", "recovered", "run", "server",
                   "end"}
    /\ request \in {"open", "failed", "none"} /\ (request = "open" <=> place = "call")
    /\ flying.class \in {"rlm", "exception", "timeout", "interrupt"}
    /\ flying.class = "interrupt" <=> origin.class = "interrupt"
    /\ Flies
    /\ request = "failed" => flying.class \in {"rlm", "interrupt"}
    /\ place \in {"worker", "result", "recovered"} =>
          /\ origin.class # "interrupt"
          /\ frame = [type |-> frame.type, record |-> origin.record,
                      parent |-> IF request = "failed" THEN Failure!Cause ELSE "no event"]
    /\ place = "recovered" => origin.name = "malformed request"
    /\ failed # Failure!None /\ origin.class # "interrupt" =>
          failed.parent = IF request = "failed" THEN Failure!Cause ELSE Failure!RunStarted
    /\ failed # Failure!None => place \in {"server", "end"}

\* It holds of every failure where it arises,
LEMMA FailBegins == Failure!Init => FailInv
<1> SUFFICES ASSUME Failure!Init PROVE FailInv
  OBVIOUS
<1>1. /\ origin \in FailureOrigins /\ place = origin.place
      /\ flying = [class |-> origin.class, record |-> origin.record, parent |-> "no event"]
      /\ request = (IF origin.place = "call" THEN "open" ELSE "none") /\ failed = Failure!None
  BY DEF Failure!Init
<1>2. OriginIs(origin)
  BY <1>1, OriginsAre
<1> QED
  BY <1>1, <1>2 DEF FailInv, Flies, OriginIs

\* and at each place it comes by.
LEMMA FailContinues == FailInv /\ [Failure!Next]_failureVars => FailInv'
<1> SUFFICES ASSUME FailInv, [Failure!Next]_failureVars PROVE FailInv'
  OBVIOUS
<1>0. /\ Failure!Cause # "no event" /\ flying.record = origin.record /\ origin.record.strict
      /\ flying.parent = IF request = "failed" /\ flying.class # "interrupt" THEN Failure!Cause
             ELSE "no event"
  <2>1. Failure!Cause # "no event"
    BY DEF Failure!Cause
  <2>2. PICK c, p : /\ flying = [class |-> c, record |-> origin.record, parent |-> p]
                    /\ p = IF request = "failed" /\ flying.class # "interrupt" THEN Failure!Cause
                           ELSE "no event"
    BY DEF FailInv, Flies
  <2>3. origin.record.strict
    BY Zenon DEF FailInv, OriginIs, Strict
  <2> QED
    BY <2>1, <2>2, <2>3
<1>1. CASE UNCHANGED failureVars
  BY <1>1 DEF failureVars, FailInv, Flies
<1>2. CASE Failure!CallFails
  <2>1. /\ place = "call" /\ place' \in {"branch", "handler"} /\ request' = "failed"
        /\ flying' = IF flying.class = "interrupt" THEN flying
               ELSE Failure!Remote(origin.record, Failure!Cause)
        /\ UNCHANGED <<origin, level, frame, failed, answer>>
    BY <1>0, <1>2 DEF Failure!CallFails, Failure!Record
  <2> QED
    BY <2>1 DEF FailInv, Flies, Failure!Remote
<1>3. CASE Failure!BranchEnds
  BY <1>3 DEF Failure!BranchEnds, FailInv, Flies
<1>4. CASE Failure!HandlerLeaves
  BY <1>0, <1>4 DEF Failure!HandlerLeaves, Failure!Record, FailInv, Flies
<1>5. CASE Failure!HandlerSends
  <2>1. /\ place = "handler" /\ place' = "worker" /\ flying.class \in {"rlm", "exception"}
        /\ frame' = [type |-> "error", record |-> origin.record,
                     parent |-> IF flying.class = "rlm" THEN flying.parent ELSE "no event"]
        /\ UNCHANGED <<origin, level, flying, request, failed, answer>>
    BY <1>0, <1>5 DEF Failure!HandlerSends, Failure!Record
  <2>2. frame'.parent = IF request = "failed" THEN Failure!Cause ELSE "no event"
    BY <1>0, <2>1 DEF FailInv, Flies
  <2> QED
    BY <2>1, <2>2 DEF FailInv, Flies
<1>6. CASE Failure!WorkerRaises
  <2>1. /\ place = "worker" /\ place' = (IF Failure!Recoverable(frame.record) THEN "recovered"
                                          ELSE "result")
        /\ UNCHANGED <<origin, level, flying, request, failed, answer>>
    BY <1>6 DEF Failure!WorkerRaises
  <2>2. PICK t : frame' = [frame EXCEPT !.type = t]
    BY <1>6 DEF Failure!WorkerRaises
  <2>3. PICK u, p : frame = [type |-> u, record |-> origin.record, parent |-> p]
                    /\ p = IF request = "failed" THEN Failure!Cause ELSE "no event"
    BY <2>1 DEF FailInv
  <2>4. frame' = [type |-> t, record |-> origin.record, parent |-> p]
    BY <2>2, <2>3
  <2>5. place' = "recovered" => origin.name = "malformed request"
    BY <2>1, <2>3 DEF Failure!Recoverable, FailInv, OriginIs
  <2> QED
    BY <2>1, <2>3, <2>4, <2>5 DEF FailInv, Flies
<1>7. CASE Failure!HostFailure
  <2>1. /\ place = "result" /\ place' = "branch"
               /\ flying' = Failure!Remote(frame.record, frame.parent)
        /\ UNCHANGED <<origin, level, request, failed, answer>>
    BY <1>7 DEF Failure!HostFailure
  <2>2. PICK u, p : frame = [type |-> u, record |-> origin.record, parent |-> p]
                    /\ p = IF request = "failed" THEN Failure!Cause ELSE "no event"
    BY <2>1 DEF FailInv
  <2>3. flying' = [class |-> "rlm", record |-> origin.record, parent |-> p]
    BY <2>1, <2>2 DEF Failure!Remote
  <2>4. flying'.class = "rlm" /\ origin.class # "interrupt"
    <3>1. origin.class # "interrupt"
      BY <2>1 DEF FailInv
    <3>2. flying'.class = "rlm"
      BY <2>3
    <3> QED
      BY <3>1, <3>2
  <2>5. Failure!Cause' = Failure!Cause
    BY <2>1 DEF Failure!Cause
  <2>6. Flies'
    BY <2>1, <2>2, <2>3, <2>4, <2>5 DEF Flies
  <2> QED
    BY <2>1, <2>4, <2>6 DEF FailInv
<1>8. CASE Failure!RunFails
  <2>1. /\ place = "run" /\ place' = "server"
        /\ failed'.parent = IF flying.class = "rlm" /\ flying.parent # "no event"
               THEN flying.parent ELSE Failure!RunStarted
        /\ UNCHANGED <<origin, level, flying, frame, request, answer>>
    BY <1>8 DEF Failure!RunFails
  <2>2. origin.class # "interrupt" => failed'.parent = IF request = "failed" THEN Failure!Cause
            ELSE Failure!RunStarted
    BY <1>0, <2>1 DEF FailInv, Flies
  <2> QED
    BY <2>1, <2>2 DEF FailInv, Flies, Failure!None
<1>9. CASE Failure!Answer
  BY <1>9 DEF Failure!Answer, FailInv, Flies
<1> QED
  BY <1>1, <1>2, <1>3, <1>4, <1>5, <1>6, <1>7, <1>8, <1>9 DEF Failure!Next, failureVars

\* errors.py:129-195, engine.py:187-195, 822-839, executor.py:513-535.  Whatever fails,
\* at whatever depth, run.failed names the model call that failed as its parent, or the
\* start of the run if none did; only a malformed request is left to the cell to recover
\* from.
THEOREM FailureAlwaysRouted == ScenarioSpec => []FailureRouted
<1>1. ScenarioInit => FailInv
  BY FailBegins DEF ScenarioInit
<1>2. FailInv /\ [ScenarioNext]_restVars => FailInv'
  BY OthersRest, FailContinues
<1>3. FailInv => FailureRouted
  BY DEF FailInv, FailureRouted, ParentIsCause, OnlyOwnMistakesRecover,
         Failure!ParentIsCause,
         Failure!OnlyOwnMistakesRecover
<1> QED
  BY <1>1, <1>2, <1>3, PTL DEF ScenarioSpec

=============================================================================
