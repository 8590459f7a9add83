-------------------------- MODULE HttpBridgeProofs --------------------------
(***************************************************************************)
(* Proofs about the HTTP surfaces: HttpBridge for any number of            *)
(* interrupts, ResponseStack for any servers, turns and outputs, Shutdown  *)
(* for any owners, backends, labels and requests.                          *)
(*                                                                         *)
(* The caller leaves with the right answer because it knows of every       *)
(* interrupt that did not escape, and because nothing but an interrupt can *)
(* have cancelled the request; it leaves no helper behind because only a   *)
(* helper that is dead lets it go.  A stack of servers hands up nothing    *)
(* but what the provider answered, because each level holds the answer of  *)
(* the one below while it looks at it.  An owner closes everything once,   *)
(* because the loop of close is entered once and sees both roles.          *)
(***************************************************************************)
EXTENDS MCHttpBridge, Sequences, SequenceTheorems, TLAPS

-----------------------------------------------------------------------------
(* HttpBridge: the caller and its helper thread                            *)

\* Before the helper is started nothing has happened; afterwards it exists.
Fresh ==
    /\ pc = "start" => helper = "unborn" /\ interrupts = 0 /\ ~cancelRequested
    /\ pc \notin {"start", "ended"} => helper # "unborn"

\* The one way out that needs no helper is a thread that could not be started.
Joined == pc = "ended" /\ ~escaped => helper \in {"unborn", "dead"}

\* Every interrupt that did not escape is remembered.
Remembered ==
    /\ ~escaped => (interruption <=> interrupts > 0)
    /\ pc \in {"cancel", "schedule"} => interruption

\* Only an interrupt asks for a cancellation, and only that ends the task with one.
Caused ==
    /\ cancelRequested => interruption
    /\ helper = "binding" => cancelRequested
    /\ cancels > 0 => interruption
    /\ outcome = "cancelled" => interruption

\* An answer is an interrupt or what the task ended with.
Answered == pc = "ended" /\ ~escaped =>
    /\ interrupts > 0 <=> answer = "interrupt"
    /\ answer # "cancelled"

\* A cancellation is scheduled at most once for each interrupt: by the handler,
\* or by bind for those that came before the task.
Handling == IF pc \in {"cancel", "schedule"} THEN 1 ELSE 0
Unbound == IF helper = "binding" \/ (helper = "begun" /\ cancelRequested) THEN 1 ELSE 0
OncePerInterrupt == cancels + Handling + Unbound <= interrupts

BridgeInv ==
    /\ TypeOK
    /\ Fresh
    /\ Joined
    /\ Remembered
    /\ Caused
    /\ Answered
    /\ OncePerInterrupt

-----------------------------------------------------------------------------
\* Before the helper is started nothing has happened.
LEMMA InitEstablishes == Init => BridgeInv
<1> SUFFICES ASSUME Init PROVE BridgeInv
    OBVIOUS
<1>1. TypeOK
    <2>1. {interruption, escaped, discarded, cancelRequested} \subseteq BOOLEAN
        BY Zenon DEF Init
    <2>2. interrupts \in 0..MaxInterrupts /\ cancels \in 0..MaxInterrupts
        BY MaxInterruptsAssumption DEF Init
    <2> QED  BY <2>1, <2>2 DEF Init, TypeOK, Outcomes
<1>2. Fresh /\ Joined /\ Remembered /\ Caused /\ Answered
    BY DEF Init, Fresh, Joined, Remembered, Caused, Answered
<1>3. OncePerInterrupt
    BY DEF Init, OncePerInterrupt, Handling, Unbound
<1> QED  BY <1>1, <1>2, <1>3 DEF BridgeInv

\* The caller's own steps, up to the one in which it leaves.
LEMMA CallerPreserves == BridgeInv /\ CallerStep => BridgeInv'
<1> SUFFICES ASSUME BridgeInv, CallerStep PROVE BridgeInv'
    OBVIOUS
<1> USE MaxInterruptsAssumption
    DEF BridgeInv, TypeOK, Fresh, Joined, Remembered, Caused, Answered,
        OncePerInterrupt, Handling, Unbound, Outcomes, Goto, End, handoffVars, helperVars
<1>1. CASE Start
    BY <1>1 DEF Start
<1>2. CASE StartFails
    BY <1>2 DEF StartFails
<1>3. CASE Started
    BY <1>3 DEF Started
<1>4. CASE Check
    BY <1>4 DEF Check, Completed
<1>5. CASE Join
    BY <1>5 DEF Join
<1>6. CASE Reap
    BY <1>6 DEF Reap, AnswerTo
<1>7. CASE RequestCancel
    BY <1>7 DEF RequestCancel, Bound
<1>8. CASE ScheduleCancel
    BY <1>8 DEF ScheduleCancel, LoopClosed
<1> QED  BY <1>1, <1>2, <1>3, <1>4, <1>5, <1>6, <1>7, <1>8 DEF CallerStep

\* An interrupt is remembered by the two loops and escapes everywhere else.
LEMMA InterruptPreserves == BridgeInv /\ Interrupt => BridgeInv'
<1> SUFFICES ASSUME BridgeInv, Interrupt PROVE BridgeInv'
    OBVIOUS
<1> USE MaxInterruptsAssumption
    DEF BridgeInv, TypeOK, Fresh, Joined, Remembered, Caused, Answered,
        OncePerInterrupt, Handling, Unbound, Outcomes, Interrupted, End, handoffVars, helperVars
<1>1. CASE InterruptJoin
    BY <1>1 DEF InterruptJoin
<1>2. CASE InterruptStart
    BY <1>2 DEF InterruptStart
<1>3. CASE InterruptHandler
    BY <1>3 DEF InterruptHandler
<1> QED  BY <1>1, <1>2, <1>3 DEF Interrupt

\* The helper and the network change neither the caller nor what it remembers.
LEMMA HelperPreserves == BridgeInv /\ (HelperStep \/ NetworkEnds) => BridgeInv'
<1> SUFFICES ASSUME BridgeInv, HelperStep \/ NetworkEnds PROVE BridgeInv'
    OBVIOUS
<1> USE MaxInterruptsAssumption
    DEF BridgeInv, TypeOK, Fresh, Joined, Remembered, Caused, Answered,
        OncePerInterrupt, Handling, Unbound, Outcomes, callerVars, handoffVars
<1>1. CASE Bind
    BY <1>1 DEF Bind
<1>2. CASE BindCancels
    BY <1>2 DEF BindCancels
<1>3. CASE TaskStarts
    BY <1>3 DEF TaskStarts
<1>4. CASE CancelDelivered
    BY <1>4 DEF CancelDelivered
<1>5. CASE CleanUp
    BY <1>5 DEF CleanUp
<1>6. CASE HelperEnds
    BY <1>6 DEF HelperEnds
<1>7. CASE NetworkEnds
    BY <1>7 DEF NetworkEnds
<1> QED  BY <1>1, <1>2, <1>3, <1>4, <1>5, <1>6, <1>7 DEF HelperStep

\* Every step of the loop, the task and the interrupts keeps the invariant.
LEMMA StepPreserves == BridgeInv /\ [Next]_vars => BridgeInv'
<1> SUFFICES ASSUME BridgeInv, [Next]_vars PROVE BridgeInv'
    OBVIOUS
<1>1. CASE CallerStep
    BY <1>1, CallerPreserves
<1>2. CASE Interrupt
    BY <1>2, InterruptPreserves
<1>3. CASE HelperStep \/ NetworkEnds
    BY <1>3, HelperPreserves
<1>4. CASE UNCHANGED vars
    BY <1>4
       DEF vars, callerVars, helperVars, handoffVars, BridgeInv, TypeOK, Fresh, Joined,
           Remembered, Caused, Answered, OncePerInterrupt, Handling, Unbound, Outcomes
<1> QED  BY <1>1, <1>2, <1>3, <1>4 DEF Next, Terminated

-----------------------------------------------------------------------------
\* backend.py:241-322.  The invariant that the two theorems below are read from.
THEOREM InvariantHolds == Spec => []BridgeInv
BY InitEstablishes, StepPreserves, PTL DEF Spec

\* Every variable keeps its range; no more cancellations are queued than
\* interrupts came (backend.py:241-256).
THEOREM TypeCorrect == Spec => []TypeOK
<1>1. BridgeInv => TypeOK
    BY DEF BridgeInv
<1> QED  BY <1>1, InvariantHolds, PTL

\* backend.py:299-322.  However many interrupts arrive and wherever they meet the
\* helper: unless one escaped, the caller leaves no helper behind, an interrupt
\* is never answered with a result, and a CancelledError never replaces it.
THEOREM BridgeAlwaysSafe == Spec => []BridgeSafe
<1>1. BridgeInv => BridgeSafe
    BY DEF BridgeInv, Joined, Answered, BridgeSafe, JoinedUnlessEscaped, JoinedBeforeReturn,
           InterruptWins
<1> QED  BY <1>1, InvariantHolds, PTL

-----------------------------------------------------------------------------
(* ResponseStack: an answer on its way up                                  *)

\* Joining one text is that text.
LEMMA FlattenOne == ASSUME NEW x PROVE Answers!FlattenSeq(<<x>>) = x
<1> DEFINE flat == [i \in 1..1 |-> x]
           step(f) ==
             [i \in 1..Len(<<x>>) |-> IF i = 1 THEN <<x>>[i] ELSE f[i - 1] \o <<x>>[i]]
           chosen == CHOOSE f : f = step(f)
<1>1. flat = step(flat)
    OBVIOUS
<1>2. chosen = step(chosen)
    <2>1. \E f : f = step(f)
        BY <1>1
    <2> HIDE DEF step
    <2> QED  BY <2>1
<1>3. chosen[1] = x
    BY <1>2
<1>4. Answers!FlattenSeq(<<x>>) = chosen[Len(<<x>>)]
    BY DEF Answers!FlattenSeq
<1> QED  BY <1>3, <1>4

\* What the library says anew passes every check and says the same.
LEMMA TextOfTextResponse ==
    ASSUME NEW text
    PROVE  /\ Answers!TerminalAccepted(Answers!TextResponse(text))
           /\ Answers!OutputText(Answers!TextResponse(text)) = text
<1> DEFINE part == [type |-> "output_text", isText |-> TRUE, text |-> text]
           message == Answers!Message(text)
           response == Answers!TextResponse(text)
<1>1. message.parts = <<part>> /\ message.type = "message"
    BY DEF Answers!Message
<1>2. Answers!ItemText(message) = text
    <2>1. [i \in DOMAIN message.parts |-> Answers!PartText(message.parts[i])] = <<text>>
        BY <1>1 DEF Answers!PartText
    <2> QED  BY <2>1, <1>1, FlattenOne DEF Answers!ItemText
<1>3. response.output = <<message>> /\ response.direct = <<"absent">>
    BY DEF Answers!TextResponse
<1>4. Answers!OutputText(response) = text
    <2>1. [i \in DOMAIN response.output |-> Answers!ItemText(response.output[i])] = <<text>>
        BY <1>2, <1>3
    <2> QED  BY <2>1, <1>3, FlattenOne DEF Answers!OutputText
<1>5. Answers!ItemAccepted(message)
    <2>1. message.id /\ part.isText
        BY Zenon DEF Answers!Message
    <2>2. Answers!PartAccepted(part)
        BY <2>1 DEF Answers!PartAccepted
    <2>3. Answers!MessageAccepted(message)
        BY <2>2, <1>1 DEF Answers!Message, Answers!MessageAccepted, Answers!ItemStatuses
    <2> HIDE DEF part
    <2> QED
        BY <2>1, <2>3, <1>1 DEF Answers!Message, Answers!ItemAccepted, Answers!ItemStatuses
<1>6. Answers!TerminalAccepted(response)
    BY <1>5, <1>3
       DEF Answers!TextResponse, Answers!TerminalAccepted, Answers!EnvelopeAccepted,
           Answers!Statuses, Answers!Message
<1> QED  BY <1>4, <1>6

\* What a server hands up: the answer of the provider, or one with its text.
Carries ==
    /\ Answers!TerminalAccepted(wire.body)
    /\ provider.kind = "response" /\ provider.body.status = "completed"
    /\ Answers!OutputText(wire.body) = Answers!OutputText(provider.body)
    /\ needsWhole => wire = provider

\* A level that looks at a response holds the one below; above the provider a
\* response carries its answer, and a failure its status and body.
AnswersInv ==
    /\ level \in Nat
    /\ stage \in {"ask", "check", "use"}
    /\ provider.kind = "response" => provider = Answers!Ok(provider.body)
    /\ provider.kind = "error" => provider.by = 0
    /\ level = 0 => wire = provider
    /\ stage # "ask" => wire.kind = "response" /\ held = wire.body
    /\ stage = "use" => held.status \in {"completed", "incomplete"}
    /\ level > 0 /\ wire.kind = "response" => Carries
    /\ level > 0 /\ ~expired /\ provider.kind # "response" /\ provider.status # 200 =>
           /\ wire.status = provider.status
           /\ wire.kind = "error"
           /\ provider.kind = "error" => wire.by = 0

\* The answer of the provider is on the wire.
LEMMA AnswersInit == Answers!Init => AnswersInv
<1> SUFFICES ASSUME Answers!Init PROVE AnswersInv
    OBVIOUS
<1>1. provider.kind = "response" => provider = Answers!Ok(provider.body)
    BY DEF Answers!Init, Answers!Ok, Answers!ProviderErrors, Answers!Failed
<1>2. provider.kind = "error" => provider.by = 0
    BY DEF Answers!Init, Answers!Ok, Answers!ProviderErrors, Answers!Failed
<1> QED  BY <1>1, <1>2 DEF Answers!Init, AnswersInv

\* What an answer changes.
GoesUp ==
    /\ level' = level + 1 /\ stage' = "ask"
    /\ needsWhole' = needsWhole /\ provider' = provider

\* Nothing is asked of a failure in these cases.
Excused == provider.kind = "response" \/ provider.status = 200 \/ expired'

\* A level may always fail, if it keeps what the provider failed with.
LEMMA FailedAnswer ==
    ASSUME AnswersInv, wire'.kind = "error", GoesUp,
           \/ Excused
           \/ wire'.status = provider.status /\ (provider.kind = "error" => wire'.by = 0)
    PROVE  AnswersInv'
BY DEF AnswersInv, GoesUp, Excused

\* A level may answer with what it holds, or with its text.
LEMMA GoodAnswer ==
    ASSUME AnswersInv, stage = "use", UNCHANGED expired,
           NEW body, Answers!Answer(Answers!Ok(body)),
           held.status = "completed",
           Answers!TerminalAccepted(body),
           Answers!OutputText(body) = Answers!OutputText(held),
           needsWhole => body = held
    PROVE  AnswersInv'
<1>1. /\ wire' = Answers!Ok(body) /\ level' = level + 1 /\ stage' = "ask"
      /\ needsWhole' = needsWhole /\ provider' = provider
    BY DEF Answers!Answer
<1>2. wire.kind = "response" /\ held = wire.body
    BY DEF AnswersInv
<1>3. Carries'
    <2>1. CASE level = 0
        BY <1>1, <1>2, <2>1 DEF AnswersInv, Carries, Answers!Ok
    <2>2. CASE level > 0
        BY <1>1, <1>2, <2>2 DEF AnswersInv, Carries, Answers!Ok
    <2> QED  BY <2>1, <2>2 DEF AnswersInv
<1> QED  BY <1>1, <1>3 DEF AnswersInv, Carries

\* A turn more, or a failure of the run.
LEMMA RepairKeeps ==
    ASSUME AnswersInv, stage = "use", Answers!Repair, UNCHANGED expired
    PROVE  AnswersInv'
<1>1. provider.kind = "response" \/ expired \/ provider.status = 200
    BY DEF AnswersInv, Carries
<1>2. CASE turn + 1 < MaxTurns
    BY <1>2 DEF AnswersInv, Carries, Answers!Repair
<1>3. CASE ~(turn + 1 < MaxTurns)
    <2>1. GoesUp /\ wire'.kind = "error"
        BY <1>3 DEF Answers!Repair, Answers!Answer, Answers!Failed, GoesUp
    <2>2. Excused
        BY <1>1, Zenon DEF Excused
    <2> QED
        BY <2>1, <2>2, FailedAnswer
<1> QED  BY <1>2, <1>3

\* One step for each thing a level does with the answer.
LEMMA AnswersStepKeeps == AnswersInv /\ [Answers!Next]_answerVars => AnswersInv'
<1> SUFFICES ASSUME AnswersInv, [Answers!Next]_answerVars PROVE AnswersInv'
    OBVIOUS
<1>1. CASE Answers!Receive
    <2>1. CASE wire.kind = "response"
        BY <1>1, <2>1 DEF Answers!Receive, AnswersInv, Carries
    <2>2. CASE wire.kind # "response" /\ wire.status = 200
        <3>1. Excused
            <4>1. provider.kind = "response" \/ provider.status = 200 \/ expired
                BY <2>2 DEF AnswersInv, Carries
            <4>2. expired' = expired
                BY <1>1 DEF Answers!Receive
            <4> QED  BY <4>1, <4>2, Zenon DEF Excused
        <3> QED
            BY <1>1, <2>2, <3>1, FailedAnswer
               DEF Answers!Receive, Answers!Answer, Answers!Failed, GoesUp
    <2>3. CASE wire.kind # "response" /\ wire.status # 200
        <3>1. GoesUp /\ wire' = Answers!PassOn
            BY <1>1, <2>3 DEF Answers!Receive, Answers!Answer, GoesUp
        <3>2. /\ wire'.kind = "error" /\ wire'.status = wire.status
              /\ wire.kind = "error" => wire'.by = wire.by
            BY <3>1 DEF Answers!PassOn, Answers!Failed
        <3>3. CASE provider.kind = "response" \/ provider.status = 200 \/ expired
            <4>1. expired' = expired
                BY <1>1 DEF Answers!Receive
            <4>2. Excused
                BY <3>3, <4>1, Zenon DEF Excused
            <4> QED  BY <3>1, <3>2, <4>2, FailedAnswer
        <3>4. CASE ~(provider.kind = "response" \/ provider.status = 200 \/ expired)
            <4>1. /\ wire.status = provider.status
                  /\ provider.kind = "error" => wire.kind = "error" /\ wire.by = 0
                BY <3>4 DEF AnswersInv
            <4> QED  BY <3>1, <3>2, <4>1, FailedAnswer
        <3> QED
            BY <3>3, <3>4
    <2> QED  BY <2>1, <2>2, <2>3
<1>2. CASE Answers!Expire
    <2>1. Excused
        BY <1>2, Zenon DEF Answers!Expire, Excused
    <2>2. wire'.kind = "error"
        BY <1>2 DEF Answers!Expire, Answers!Answer, Answers!Failed
    <2>3. GoesUp
        BY <1>2 DEF Answers!Expire, Answers!Answer, GoesUp
    <2> QED
        BY <2>1, <2>2, <2>3, FailedAnswer
<1>3. CASE Answers!Check
    <2>1. provider.kind = "response" \/ expired \/ provider.status = 200
        BY <1>3 DEF AnswersInv, Carries, Answers!Check
    <2> DEFINE fine ==
                 Answers!EnvelopeAccepted(held) /\ held.status \in {"completed", "incomplete"}
    <2>2. CASE fine
        <3>1. /\ stage' = "use" /\ held.status \in {"completed", "incomplete"}
              /\ UNCHANGED <<needsWhole, provider, wire, level, turn, held, expired>>
            BY <1>3, <2>2 DEF Answers!Check
        <3> QED
            BY <1>3, <3>1 DEF AnswersInv, Carries, Answers!Check
    <2>3. CASE ~fine
        <3>1. GoesUp /\ wire'.kind = "error"
            BY <1>3, <2>3 DEF Answers!Check, Answers!Answer, Answers!Failed, GoesUp
        <3>2. expired' = expired
            BY <1>3 DEF Answers!Check
        <3>3. Excused
            BY <2>1, <3>2, Zenon DEF Excused
        <3> QED  BY <3>1, <3>3, FailedAnswer
    <2> QED  BY <2>2, <2>3
<1>4. CASE Answers!Direct
    <2>1. CASE Answers!TerminalAccepted(held)
        BY <1>4, <2>1, GoodAnswer DEF Answers!Direct, Answers!TerminalAccepted
    <2>2. CASE ~Answers!TerminalAccepted(held)
        <3>1. Excused
            BY <1>4 DEF AnswersInv, Carries, Excused, Answers!Direct
        <3> QED
            BY <1>4, <2>2, <3>1, FailedAnswer
               DEF Answers!Direct, Answers!Answer, Answers!Failed, GoesUp
    <2> QED  BY <2>1, <2>2
<1>5. CASE Answers!Relay
    <2>1. CASE Answers!TerminalAccepted(held)
        BY <1>5, <2>1, GoodAnswer DEF Answers!Relay, Answers!TerminalAccepted
    <2>2. CASE ~Answers!TerminalAccepted(held)
        BY <1>5, <2>2, RepairKeeps DEF Answers!Relay
    <2> QED  BY <2>1, <2>2
<1>6. CASE Answers!Say
    <2> DEFINE said == Answers!TextResponse(Answers!OutputText(held))
    <2>1. CASE held.status = "completed" /\ ~needsWhole /\ Answers!Answer(Answers!Ok(said))
        BY <1>6, <2>1, GoodAnswer, TextOfTextResponse DEF Answers!Say
    <2>2. CASE Answers!Repair
        BY <1>6, <2>2, RepairKeeps DEF Answers!Say
    <2> QED  BY <1>6, <2>1, <2>2 DEF Answers!Say
<1>7. CASE UNCHANGED answerVars
    BY <1>7 DEF answerVars, AnswersInv, Carries
<1> QED
    BY <1>1, <1>2, <1>3, <1>4, <1>5, <1>6, <1>7 DEF Answers!Next

\* engine.py:614-651, 794-821, response.py:68-144, server.py:68-92.  For any number
\* of servers and turns and any outputs: what a server answers passes every check of
\* the server above, and its text is that of the provider's completed response.
THEOREM AnswersAlwaysSurvive == ScenarioSpec => []AnswersSurvive
<1>1. ScenarioInit => AnswersInv
    BY AnswersInit DEF ScenarioInit
<1>2. AnswersInv /\ [RequestStep \/ AnswersStep \/ ClosingStep \/ AnswersOver]_allVars
        => AnswersInv'
    BY AnswersStepKeeps DEF RequestStep, AnswersStep, ClosingStep, AnswersOver, allVars
<1>3. AnswersInv => AnswersSurvive
    BY DEF AnswersInv, Carries, AnswersSurvive, ResultsStack, TextSurvives,
           Answers!ResultsStack,
           Answers!TextSurvives, Answers!Succeeded, Answers!Answered
<1> QED  BY <1>1, <1>2, <1>3, PTL DEF ScenarioSpec

\* engine.py:248-262, 626-633, errors.py:119-127, 209-224.  A request that a
\* text cannot answer gets the provider's response itself, and a failure of the
\* provider reaches the top with its own status and body, unless a level lost
\* patience.
THEOREM StacksAreTransparent ==
    ScenarioSpec => [](Answers!WholeAnswers /\ Answers!FailureSurvives)
<1>1. ScenarioInit => AnswersInv
    BY AnswersInit DEF ScenarioInit
<1>2. AnswersInv /\ [RequestStep \/ AnswersStep \/ ClosingStep \/ AnswersOver]_allVars
        => AnswersInv'
    BY AnswersStepKeeps DEF RequestStep, AnswersStep, ClosingStep, AnswersOver, allVars
<1>3. AnswersInv => Answers!WholeAnswers /\ Answers!FailureSurvives
    BY DEF AnswersInv, Carries, Answers!WholeAnswers, Answers!FailureSurvives,
           Answers!Succeeded, Answers!Answered
<1> QED  BY <1>1, <1>2, <1>3, PTL DEF ScenarioSpec

-----------------------------------------------------------------------------
(* Shutdown: who closes the backends                                       *)

\* Nothing of the loop of close has happened yet.
Untouched ==
    /\ failures = <<>> /\ firstError = Closing!NoBackend
    /\ closes = [b \in Closing!Backends |-> 0]

\* How far the loop is, what it has seen, and what it has closed of that.
LoopAt ==
    /\ \/ todo = <<setup.public, setup.controller>> /\ seen = {}
       \/ todo = <<setup.controller>> /\ seen = {setup.public}
       \/ todo = <<>> /\ seen = {setup.public, setup.controller}
    /\ \A b \in Closing!Mine : closes[b] = IF b \in seen THEN 1 ELSE 0

\* The failures so far, and the first of them.
FailuresKept ==
    /\ failures \in Seq(Closing!Backends)
    /\ failures = <<>> <=> firstError = Closing!NoBackend
    /\ failures # <<>> => failures[1] = firstError

\* The owner has left in an orderly way.
Gone == phase = "ended" /\ raised \notin {<<Closing!Usage>>, <<Closing!Interrupt>>}

\* The loop of close is entered once, with nothing closed, and sees both roles.
ShutdownInv ==
    /\ setup \in Setups
    /\ phase \in {"starting", "using", "closing", "leaving", "exiting", "ended"}
    /\ closes \in [Closing!Backends -> Nat]
    /\ running \in [Requests -> Closing!Backends \cup {Closing!NoBackend}]
    /\ phase # "using" => Closing!Drained
    /\ phase = "closing" => setup.owner # "with"
    /\ phase \in {"starting", "using", "leaving"} => Untouched
    /\ phase \in {"closing", "exiting"} => LoopAt
    /\ FailuresKept
    /\ Gone => Closing!Closed /\ Closing!AllSurfaced

\* Both roles of an owner are backends, and no backend is NoBackend.
LEMMA BackendsOfSetup ==
    ASSUME NEW s \in Setups
    PROVE  /\ s.public \in Closing!Backends /\ s.controller \in Closing!Backends
           /\ Closing!NoBackend \notin Closing!Backends
BY NoBackendAssumption DEF Closing!Backends, Closing!NoBackend

\* Nothing is closed before the RLM is built.
LEMMA ShutdownInit == Closing!Init => ShutdownInv
<1> SUFFICES ASSUME Closing!Init PROVE ShutdownInv
    OBVIOUS
<1>1. /\ setup \in Setups /\ phase = "starting" /\ Untouched
      /\ running = [r \in Requests |-> Closing!NoBackend]
    BY DEF Closing!Init, Untouched
<1>2. closes \in [Closing!Backends -> Nat]
    BY <1>1 DEF Untouched
<1>3. FailuresKept
    BY <1>1 DEF Untouched, FailuresKept
<1>4. Closing!Drained
    BY <1>1 DEF Closing!Drained
<1> QED  BY <1>1, <1>2, <1>3, <1>4 DEF ShutdownInv, Gone


\* One step for each action; the loop of close is in the middle.
LEMMA ShutdownStep == ShutdownInv /\ [Closing!Next]_closingVars => ShutdownInv'
<1> SUFFICES ASSUME ShutdownInv, [Closing!Next]_closingVars PROVE ShutdownInv'
    OBVIOUS
<1> USE DEF ShutdownInv
<1>b. /\ setup.public \in Closing!Backends /\ setup.controller \in Closing!Backends
      /\ Closing!NoBackend \notin Closing!Backends
    BY BackendsOfSetup
<1>1. CASE Closing!EndpointRefused
    BY <1>1 DEF Closing!EndpointRefused, Closing!Usage, Closing!loop, Gone, FailuresKept,
                Untouched, Closing!Drained
<1>2. CASE Closing!BuildInterrupted
    BY <1>2, <1>b DEF Closing!BuildInterrupted, Closing!loop, Gone, FailuresKept, Untouched,
                      Closing!Drained
<1>3. CASE Closing!Build
    BY <1>3 DEF Closing!Build, Closing!loop, Gone, FailuresKept, Untouched
<1>4. ASSUME NEW r \in Requests, Closing!Call(r) PROVE ShutdownInv'
    BY <1>4, <1>b
       DEF Closing!Call, Closing!loop, Gone, FailuresKept, Untouched, Closing!Drained
<1>5. ASSUME NEW r \in Requests, Closing!Return(r) PROVE ShutdownInv'
    <2>1. (phase # "using" => Closing!Drained)'
        BY <1>5 DEF Closing!Return, Closing!Drained
    <2>2. (running \in [Requests -> Closing!Backends \cup {Closing!NoBackend}])'
        BY <1>5 DEF Closing!Return
    <2>3. (Gone => Closing!Closed /\ Closing!AllSurfaced)'
        BY <1>5
           DEF Closing!Return, Closing!loop, Gone, Closing!Closed, Closing!AllSurfaced,
               Closing!Mine
    <2> QED
        BY <1>5, <2>1, <2>2, <2>3
           DEF Closing!Return, Closing!loop, FailuresKept, Untouched, LoopAt, Closing!Mine
<1>6. CASE Closing!LifespanEnds
    <2>1. (phase' = "closing" /\ LoopAt') \/ (phase' = "leaving" /\ Untouched')
        BY <1>6, <1>b
           DEF Closing!LifespanEnds, Closing!StartClose, Untouched, LoopAt, Closing!Mine
    <2> QED
        BY <1>6, <2>1
           DEF Closing!LifespanEnds, Closing!OnShutdown, Gone, FailuresKept, Closing!Drained
<1>7. CASE Closing!Exit
    <2>1. LoopAt'
        BY <1>7, <1>b DEF Closing!Exit, Closing!StartClose, Untouched, LoopAt, Closing!Mine
    <2> QED
        BY <1>7, <2>1 DEF Closing!Exit, Gone, FailuresKept, Closing!Drained
<1>8. ASSUME Closing!Closing, todo # <<>>
      PROVE  /\ Head(todo) \in Closing!Backends
             /\ Closing!Advance =>
                  /\ seen' = seen \cup {Head(todo)}
                  /\ \/ todo' = <<setup.controller>> /\ seen' = {setup.public}
                     \/ todo' = <<>> /\ seen' = {setup.public, setup.controller}
    <2>1. CASE todo = <<setup.public, setup.controller>> /\ seen = {}
        BY <2>1, <1>b DEF Closing!Advance
    <2>2. CASE todo = <<setup.controller>> /\ seen = {setup.public}
        BY <2>2, <1>b DEF Closing!Advance
    <2> QED  BY <1>8, <2>1, <2>2 DEF LoopAt, Closing!Closing
<1>9. CASE Closing!CloseSkips
    <2>1. LoopAt'
        BY <1>8, <1>9
           DEF Closing!CloseSkips, Closing!Skip, LoopAt, Closing!Mine, Closing!Closing
    <2> QED
        BY <1>9, <2>1
           DEF Closing!CloseSkips, Closing!Closing, Gone, FailuresKept, Closing!Drained
<1>10. CASE Closing!CloseInterrupted
    BY <1>8, <1>10
       DEF Closing!CloseInterrupted, Closing!Interrupt, Closing!Closing, Closing!loop,
           Gone, FailuresKept, Closing!Drained
<1>11. ASSUME NEW raises \in BOOLEAN, Closing!CloseCalls(raises) PROVE ShutdownInv'
    <2>1. LoopAt'
        BY <1>8, <1>11, <1>b
           DEF Closing!CloseCalls, Closing!Skip, LoopAt, Closing!Mine, Closing!Closing
    <2>2. FailuresKept'
        <3>1. CASE raises
            <4>1. Head(todo) \in Closing!Backends
                BY <1>8, <1>11 DEF Closing!CloseCalls
            <4>2. failures' = Append(failures, Head(todo))
                BY <1>11, <3>1 DEF Closing!CloseCalls
            <4>3. firstError' = IF firstError = Closing!NoBackend THEN Head(todo) ELSE firstError
                BY <1>11, <3>1 DEF Closing!CloseCalls
            <4> QED  BY <1>b, <4>1, <4>2, <4>3 DEF FailuresKept
        <3>2. CASE ~raises
            BY <1>11, <3>2 DEF Closing!CloseCalls, FailuresKept
        <3> QED  BY <3>1, <3>2
    <2> QED
        BY <1>8, <1>11, <1>b, <2>1, <2>2
           DEF Closing!CloseCalls, Closing!Closing, Gone, Closing!Drained
<1>12. CASE Closing!CloseEnds
    <2>1. phase' = "ended"
        BY <1>12 DEF Closing!CloseEnds, Closing!Closing
    <2>2. Closing!Closed'
        BY <1>12
           DEF Closing!CloseEnds, Closing!Closing, Closing!Closed, LoopAt, Closing!Mine
    <2>3. Closing!AllSurfaced'
        <3> DEFINE names == [i \in DOMAIN failures |-> Name[failures[i]]]
                   first == IF failures = <<>> THEN <<>> ELSE Closing!Report
                   rest == IF blockRaised THEN <<Closing!BlockError>> ELSE <<>>
        <3>1. raised' = first \o rest /\ failures' = failures /\ blockRaised' = blockRaised
            BY <1>12 DEF Closing!CloseEnds, Closing!loop
        <3>2. failures # <<>> =>
                 first = <<Closing!CloseError(names), failures[1]>>
            BY DEF FailuresKept, Closing!Report
        <3>3. failures # <<>> => raised'[1] = Closing!CloseError(names) /\ raised'[2] = failures[1]
            <4> HIDE DEF names
            <4> QED  BY <3>1, <3>2
        <3>4. blockRaised => \E i \in DOMAIN raised' : raised'[i] = Closing!BlockError
            <4>1. Closing!Report = <<Closing!Report[1], Closing!Report[2]>>
                BY DEF Closing!Report
            <4>2. first = <<>> \/ first = <<Closing!Report[1], Closing!Report[2]>>
                BY <4>1
            <4> HIDE DEF first
            <4>3. CASE first = <<>>
                BY <3>1, <4>3
            <4>4. CASE first = <<Closing!Report[1], Closing!Report[2]>>
                BY <3>1, <4>4
            <4> QED  BY <4>2, <4>3, <4>4
        <3> QED  BY <3>1, <3>3, <3>4 DEF Closing!AllSurfaced, Closing!Range
    <2> QED
        BY <1>12, <2>1, <2>2, <2>3
           DEF Closing!CloseEnds, Closing!Closing, Closing!loop, FailuresKept, Closing!Drained
<1>13. CASE UNCHANGED closingVars
    <2>1. (Gone => Closing!Closed /\ Closing!AllSurfaced)'
        BY <1>13 DEF closingVars, Gone, Closing!Closed, Closing!AllSurfaced, Closing!Mine
    <2> QED
        BY <1>13, <2>1
           DEF closingVars, FailuresKept, Untouched, LoopAt, Closing!Drained, Closing!Mine
<1> QED
    BY <1>1, <1>2, <1>3, <1>4, <1>5, <1>6, <1>7, <1>9, <1>10, <1>11, <1>12, <1>13
       DEF Closing!Next, Closing!Ended, Closing!vars, closingVars

\* A step of a scenario is one of its component, or leaves the component alone.
LEMMA ClosingAlone ==
    [RequestStep \/ AnswersStep \/ ClosingStep \/ AnswersOver]_allVars =>
        [Closing!Next]_closingVars
BY DEF RequestStep, AnswersStep, ClosingStep, AnswersOver, allVars

\* engine.py (RLM.close), server.py (close_on_shutdown), errors.py
\* (BackendCloseError).  Whatever backends the roles share, whatever their labels
\* and whichever of them fail: each is closed once, and no failure is hidden.
THEOREM ShutdownAlwaysComplete == ScenarioSpec => []ShutdownComplete
<1>1. ScenarioInit => ShutdownInv
    BY ShutdownInit DEF ScenarioInit
<1>2. ShutdownInv /\ [RequestStep \/ AnswersStep \/ ClosingStep \/ AnswersOver]_allVars
        => ShutdownInv'
    BY ShutdownStep, ClosingAlone
<1>3. ShutdownInv => ShutdownComplete
    BY DEF ShutdownInv, Gone, ShutdownComplete, Closed, AllSurfaced, Closing!Closed,
           Closing!AllSurfaced
<1> QED  BY <1>1, <1>2, <1>3, PTL DEF ScenarioSpec

\* server.py (lifespan of create_app).  No step closes a backend under a request
\* that is calling it, for any number of requests.
THEOREM NobodyCutOff == Closing!Spec => Closing!NeverUnderACall
<1>1. Closing!Init => ShutdownInv
    BY ShutdownInit
<1>2. ShutdownInv /\ [Closing!Next]_Closing!vars => ShutdownInv'
    BY ShutdownStep DEF closingVars, Closing!vars
<1>3. ShutdownInv /\ [Closing!Next]_Closing!vars =>
        [\A b \in Closing!Backends :
            closes'[b] > closes[b] => \A r \in Requests : running[r] # b]_Closing!vars
    <2> SUFFICES ASSUME ShutdownInv, Closing!Next,
                        NEW b \in Closing!Backends, closes'[b] > closes[b]
                 PROVE  \A r \in Requests : running[r] # b
        OBVIOUS
    <2>1. CASE phase = "using"
        <3>1. closes' = closes
            BY <2>1 DEF Closing!Next, Closing!EndpointRefused, Closing!BuildInterrupted,
                Closing!Build, Closing!Call, Closing!Return, Closing!LifespanEnds, Closing!Exit,
                Closing!CloseSkips, Closing!CloseInterrupted, Closing!CloseCalls,
                Closing!CloseEnds, Closing!Ended, Closing!Closing, Closing!vars
        <3> QED  BY <3>1 DEF ShutdownInv
    <2>2. CASE phase # "using"
        BY <2>2, NoBackendAssumption
           DEF ShutdownInv, Closing!Drained, Closing!Backends, Closing!NoBackend
    <2> QED  BY <2>1, <2>2
<1> QED  BY <1>1, <1>2, <1>3, PTL DEF Closing!Spec, Closing!NeverUnderACall
=============================================================================
