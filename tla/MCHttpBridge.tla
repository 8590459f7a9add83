---------------------------- MODULE MCHttpBridge ----------------------------
(***************************************************************************)
(* The HTTP surfaces, for TLC: the helper thread of one request            *)
(* (HttpBridge), what an answer becomes on its way through servers stacked *)
(* on each other (ResponseStack), and who closes the backends when a       *)
(* server, an application or a block of "with" ends (Shutdown).  A         *)
(* behaviour follows one of them, which `scenario` names; the others rest  *)
(* where they start.                                                       *)
(***************************************************************************)
EXTENDS HttpBridge

CONSTANTS
    Levels, MaxTurns, Outputs,              \* of ResponseStack
    Setups, Closeable, Name, Requests       \* of Shutdown

\* "none" stands for the absence of a backend.
ASSUME NoBackendAssumption ==
    /\ Setups # {}
    /\ \A s \in Setups : s.public # "none" /\ s.controller # "none"

VARIABLES
    scenario,       \* "request", "answers" or "closing"
    needsWhole, provider, wire, level, stage, turn, held, expired,
    setup, phase, running, todo, seen, failures, firstError, closes, blockRaised, raised

answerVars == <<needsWhole, provider, wire, level, stage, turn, held, expired>>
closingVars == <<setup, phase, running, todo, seen, failures, firstError, closes,
                 blockRaised, raised>>
allVars == <<scenario, vars, answerVars, closingVars>>

\* What a provider may have put into its response.
Part(type, text) == [type |-> type, isText |-> TRUE, text |-> text]
NotText(type) == [type |-> type, isText |-> FALSE, text |-> <<>>]
Item(type, id, status, role, payload, parts) ==
    [type |-> type, id |-> id, status |-> status, role |-> role, payload |-> payload, parts |-> parts]
Says(parts) == Item("message", TRUE, "completed", "assistant", TRUE, parts)

Items ==
    { Says(<<Part("output_text", <<"a">>)>>),
      Says(<<Part("output_text", <<"b">>), Part("other", <<>>), Part("output_text", <<" ">>)>>),
      Says(<<Part("output_text", <<" ">>)>>),
      Says(<<Part("refusal", <<"r">>)>>),
      Says(<<NotText("output_text")>>),
      Item("message", TRUE, "absent", "assistant", TRUE, <<Part("output_text", <<"a">>)>>),
      Item("message", TRUE, "incomplete", "user", TRUE, <<Part("output_text", <<"a">>)>>),
      Item("reasoning", TRUE, "absent", "none", FALSE, <<>>),
      Item("function_call", TRUE, "completed", "none", TRUE, <<>>),
      Item("new_kind", TRUE, "absent", "none", TRUE, <<>>),
      Item("new_kind", TRUE, "absent", "none", FALSE, <<>>),
      Item("reasoning", FALSE, "absent", "none", FALSE, <<>>) }

MCOutputs == {<<>>} \union {<<i>> : i \in Items} \union {<<i, j>> : i, j \in Items}

\* Every owner, with one backend for both roles, with two of the same label,
\* and with one that has nothing to close.
MCCloseable == {"endpoint", "first", "second"}
MCName == [b \in {"endpoint", "first", "second", "plain"} |-> IF b \in {"first", "second"} THEN "model" ELSE b]

Of(owner, public, controller) == [owner |-> owner, public |-> public, controller |-> controller]
Served == Of("serve", "endpoint", "endpoint")
MCSetups ==
    {Served} \cup
    {Of(owner, public, controller) : owner \in {"app", "with"}, public \in {"first", "plain"},
                                     controller \in {"first", "second", "plain"}}

Answers == INSTANCE ResponseStack
Closing == INSTANCE Shutdown

AtRest(part) ==
    \/ scenario = part
    \/ part = "answers" /\ needsWhole = FALSE /\ provider = Answers!Failed(500, 0)
    \/ part = "closing" /\ setup = CHOOSE s \in Setups : TRUE

ScenarioInit ==
    /\ scenario \in {"request", "answers", "closing"}
    /\ AtRest("answers") /\ AtRest("closing")
    /\ Init /\ Answers!Init /\ Closing!Init

RequestStep == scenario = "request" /\ Next /\ UNCHANGED <<scenario, answerVars, closingVars>>
AnswersStep == scenario = "answers" /\ Answers!Next /\ UNCHANGED <<scenario, vars, closingVars>>
ClosingStep == scenario = "closing" /\ Closing!Next /\ UNCHANGED <<scenario, vars, answerVars>>

\* The answer has reached the top.
AnswersOver == scenario = "answers" /\ level = Levels /\ UNCHANGED allVars

ScenarioSpec ==
    /\ ScenarioInit
    /\ [][RequestStep \/ AnswersStep \/ ClosingStep \/ AnswersOver]_allVars
    /\ WF_vars(scenario = "request" /\ CallerStep)
    /\ WF_vars(scenario = "request" /\ HelperStep)

-----------------------------------------------------------------------------
(* The properties of the components, of the behaviours that follow them    *)

\* What one level returns as the response of a run is accepted by every check
\* of the next: a stack of servers never fails on an answer of its own.
ResultsStack == scenario = "answers" => Answers!ResultsStack

\* The text of a successful answer is that of the provider's completed response.
TextSurvives == scenario = "answers" => Answers!TextSurvives

\* What a stack of servers answers is what its provider answered.
AnswersSurvive == ResultsStack /\ TextSurvives

\* Once the owner of an RLM has gone, each of its backends was closed once.
Closed == scenario = "closing" => Closing!Closed

\* The error that leaves names every backend whose close failed, in order.
AllSurfaced == scenario = "closing" => Closing!AllSurfaced

\* Leaving an RLM closes everything it owns and hides no failure of that.
ShutdownComplete == Closed /\ AllSurfaced
=============================================================================
