-------------------------- MODULE ResponseStack --------------------------
(***************************************************************************)
(* A Responses object on its way from a provider through RLM servers that  *)
(* are stacked on one another, each the upstream of the next: the checks   *)
(* of OpenAIEndpoint (backend.py), of _call_model, of the helpers ask and  *)
(* FINAL_RESPONSE / FINAL_TEXT, of _submitted_final and run_direct         *)
(* (engine.py), the validators and the synthesis of response.py, and what  *)
(* the server (server.py, errors.py) makes of a failure.                   *)
(*                                                                         *)
(* A text is the sequence of the parts it is joined from; a field that     *)
(* should be a text and is not has isText FALSE.  A response is known by   *)
(* the fields the validators look at, and by a token for all the others.   *)
(***************************************************************************)
EXTENDS Naturals, Sequences, SequencesExt

CONSTANTS
    Levels,         \* the number of servers stacked
    MaxTurns,       \* max_turns of each
    Outputs         \* the outputs of the provider, sequences of items

VARIABLES
    needsWhole,     \* the request has fields a text response cannot represent
    provider,       \* what the provider answered
    wire,           \* the answer on its way to level + 1
    level,          \* the servers that have answered
    stage,          \* where level + 1 is
    turn,           \* turns its controller has used
    held,           \* the response _call_model returned to it
    expired         \* some level gave up on the one below

vars == <<needsWhole, provider, wire, level, stage, turn, held, expired>>

Statuses == {"cancelled", "completed", "failed", "in_progress", "incomplete", "queued"}
ItemStatuses == {"completed", "in_progress", "incomplete"}

-----------------------------------------------------------------------------
(* The validators; each is TRUE of what it accepts                         *)

PartAccepted(p) ==
    /\ p.type # ""
    /\ p.type \in {"output_text", "refusal"} => p.isText

MessageAccepted(m) ==
    /\ m.role = "assistant"
    /\ m.status \in ItemStatuses
    /\ \A i \in DOMAIN m.parts : PartAccepted(m.parts[i])

ItemAccepted(item) ==
    /\ item.id
    /\ item.type # ""
    /\ item.status \in ItemStatuses \union {"absent"}
    /\ IF item.type = "message" THEN MessageAccepted(item)
       ELSE item.type \in {"reasoning", "function_call", "computer_call", "file_search_call"}
            \/ item.payload

EnvelopeAccepted(r) ==
    /\ r.named
    /\ r.status \in Statuses
    /\ r.status = "failed" => r.error = "message"
    /\ \A i \in DOMAIN r.output : ItemAccepted(r.output[i])

TerminalAccepted(r) ==
    /\ EnvelopeAccepted(r)
    /\ r.status = "completed"
    /\ r.error = "absent"
    /\ \E i \in DOMAIN r.output : r.output[i].type # "reasoning"

PartText(p) == IF p.type = "output_text" THEN p.text ELSE <<>>
ItemText(item) ==
    IF item.type = "message"
    THEN FlattenSeq([i \in DOMAIN item.parts |-> PartText(item.parts[i])]) ELSE <<>>

OutputText(r) ==
    IF r.direct # <<"absent">> THEN r.direct
    ELSE FlattenSeq([i \in DOMAIN r.output |-> ItemText(r.output[i])])

Blank(text) == \A i \in DOMAIN text : text[i] = " "

Message(text) ==
    [type |-> "message", id |-> TRUE, status |-> "completed", role |-> "assistant",
     payload |-> TRUE, parts |-> <<[type |-> "output_text", isText |-> TRUE, text |-> text]>>]

TextResponse(text) ==
    [named |-> TRUE, status |-> "completed", error |-> "absent", direct |-> <<"absent">>,
     output |-> <<Message(text)>>, rest |-> "none"]

-----------------------------------------------------------------------------
(* The wire                                                                *)

NoResponse ==
    [named |-> FALSE, status |-> "other", error |-> "absent", direct |-> <<"absent">>,
     output |-> <<>>, rest |-> "none"]
Ok(body) == [status |-> 200, kind |-> "response", body |-> body, by |-> 0]
\* An error body is known by the level that wrote it, 0 for the provider.
Failed(status, by) == [status |-> status, kind |-> "error", body |-> NoResponse, by |-> by]

ProviderErrors ==
    {Failed(s, 0) : s \in {429, 500}}
      \union {[Failed(s, 0) EXCEPT !.kind = k] : s \in {200, 429}, k \in {"text", "scalar"}}

Responses ==
    [named : BOOLEAN, status : Statuses \union {"other"}, error : {"absent", "message", "empty"},
     direct : {<<"absent">>, <<"d">>}, output : Outputs, rest : {"provider"}]

TypeOK ==
    /\ needsWhole \in BOOLEAN
    /\ level \in 0..Levels
    /\ stage \in {"ask", "check", "use", "relay"}
    /\ turn \in 0..(MaxTurns - 1)
    /\ wire.kind \in {"response", "error", "text", "scalar"}
    /\ level > 0 => wire.kind \in {"response", "error"}
    /\ wire.by \in 0..level
    /\ level > 0 /\ wire.kind = "response" => wire.status = 200

Init ==
    /\ needsWhole \in BOOLEAN
    /\ provider \in {Ok(r) : r \in Responses} \union ProviderErrors
    /\ wire = provider
    /\ level = 0
    /\ stage = "ask"
    /\ turn = 0
    /\ held = NoResponse
    /\ expired = FALSE

Answer(w) ==
    /\ wire' = w
    /\ level' = level + 1
    /\ stage' = "ask"
    /\ turn' = 0
    /\ held' = NoResponse
    /\ UNCHANGED <<needsWhole, provider>>

\* UpstreamError keeps the status; its body is passed on if it has "error".
\* The seeded mistake answers 502 to every failure.
PassOnFault == Failed(502, IF wire.kind = "error" THEN wire.by ELSE level + 1)

PassOn == Failed(wire.status, IF wire.kind = "error" THEN wire.by ELSE level + 1)

\* _response_json_object.
Receive ==
    /\ level < Levels
    /\ stage = "ask"
    /\ IF wire.kind = "response"
       THEN /\ stage' = "check"
            /\ held' = wire.body
            /\ UNCHANGED <<needsWhole, provider, wire, level, turn>>
       ELSE Answer(IF wire.status = 200 THEN Failed(502, level + 1) ELSE PassOn)
    /\ UNCHANGED expired

\* The request to the level below takes longer than the time that is left.
Expire ==
    /\ level < Levels
    /\ stage = "ask"
    /\ expired' = TRUE
    /\ Answer(Failed(502, level + 1))

\* _call_model; the seeded mistake waits for a response that is not over.
CheckFault ==
    /\ stage = "check"
    /\ IF EnvelopeAccepted(held) /\ held.status \in {"completed", "incomplete"}
       THEN stage' = "use" /\ UNCHANGED <<needsWhole, provider, wire, level, turn, held>>
       ELSE IF held.status \in {"queued", "in_progress"} THEN UNCHANGED vars
       ELSE Answer(Failed(502, level + 1))
    /\ UNCHANGED expired

Check ==
    /\ stage = "check"
    /\ IF EnvelopeAccepted(held) /\ held.status \in {"completed", "incomplete"}
       THEN stage' = "use" /\ UNCHANGED <<needsWhole, provider, wire, level, turn, held>>
       ELSE Answer(Failed(502, level + 1))
    /\ UNCHANGED expired

\* run_direct: the response is the run's or the run has failed.
Direct ==
    /\ stage = "use"
    /\ Answer(IF TerminalAccepted(held) THEN Ok(held) ELSE Failed(502, level + 1))
    /\ UNCHANGED expired

\* The seeded mistake gives the controller a turn too many.
RepairFault ==
    IF turn < MaxTurns
    THEN turn' = turn + 1 /\ UNCHANGED <<needsWhole, provider, wire, level, stage, held>>
    ELSE Answer(Failed(500, level + 1))

\* A fault of the controller uses a turn; without another the run has failed.
Repair ==
    IF turn + 1 < MaxTurns
    THEN turn' = turn + 1 /\ UNCHANGED <<needsWhole, provider, wire, level, stage, held>>
    ELSE Answer(Failed(500, level + 1))

\* FINAL_RESPONSE(model_complete(request)); the seeded mistake submits what
\* _call_model has accepted.
RelayFault ==
    /\ stage = "use"
    /\ Answer(Ok(held))
    /\ UNCHANGED expired

Relay ==
    /\ stage = "use"
    /\ IF TerminalAccepted(held) THEN Answer(Ok(held)) ELSE Repair
    /\ UNCHANGED expired

\* The seeded mistake makes a text response for any request.
SayFault ==
    /\ stage = "use"
    /\ IF held.status = "completed" /\ ~Blank(OutputText(held))
       THEN Answer(Ok(TextResponse(OutputText(held)))) ELSE Repair
    /\ UNCHANGED expired

\* The seeded mistake takes the text of an incomplete response.
SayIncompleteFault ==
    /\ stage = "use"
    /\ IF ~Blank(OutputText(held)) /\ ~needsWhole
       THEN Answer(Ok(TextResponse(OutputText(held)))) ELSE Repair
    /\ UNCHANGED expired

\* FINAL_TEXT(ask(...)), the same request as the level's own.
Say ==
    /\ stage = "use"
    /\ IF held.status = "completed" /\ ~Blank(OutputText(held)) /\ ~needsWhole
       THEN Answer(Ok(TextResponse(OutputText(held)))) ELSE Repair
    /\ UNCHANGED expired

Next == Receive \/ Expire \/ Check \/ Direct \/ Relay \/ Say

\* A server goes on with what it has; whether the level below is slow is not
\* its choice, so Expire is not fair.
Spec == Init /\ [][Next]_vars /\ WF_vars(Receive \/ Check \/ Direct \/ Relay \/ Say)

-----------------------------------------------------------------------------
(* Properties                                                              *)

Answered == level > 0 /\ stage = "ask"
Succeeded == Answered /\ wire.kind = "response"

\* What one level returns as the response of a run is accepted by every check
\* of the next: a stack of servers never fails on an answer of its own.
ResultsStack ==
    /\ Succeeded => TerminalAccepted(wire.body)
    /\ level > 0 /\ stage = "use" => TerminalAccepted(held)

\* The text of a successful answer is that of the provider's completed
\* response, whether it was relayed or said anew, any number of times.
TextSurvives ==
    Succeeded => /\ provider.kind = "response"
                 /\ provider.body.status = "completed"
                 /\ OutputText(wire.body) = OutputText(provider.body)

\* A request that a text cannot answer gets the provider's response itself,
\* with all its fields.
WholeAnswers == Succeeded /\ needsWhole => wire = provider

\* An HTTP failure of the provider reaches the top with its own status, and
\* with its own body where it has one, unless a level lost patience.
FailureSurvives ==
    Answered /\ ~expired /\ provider.kind # "response" /\ provider.status # 200 =>
       /\ wire.status = provider.status
       /\ wire.kind = "error"
       /\ provider.kind = "error" => wire.by = 0

\* Every request is answered at the top.
TopAnswers == <>[](level = Levels)
=============================================================================
