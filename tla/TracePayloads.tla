----------------------------- MODULE TracePayloads -----------------------------
(***************************************************************************)
(* What one line of a trace says (trace.py) and what the reader asks of it *)
(* (trace_reader.py): the two have no code in common.  The recorder checks *)
(* names only, so that a value the reader refuses must be kept out by the  *)
(* code it comes from: the checks of requests, controller replies, cell    *)
(* results and faults in engine.py, protocol.py and types.py.              *)
(*                                                                         *)
(* A value is abstracted to its shape; a reply's text is a sequence of     *)
(* kinds of lines.  Order and causality of the lines are TraceLog's.       *)
(***************************************************************************)
EXTENDS Integers, Sequences, FiniteSets, SequencesExt

CONSTANTS MaxTurns, MaxDepth,
          MaxLines   \* bound: lines in a controller's reply

VARIABLES pc,
          controllerModel,  \* config.controller.model
          branches,         \* the open branches, each [model, rich, turn]
          call,             \* whose model call is under way
          reply,            \* what the controller sent last
          frame,            \* the result of the cell
          fault,            \* the kind of the fault to repair
          line              \* the line of the trace written last

vars == <<pc, controllerModel, branches, call, reply, frame, fault, line>>

None == [none |-> TRUE]
NoFault == "none"

-----------------------------------------------------------------------------
(* Requests. *)

Texts == {"text", "blank"}  \* nonempty strings
Requests ==
    [object: BOOLEAN, strict: BOOLEAN, model: Texts \cup {"empty", "absent", "number"},
     stream: {"absent", "false", "true"}, background: BOOLEAN, rich: BOOLEAN]

\* The seeded mistake takes any string for a model.
ValidRequestFault(r) ==
    r.object /\ r.strict /\ r.model \in Texts \cup {"empty"}
    /\ r.stream # "true" /\ ~r.background
ValidRequest(r) ==
    r.object /\ r.strict /\ r.model = "text" /\ r.stream # "true" /\ ~r.background

-----------------------------------------------------------------------------
(* Controller replies: the items of a response's output. *)

Lines == {"open", "close", "fence", "code", "blank"}  \* fence: ``` and more
Message(parts) == [type |-> "message", role |-> "assistant", parts |-> parts]
Reasoning == [type |-> "reasoning", role |-> "none", parts |-> <<>>]
Call == [type |-> "function_call", role |-> "none", parts |-> <<>>]
Outputs ==
    {<<Reasoning, Message(<<text>>)>> : text \in BoundedSeq(Lines, MaxLines)}
    \cup LET cell == Message(<< <<"open", "code", "close">> >>)
         IN  {<<>>, <<Call>>, <<cell, cell>>, <<cell, Call>>, <<Message(<<>>)>>,
              <<Message(<< <<"open", "code", "close">>, <<"code">> >>)>>,
              <<[cell EXCEPT !.role = "user"]>>}

Stripped(text) ==  \* without the blank lines at both ends
    LET solid == {i \in DOMAIN text : text[i] # "blank"}
        first == CHOOSE i \in solid : \A j \in solid : i <= j
        last_ == CHOOSE i \in solid : \A j \in solid : j <= i
    IN  IF solid = {} THEN <<>> ELSE SubSeq(text, first, last_)

Rejected == <<"rejected">>
\* The seeded mistake lets a fence into the cell.
PythonCellFault(text) ==
    LET lines == Stripped(text)
        code == Stripped(SubSeq(lines, 2, Len(lines) - 1))
    IN  IF Len(lines) >= 3 /\ lines[1] = "open" /\ lines[Len(lines)] = "close" /\ code # <<>>
        THEN code ELSE Rejected
PythonCell(text) ==
    LET lines == Stripped(text)
        inner == SubSeq(lines, 2, Len(lines) - 1)
        code == Stripped(inner)
    IN  IF /\ Len(lines) >= 3 /\ lines[1] = "open" /\ lines[Len(lines)] = "close"
           /\ \A i \in DOMAIN inner : inner[i] \notin {"open", "close", "fence"}
           /\ code # <<>>
        THEN code ELSE Rejected

Messages(output) == {i \in DOMAIN output : output[i].type = "message"}
ParsedReply(output) ==
    LET message == output[CHOOSE i \in Messages(output) : TRUE]
    IN  IF /\ \A i \in DOMAIN output : output[i].type \in {"reasoning", "message"}
           /\ Cardinality(Messages(output)) = 1
           /\ message.role = "assistant" /\ Len(message.parts) = 1
        THEN PythonCell(message.parts[1]) ELSE Rejected

-----------------------------------------------------------------------------
(* Lines of the trace. *)

Schema == [t \in {"run.started", "run.completed", "run.failed", "branch.started",
                  "branch.completed", "model.request", "model.response", "model.failed",
                  "controller.action", "controller.execution", "controller.observation",
                  "controller.recovery_decision", "controller.repair"} |->
    CASE t = "run.started" -> {"request", "effective_config", "harness",
             "harness_fingerprint", "trace_schema_version", "environment_abi",
             "environment_abi_digest"}
      [] t \in {"run.completed", "branch.completed"} -> {"stop_reason", "response"}
      [] t = "run.failed" -> {"error"}
      [] t = "branch.started" -> {"request", "controller_model", "prompt", "harness",
                                  "harness_fingerprint"}
      [] t = "model.request" -> {"context", "request"}
      [] t = "model.response" -> {"context", "duration_seconds", "response"}
      [] t = "model.failed" -> {"context", "duration_seconds", "error"}
      [] t = "controller.action" -> {"code"}
      [] t = "controller.execution" -> {"execution"}
      [] t = "controller.observation" -> {"observation"}
      [] t = "controller.recovery_decision" -> {"turn", "decision"}
      [] t = "controller.repair" -> {"turn", "fault", "observation"}]

Branch(r) == [model |-> r.model, rich |-> r.rich, turn |-> 1]
Depth == Len(branches) - 1
Top == branches[Len(branches)]
Record(type, depth, payload) == line' = [type |-> type, depth |-> depth, payload |-> payload]

\* The reader's checks of one line.
ContextAgrees(l) == l.payload.context.depth = l.depth
                    /\ l.payload.context.role \in {"controller", "public", "subcall"}
Reads(l) ==
    LET p == l.payload IN
    /\ DOMAIN p = Schema[l.type]
    /\ l.depth \in Nat
    /\ CASE l.type = "run.started" ->
              /\ \A f \in {"request", "effective_config", "harness", "environment_abi"} :
                    p[f] = "object"
              /\ p.trace_schema_version \in Texts
              /\ p.harness_fingerprint = "digest" /\ p.environment_abi_digest = "digest"
         [] l.type \in {"run.completed", "branch.completed"} ->
              p.stop_reason \in Texts /\ p.response = "terminal"
         [] l.type = "run.failed" -> p.error = "record"
         [] l.type = "branch.started" ->
              /\ p.request = "object" /\ p.harness = "object"
              /\ p.controller_model \in Texts /\ p.prompt \in Texts
              /\ p.harness_fingerprint = "digest"
         [] l.type = "model.request" -> p.request = "object" /\ ContextAgrees(l)
         [] l.type = "model.response" -> p.duration_seconds \in Nat /\ p.response # "none" /\ ContextAgrees(l)
         [] l.type = "model.failed" -> p.duration_seconds \in Nat /\ p.error = "record" /\ ContextAgrees(l)
         [] l.type = "controller.action" -> p.code # <<>>
         [] l.type = "controller.execution" -> p.execution = "object"
         [] l.type = "controller.observation" -> TRUE
         [] l.type = "controller.recovery_decision" -> p.turn \in Nat /\ p.decision = "object"
         [] l.type = "controller.repair" -> p.turn \in Nat /\ p.fault = "object"

-----------------------------------------------------------------------------
Init ==
    /\ controllerModel \in {"null", "text"}
    /\ pc = "idle" /\ branches = <<>> /\ call = "none"
    /\ reply = <<>> /\ frame = None /\ fault = NoFault /\ line = None

\* run and run_direct check the request before there is a trace
Submit ==
    /\ pc = "idle"
    /\ \E r \in Requests, entry \in {"run", "direct"} :
          IF ValidRequest(r)
          THEN /\ branches' = <<Branch(r)>> /\ pc' = entry
               /\ Record("run.started", 0,
                     [request |-> "object", effective_config |-> "object",
                      harness |-> "object", harness_fingerprint |-> "digest",
                      trace_schema_version |-> "text", environment_abi |-> "object",
                      environment_abi_digest |-> "digest"])
          ELSE pc' = "refused" /\ UNCHANGED <<branches, line>>
    /\ UNCHANGED <<controllerModel, call, reply, frame, fault>>

StartBranch ==
    /\ pc = "run" /\ pc' = "turn"
    /\ Record("branch.started", Depth,
          [request |-> "object",
           controller_model |-> IF controllerModel # "null" THEN controllerModel ELSE Top.model,
           prompt |-> "text", harness |-> "object", harness_fingerprint |-> "digest"])
    /\ UNCHANGED <<controllerModel, branches, call, reply, frame, fault>>

-----------------------------------------------------------------------------
(* Model calls: of the controller, of the direct baseline, of a cell.       *)

\* The seeded mistake gives the context the depth of the root.
ContextFault(by) == [role |-> by, depth |-> 0]
Context(by) == [role |-> by, depth |-> Depth]
RoleOf(kind) == IF kind = "direct" THEN "public" ELSE kind

Ask(kind) ==
    /\ pc' = "asked" /\ call' = kind
    /\ Record("model.request", Depth, [context |-> Context(RoleOf(kind)), request |-> "object"])
    /\ reply' = <<>>
    /\ UNCHANGED <<controllerModel, branches, frame, fault>>
\* The seeded mistake asks after the last turn.
AskControllerFault == pc = "turn" /\ Ask("controller")
AskController == pc = "turn" /\ Top.turn <= MaxTurns /\ Ask("controller")
AskDirect == pc = "direct" /\ Ask("direct")
\* the branch's own request again, or one of the cell's that passes the check
AskInCell == pc = "acting" /\ (Ask("public") \/ Ask("subcall"))

AfterCall(response) ==
    CASE call = "direct" -> IF response = "terminal" THEN "directEnd" ELSE "failing"
      [] call = "controller" -> IF response = "incomplete" THEN "fault" ELSE "reply"
      [] OTHER -> "acting"

\* An object is recorded before its envelope, its status and the time left are
\* checked; a failed check, or no object, becomes the call's failure.
CallReturns ==
    /\ pc = "asked"
    /\ \E response \in {"terminal", "incomplete", "refused", "none"} :
          IF response = "none" THEN pc' = "callFails" /\ UNCHANGED <<line, fault, reply>>
          ELSE /\ Record("model.response", Depth,
                     [context |-> Context(RoleOf(call)), duration_seconds |-> 0,
                      response |-> response])
               /\ pc' \in {"callFails"}
                         \cup IF response = "refused" THEN {} ELSE {AfterCall(response)}
               /\ fault' = IF pc' = "fault" THEN "model_output" ELSE fault
               /\ IF pc' = "reply" THEN reply' \in Outputs ELSE reply' = <<>>
    /\ UNCHANGED <<controllerModel, branches, call, frame>>

CallFails ==
    /\ pc = "callFails"
    /\ Record("model.failed", Depth,
          [context |-> Context(RoleOf(call)), duration_seconds |-> 0, error |-> "record"])
    /\ pc' = IF call \in {"public", "subcall"} THEN "acting" ELSE "failing"
    /\ UNCHANGED <<controllerModel, branches, call, reply, frame, fault>>

-----------------------------------------------------------------------------
(* The turn. *)

Parse ==
    /\ pc = "reply"
    /\ LET code == ParsedReply(reply) IN
       IF code = Rejected
       THEN pc' = "fault" /\ fault' = "controller_protocol" /\ UNCHANGED line
       ELSE /\ Record("controller.action", Depth, [code |-> code])
            /\ pc' = "acting" /\ UNCHANGED fault
    /\ UNCHANGED <<controllerModel, branches, call, reply, frame>>

\* rlm_complete: the request of the branch or one that passes the check
Recurse ==
    /\ pc = "acting" /\ Depth < MaxDepth
    /\ \E b \in {[Top EXCEPT !.turn = 1]} \cup {Branch(r) : r \in {q \in Requests : ValidRequest(q)}} :
          branches' = Append(branches, b)
    /\ pc' = "run" /\ reply' = <<>>
    /\ UNCHANGED <<controllerModel, call, frame, fault, line>>

Frames ==  \* of the worker, before the host has looked at it
    [exception: {"none", "execution", "model_output", "final_submission"},
     failure: BOOLEAN, submission: {"none", "text", "terminal", "incomplete"}]
\* The seeded mistake keeps a submission made before an exception.
DecodedFault(f) ==
    IF f.failure THEN [f EXCEPT !.exception = "none", !.submission = "none"] ELSE f
Decoded(f) ==
    IF f.failure THEN [f EXCEPT !.exception = "none", !.submission = "none"]
    ELSE IF f.exception # "none" THEN [f EXCEPT !.submission = "none"] ELSE f

CellEnds ==
    /\ pc = "acting"
    /\ \E f \in Frames :
          /\ frame' = Decoded(f)
          /\ pc' = IF frame'.failure THEN "failing"
                   ELSE IF frame'.exception # "none" THEN "fault"
                   ELSE IF frame'.submission # "none" THEN "submitted" ELSE "observe"
          /\ fault' = IF pc' = "fault" THEN frame'.exception ELSE fault
    /\ Record("controller.execution", Depth, [execution |-> "object"])
    /\ reply' = <<>>
    /\ UNCHANGED <<controllerModel, branches, call>>

\* a timeout, a dead worker or a frame the host refuses leaves no result
CellLost ==
    /\ pc = "acting" /\ pc' = "failing"
    /\ UNCHANGED <<controllerModel, branches, call, reply, frame, fault, line>>

NextTurn == branches' = [branches EXCEPT ![Len(branches)].turn = @ + 1]
Observe ==
    /\ pc = "observe" /\ pc' = "turn" /\ frame' = None /\ NextTurn
    /\ Record("controller.observation", Depth, [observation |-> "object"])
    /\ UNCHANGED <<controllerModel, call, reply, fault>>

\* The seeded mistake accepts every response that is an object.
SubmittableFault(s) == s # "text" \/ ~Top.rich
\* a text can answer a request of plain fields only
Submittable(s) == s = "terminal" \/ (s = "text" /\ ~Top.rich)
\* text_response makes a terminal response of a text, for a request with a model
ResponseOf(s) == IF s = "text" /\ Top.model \in Texts THEN "terminal" ELSE s
Final ==
    /\ pc = "submitted" /\ frame' = None
    /\ IF Submittable(frame.submission)
       THEN /\ Record("branch.completed", Depth,
                  [stop_reason |-> "text", response |-> ResponseOf(frame.submission)])
            /\ IF Depth = 0 THEN pc' = "end" /\ UNCHANGED branches
               ELSE pc' = "acting" /\ branches' = Front(branches)
            /\ UNCHANGED fault
       ELSE pc' = "fault" /\ fault' = "final_submission" /\ UNCHANGED <<branches, line>>
    /\ UNCHANGED <<controllerModel, call, reply>>

Decide ==
    /\ pc = "fault"
    /\ Record("controller.recovery_decision", Depth,
          [turn |-> Top.turn, decision |-> "object"])
    /\ pc' \in {"repair", "failing"}
    /\ UNCHANGED <<controllerModel, branches, call, reply, frame, fault>>
Repair ==
    /\ pc = "repair" /\ pc' = "turn" /\ NextTurn
    /\ Record("controller.repair", Depth,
          [turn |-> Top.turn, fault |-> "object", observation |-> "object"])
    /\ frame' = None /\ fault' = NoFault /\ reply' = <<>>
    /\ UNCHANGED <<controllerModel, call>>

OutOfTurns ==
    /\ pc = "turn" /\ Top.turn > MaxTurns
    /\ pc' = "failing"
    /\ UNCHANGED <<controllerModel, branches, call, reply, frame, fault, line>>

\* A failure leaves every open branch: the final line is the root's.
Complete ==
    /\ pc \in {"end", "directEnd"} /\ pc' = "done"
    /\ Record("run.completed", 0, [stop_reason |-> "text", response |-> "terminal"])
    /\ UNCHANGED <<controllerModel, branches, call, reply, frame, fault>>
Fail ==
    /\ pc = "failing"
    \* a child's failure is its parent's host failure, in a cell that goes on
    /\ IF Depth > 0 THEN pc' = "acting" /\ branches' = Front(branches) /\ UNCHANGED line
       ELSE /\ pc' = "done" /\ UNCHANGED branches
            /\ Record("run.failed", 0, [error |-> "record"])
    /\ frame' = None /\ fault' = NoFault /\ reply' = <<>>
    /\ UNCHANGED <<controllerModel, call>>

Next ==
    \/ Submit \/ StartBranch \/ AskController \/ AskDirect \/ AskInCell \/ CallReturns
    \/ CallFails \/ Parse \/ Recurse \/ CellEnds \/ CellLost \/ Observe \/ Final \/ Decide \/ Repair
    \/ OutOfTurns \/ Complete \/ Fail
Spec == Init /\ [][Next]_vars

-----------------------------------------------------------------------------
(* Properties. *)

\* Every variable keeps its shape, and turns their bound.
TypeOK ==
    /\ controllerModel \in {"null", "text"}
    /\ \A i \in DOMAIN branches :
          branches[i].turn \in 1..MaxTurns + 1 /\ Len(branches) <= MaxDepth + 1
    /\ pc \in {"idle", "refused"} <=> branches = <<>>
    /\ frame # None => pc \in {"failing", "fault", "submitted", "observe", "repair"}

\* Whatever a caller, a provider, a controller and a cell send, the reader takes
\* every line the recorder has written: no line makes a trace unreadable.
Readable == line # None => Reads(line)

\* The references for the one cell a reply may hold: its text has two fences, the
\* first opens and the last closes it, with nothing outside and something between.
Fences(text) == {i \in DOMAIN text : text[i] \in {"open", "close", "fence"}}
Delimit(text, first, last_) ==
    /\ Fences(text) = {first, last_} /\ first < last_
    /\ text[first] = "open" /\ text[last_] = "close"
    /\ \A i \in DOMAIN text : i < first \/ i > last_ => text[i] = "blank"
CellsOf(text) ==
    {Stripped(SubSeq(text, p[1] + 1, p[2] - 1)) :
       p \in {q \in Fences(text) \X Fences(text) : Delimit(text, q[1], q[2])}} \ {<<>>}
OneMessage(output) ==
    /\ Cardinality(Messages(output)) = 1
    /\ \A i \in DOMAIN output :
          \/ output[i].type = "reasoning"
          \/ output[i].type = "message" /\ output[i].role = "assistant"
             /\ Len(output[i].parts) = 1
TextOf(output) == output[CHOOSE i \in Messages(output) : TRUE].parts[1]

\* What runs is the one cell of the one message, whole and alone, and a reply that
\* has it is never refused.
OneCell ==
    reply # <<>> /\ pc \in {"acting", "fault"} =>
       LET cells == IF OneMessage(reply) THEN CellsOf(TextOf(reply)) ELSE {}
       IN  cells = IF pc = "acting" THEN {line.payload.code} ELSE {}

\* A recorded result has one meaning: at most one of exception, host failure and
\* submission is left of what the worker sent, and a fault is never submitted over.
OneOutcome ==
    frame # None =>
       Cardinality({x \in {"exception", "submission"} : frame[x] # "none"}
                   \cup {x \in {"failure"} : frame[x]}) <= 1
=============================================================================
