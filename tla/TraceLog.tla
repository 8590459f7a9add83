------------------------------ MODULE TraceLog ------------------------------
(***************************************************************************)
(* The run trace: TraceRecorder of src/src/rlm/trace.py, which writes one  *)
(* JSON line per event and a manifest at the end, and the acceptance test  *)
(* of load_trace in src/src/rlm/trace_reader.py.                           *)
(*                                                                         *)
(* An event keeps what the reader relates to other events: its number, its *)
(* type, its branch, its causal parent, the model call it belongs to       *)
(* (NoCall when it belongs to none) and, for a model.response, whether the *)
(* response would pass as the outcome of its call.  Payload schemas and    *)
(* digests, which the reader checks one event at a time, are left out.     *)
(***************************************************************************)
EXTENDS Integers, Sequences, FiniteSets

CONSTANT NoCall

NoEvent == -1       \* parent_event_id = None
Root == 0           \* branch-root

VARIABLES
    lines,          \* trace.jsonl
    nextId,         \* _next_id
    known,          \* _event_ids
    closed,         \* _closed
    manifest        \* manifest.json, NoManifest before close writes it

traceVars == <<lines, nextId, known, closed, manifest>>

NoManifest == [status |-> "none"]

TraceInit ==
    /\ lines = <<>>
    /\ nextId = 0
    /\ known = {}
    /\ closed = FALSE
    /\ manifest = NoManifest

-----------------------------------------------------------------------------
(* The recorder.  event and close are critical sections of one lock.       *)

ParentValid(type, parent) ==
    IF known = {} THEN type = "run.started" /\ parent = NoEvent
                  ELSE parent \in known

Emit(type, branch, call, parent, good) ==
    /\ ~closed
    /\ ParentValid(type, parent)
    /\ lines' = Append(lines, [id |-> nextId, type |-> type, branch |-> branch,
                               call |-> call, parent |-> parent, good |-> good])
    /\ nextId' = nextId + 1
    /\ known' = known \cup {nextId}
    /\ UNCHANGED <<closed, manifest>>

Close(value) ==
    /\ ~closed
    /\ closed' = TRUE
    /\ manifest' = value
    /\ UNCHANGED <<lines, nextId, known>>

-----------------------------------------------------------------------------
(* The reader                                                              *)

Positions == DOMAIN lines
At(type, call) == {i \in Positions : lines[i].type = type /\ lines[i].call = call}

\* The id of an event of a call, NoEvent when there is none.
IdOf(type, call) ==
    IF At(type, call) = {} THEN NoEvent
    ELSE lines[CHOOSE i \in At(type, call) : TRUE].id

\* _validate_event: ids are the positions, parents are earlier events.
IdsOrdered ==
    \A i \in Positions :
        /\ lines[i].id = i - 1
        /\ IF i = 1 THEN lines[i].type = "run.started" /\ lines[i].parent = NoEvent
           ELSE \E j \in 1..(i - 1) : lines[j].id = lines[i].parent

Final(event) == event.type \in {"run.completed", "run.failed"}

\* _validate_trace: one start, one final event, which is the last.
OneStartOneEnd ==
    /\ Cardinality({i \in Positions : lines[i].type = "run.started"}) = 1
    /\ {i \in Positions : Final(lines[i])} = {Len(lines)}

\* _record_model_event and _validate_model_outcomes for one call.
CallCoherent(call) ==
    /\ Cardinality(At("model.request", call)) = 1
    /\ Cardinality(At("model.response", call)) <= 1
    /\ Cardinality(At("model.failed", call)) <= 1
    /\ At("model.response", call) \cup At("model.failed", call) # {}
    /\ \A i \in At("model.response", call) :
          /\ lines[i].parent = IdOf("model.request", call)
          /\ \A j \in At("model.failed", call) : i < j
          /\ At("model.failed", call) = {} => lines[i].good
    /\ \A i \in At("model.failed", call) :
          lines[i].parent = IF At("model.response", call) = {}
                               THEN IdOf("model.request", call)
                               ELSE IdOf("model.response", call)

\* _record_model_event: a failure after a response is the very next line.
CallAdjacent(call) ==
    \A i \in At("model.response", call), j \in At("model.failed", call) : j = i + 1

CallsIn == {lines[i].call : i \in Positions} \ {NoCall}

CallsCoherent == \A call \in CallsIn : CallCoherent(call)
CallsAdjacent == \A call \in CallsIn : CallAdjacent(call)

\* _validate_usage and _validate_terminal_agreement.
ManifestAgrees ==
    /\ manifest # NoManifest
    /\ manifest.active = 0
    /\ manifest.peak <= manifest.maxParallel
    /\ manifest.modelCalls <= manifest.maxModelCalls
    /\ manifest.subcalls <= manifest.maxSubcalls
    /\ manifest.unreported <= manifest.modelCalls
    /\ manifest.status = "completed" <=> lines[Len(lines)].type = "run.completed"
=============================================================================
