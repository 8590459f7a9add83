--------------------------- MODULE FailureRecords ---------------------------
(***************************************************************************)
(* One failure on its way out of a run: src/src/rlm/errors.py and the      *)
(* places that catch, record, send and raise it again, _call_model and     *)
(* run in engine.py, the host and worker ends of a callback in             *)
(* executor.py, and the answer of server.py.  The failure starts in a      *)
(* branch of some depth; every branch above it is a cell that waits in     *)
(* rlm_complete.                                                           *)
(*                                                                         *)
(* Executor and CellWorker have the protocol these frames belong to.       *)
(***************************************************************************)
EXTENDS Naturals

CONSTANTS
    Origins,        \* what can fail, see MCBranchLoop; a record that is not
                    \* strict JSON is one of a model call
    MaxDepth,
    NoEvent

VARIABLES
    origin,
    level,          \* depth of the branch the failure is in
    place,          \* and where it is there
    flying,         \* the exception: its class, its record and its causal parent
    frame,          \* the error frame of a callback, or the host failure of a cell
    request,        \* the model.request of the failed call: "none", "open" or "failed"
    failed,         \* run.failed: its record and its parent
    answer          \* of the server

vars == <<origin, level, place, flying, frame, request, failed, answer>>

Levels == 0..MaxDepth
Cause == "model.failed"
RunStarted == "run.started"
None == [type |-> "none"]

-----------------------------------------------------------------------------
(* Records                                                                 *)

OwnBody(type) == [of |-> type]

\* What str, code and the rest of an exception that is no RLMError come to.
Internal(type, strict) ==
    [type |-> type, code |-> "internal_error", status |-> 500, body |-> OwnBody(type), details |-> "source", strict |-> strict]

\* error_record_for_exception: a remote error keeps the record it came with.
Record(exc) == exc.record

\* The error that ErrorRecord.to_dict raises of a record that is not strict JSON.
NotStrict == [class |-> "exception", record |-> Internal("TypeError", TRUE), parent |-> NoEvent]

\* RemoteRLMError.from_record.  The seeded mistake makes the body anew.
RemoteFault(record, parent) ==
    [class |-> "rlm", record |-> [record EXCEPT !.body = OwnBody(record.type)], parent |-> parent]
Remote(record, parent) == [class |-> "rlm", record |-> record, parent |-> parent]

-----------------------------------------------------------------------------
(* The path of a failure                                                   *)

Init ==
    /\ origin \in Origins
    /\ level \in Levels
    /\ place = origin.place
    /\ flying = [class |-> origin.class, record |-> origin.record, parent |-> NoEvent]
    /\ frame = None
    /\ request = IF origin.place = "call" THEN "open" ELSE "none"
    /\ failed = None
    /\ answer = None

\* The seeded mistake catches Exception only.
CallFailsFault ==
    /\ place = "call"
    /\ IF flying.class = "interrupt" THEN UNCHANGED <<request, flying>>
       ELSE request' = "failed" /\ flying' = Remote(Record(flying), Cause)
    /\ place' = IF origin.role = "controller" THEN "branch" ELSE "handler"
    /\ UNCHANGED <<origin, level, frame, failed, answer>>

\* The except clause of _call_model.  The record is made and decoded before
\* model.failed is written; an interrupt is recorded and goes on as it is.
CallFails ==
    /\ place = "call"
    /\ IF Record(flying).strict
       THEN /\ request' = "failed"
            /\ flying' = IF flying.class = "interrupt" THEN flying ELSE Remote(Record(flying), Cause)
       ELSE /\ flying' = NotStrict
            /\ UNCHANGED request
    /\ place' = IF origin.role = "controller" THEN "branch" ELSE "handler"
    /\ UNCHANGED <<origin, level, frame, failed, answer>>

\* A branch ends with the exception: the callback of the cell above it fails.
BranchEnds ==
    /\ place = "branch"
    /\ IF level = 0 THEN place' = "run" /\ UNCHANGED level
       ELSE place' = "handler" /\ level' = level - 1
    /\ UNCHANGED <<origin, flying, frame, request, failed, answer>>

\* IPythonExecutor.execute: a timeout of its own, a broken protocol and an
\* interrupt leave it at once, and so does an error while the frame is made.
HandlerLeaves ==
    /\ place = "handler"
    /\ flying.class \in {"timeout", "interrupt"} \/ ~Record(flying).strict
    /\ flying' = IF Record(flying).strict THEN flying ELSE NotStrict
    /\ place' = "branch"
    /\ UNCHANGED <<origin, level, frame, request, failed, answer>>

\* The seeded mistake does not send the event that caused the failure.
HandlerSendsFault ==
    /\ place = "handler" /\ flying.class \in {"rlm", "exception"} /\ Record(flying).strict
    /\ frame' = [type |-> "error", record |-> Record(flying), parent |-> NoEvent]
    /\ place' = "worker"
    /\ UNCHANGED <<origin, level, flying, request, failed, answer>>

HandlerSends ==
    /\ place = "handler" /\ flying.class \in {"rlm", "exception"} /\ Record(flying).strict
    /\ frame' = [type |-> "error", record |-> Record(flying),
                 parent |-> IF flying.class = "rlm" THEN flying.parent ELSE NoEvent]
    /\ place' = "worker"
    /\ UNCHANGED <<origin, level, flying, request, failed, answer>>

\* host_call: a malformed request is the cell's own error, and all else is kept
\* as the failure of the cell, whether or not the cell catches what is raised.
\* The seeded mistake goes by the status.
RecoverableFault(record) == record.status = 400
Recoverable(record) == record.type = "InvalidRequestError"

WorkerRaises ==
    /\ place = "worker"
    /\ place' = IF Recoverable(frame.record) THEN "recovered" ELSE "result"
    /\ frame' = [frame EXCEPT !.type = IF Recoverable(frame.record) THEN "none"
                                       ELSE IF frame.record.code = "internal_error" THEN "infrastructure"
                                       ELSE "rlm_error"]
    /\ UNCHANGED <<origin, level, flying, request, failed, answer>>

\* The seeded mistakes keep the latch for the next cell, and know the failures of
\* one kind only.
HostFailureFault ==
    /\ place = "result"
    /\ flying' = Remote(frame.record, frame.parent)
    /\ place' = "branch"
    /\ UNCHANGED <<origin, level, frame, request, failed, answer>>
HostFailureKindFault ==
    /\ place = "result" /\ frame.type = "rlm_error"
    /\ flying' = Remote(frame.record, frame.parent)
    /\ frame' = None
    /\ place' = "branch"
    /\ UNCHANGED <<origin, level, request, failed, answer>>

\* _raise_host_failure after controller.execution was written.
HostFailure ==
    /\ place = "result"
    /\ flying' = Remote(frame.record, frame.parent)
    /\ frame' = None
    /\ place' = "branch"
    /\ UNCHANGED <<origin, level, request, failed, answer>>

\* RLM.run: run.failed names the event that caused the failure, if one did.
RunFails ==
    /\ place = "run"
    /\ failed' = [type |-> "failed", record |-> Record(flying),
                  parent |-> IF flying.class = "rlm" /\ flying.parent # NoEvent THEN flying.parent ELSE RunStarted]
    /\ place' = "server"
    /\ UNCHANGED <<origin, level, flying, frame, request, answer>>

\* handle_rlm_error; the framework answers everything else.
Answer ==
    /\ place = "server"
    /\ answer' = IF flying.class \in {"rlm", "timeout"}
                 THEN [type |-> "body", status |-> Record(flying).status, body |-> Record(flying).body]
                 ELSE [type |-> "crash", status |-> 500, body |-> "none"]
    /\ place' = "end"
    /\ UNCHANGED <<origin, level, flying, frame, request, failed>>

Next ==
    \/ CallFails \/ BranchEnds \/ HandlerLeaves \/ HandlerSends \/ WorkerRaises
    \/ HostFailure \/ RunFails \/ Answer

Spec == Init /\ [][Next]_vars /\ WF_vars(Next)

-----------------------------------------------------------------------------
(* Properties                                                              *)

TypeOK ==
    /\ level \in Levels
    /\ place \in {"call", "branch", "handler", "worker", "result", "recovered", "run", "server", "end"}
    /\ flying.class \in {"rlm", "exception", "timeout", "interrupt"}
    /\ frame.type = "error" => frame.record.strict
    /\ place \in {"branch", "handler", "run"} => frame.type = "none"
    /\ place = "result" => frame.type \in {"infrastructure", "rlm_error"}

\* What failed is what the trace and the client are told, at whatever depth it
\* failed and through however many workers it went.
RecordSurvives ==
    /\ failed # None => failed.record = origin.record
    /\ answer.type = "body" => answer.status = origin.record.status /\ answer.body = origin.record.body

\* run.failed points at the model call that failed, not at the branch above it.
\* An interrupt carries no parent.
ParentIsCause ==
    failed # None /\ origin.class # "interrupt" =>
        failed.parent = IF request = "failed" THEN Cause ELSE RunStarted

\* "A malformed model-authored request is a controller coding error ...
\* Provider, limit, and transport failures stay fatal."
OnlyOwnMistakesRecover == place = "recovered" => origin.name = "malformed request"

\* "Return the one strict diagnostic record for any internal exception": every
\* request the trace has gets its outcome, so that the trace can be read.
NoOrphan == place \in {"recovered", "end"} => request # "open"

\* A failure does not get lost between a host and its workers.
AlwaysEnds == <>(place \in {"recovered", "end"})
=============================================================================
