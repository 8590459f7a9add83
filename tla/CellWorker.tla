---------------------------- MODULE CellWorker ----------------------------
(***************************************************************************)
(* What one cell of the controller leaves behind, _worker_main of          *)
(* src/src/rlm/executor.py, and what the host makes of it.                 *)
(*                                                                         *)
(* The cell's thread, and the threads that cells start and do not join,    *)
(* write to captured streams that share one output budget; the helpers     *)
(* bound in the namespace accept a final submission, call the host and     *)
(* latch its failure; when the cell is over the namespace is restored, the *)
(* streams are read and one frame is sent, which the host decodes.         *)
(*                                                                         *)
(* A text is its length.  The steps of a write are those between which     *)
(* CPython may switch threads: it looks for a switch after each call.      *)
(***************************************************************************)
EXTENDS Naturals, FiniteSets, Functions

CONSTANTS
    MaxCells,       \* bound on the cells executed
    MaxChars,       \* max_output_chars
    Streams,        \* the streams a cell writes to, stdout, stderr and display
    Lengths,        \* the lengths of the texts written at once
    MaxWrites,      \* bound on the writes of a cell; another thread writes once
    Background,     \* threads the cells left running
    Exports         \* the names the harness's prelude defines

VARIABLES
    phase,          \* what the worker's main thread is doing
    cell,           \* the cell it runs or ran last
    owner,          \* whose object each name is bound to
    submission,     \* state["submission"]
    latched,        \* state["host_failure"] is set
    error,          \* the exception that ended the cell
    cap,            \* the captured streams of the cell
    budget,         \* retained_chars of its _OutputBudget
    pen,            \* the write each thread is in the middle of
    ink,            \* the writes it may still begin
    shared,         \* whether another thread wrote to the cell's streams
    frame,          \* the execution_result frame
    outcome         \* what the host made of it

cellVars == <<submission, latched, error>>
writeVars == <<cap, budget, pen, ink, shared>>
vars == <<phase, cell, owner, cellVars, writeVars, frame, outcome>>

Channels == Streams \union {"traceback"}
Main == "main"
Writers == {Main} \union Background

\* Names of the ABI, and whether a name keeps out of the bindings the worker
\* takes from the prelude: those bound before, and those with a leading _.
AbiNames == {"ask", "request"}
Private == {"_helper"}
Names == AbiNames \union Private \union Exports

\* The exceptions that end a cell, by what the frame must carry of them:
\* system_exit stands for all with a number in "code" (SystemExit(1),
\* urllib's HTTPError), unencodable for all with details or a message that
\* is not strict JSON.
Errors == {"value_error", "invalid_request", "final_submission", "model_output",
           "host_failed", "system_exit", "unencodable"}
NoError == "none"

NoSubmission == [by |-> 0, text |-> "none"]
Submissions == {"encodable", "unencodable"}
Idle == [at |-> "idle"]
Empty == [kept |-> 0, retained |-> 0, total |-> 0]
NoFrame == [sent |-> FALSE]

Less(a, b) == IF a < b THEN a ELSE b
Room(n) == Less(n, IF budget < MaxChars THEN MaxChars - budget ELSE 0)

TypeOK ==
    /\ phase \in {"start", "idle", "running", "over", "tracing", "sending", "sent", "dead"}
    /\ cell \in 0..MaxCells
    /\ owner \in [Names -> {"nobody", "harness", "cell"}]
    /\ submission.by \in 0..cell
    /\ latched \in BOOLEAN
    /\ error \in Errors \union {NoError}
    /\ \A ch \in Channels : cap[ch].retained <= cap[ch].kept
    /\ shared \in BOOLEAN
    /\ outcome \in {"none", "observed", "fault", "submitted", "host_failure", "protocol", "exited"}

Init ==
    /\ phase = "start"
    /\ cell = 0
    /\ owner = [n \in Names |-> IF n \in AbiNames THEN "harness" ELSE "nobody"]
    /\ submission = NoSubmission
    /\ latched = FALSE
    /\ error = NoError
    /\ cap = [ch \in Channels |-> Empty]
    /\ budget = 0
    /\ pen = [w \in Writers |-> Idle]
    /\ ink = [w \in Writers |-> IF w = Main THEN MaxWrites ELSE 1]
    /\ shared = FALSE
    /\ frame = NoFrame
    /\ outcome = "none"

-----------------------------------------------------------------------------
(* The namespace                                                           *)

\* The names the worker takes from the prelude's namespace to restore them.
PreludeBindings == {n \in Exports : n \notin AbiNames \union Private}

Prelude ==
    /\ phase = "start"
    /\ phase' = "idle"
    /\ owner' = [n \in Names |-> IF n \in AbiNames \union Exports THEN "harness" ELSE "nobody"]
    /\ UNCHANGED <<cell, cellVars, writeVars, frame, outcome>>

\* The seeded mistake restores the ABI's names only.
RestoredFault == [n \in Names |-> IF n \in AbiNames THEN "harness" ELSE owner[n]]

Restored == [n \in Names |-> IF n \in AbiNames \union PreludeBindings THEN "harness" ELSE owner[n]]

PreludeFails ==
    /\ phase = "start"
    /\ phase' = "dead"
    /\ UNCHANGED <<cell, owner, cellVars, writeVars, frame, outcome>>

\* A cell may bind any name anew; the worst one binds them all.
Rebind ==
    /\ phase = "running"
    /\ pen[Main] = Idle
    /\ owner' = [n \in Names |-> "cell"]
    /\ UNCHANGED <<phase, cell, cellVars, writeVars, frame, outcome>>

-----------------------------------------------------------------------------
(* The cell                                                                *)

\* Each cell has streams of its own.  What a thread still writes to those of
\* the cell before is seen by nobody.
FreshStreams ==
    /\ cap' = [ch \in Channels |-> Empty]
    /\ budget' = 0
    /\ pen' = [w \in Writers |-> Idle]
    /\ ink' = [ink EXCEPT ![Main] = MaxWrites]
    /\ shared' = FALSE

\* The seeded mistake keeps the state of the cell before.
ExecuteFault ==
    /\ phase = "idle"
    /\ cell < MaxCells
    /\ cell' = cell + 1
    /\ error' = NoError
    /\ phase' = "running"
    /\ frame' = NoFrame
    /\ outcome' = "none"
    /\ FreshStreams
    /\ UNCHANGED <<owner, submission, latched>>

Execute ==
    /\ phase = "idle"
    /\ cell < MaxCells
    /\ cell' = cell + 1
    /\ submission' = NoSubmission
    /\ latched' = FALSE
    /\ error' = NoError
    /\ phase' = "running"
    /\ frame' = NoFrame
    /\ outcome' = "none"
    /\ FreshStreams
    /\ UNCHANGED owner

InCell == phase = "running" /\ pen[Main] = Idle

\* A helper raises; the cell catches it and goes on, or ends with it.
Raises(e) ==
    \/ /\ error' = e
       /\ phase' = "over"
       /\ owner' = Restored
    \/ UNCHANGED <<error, phase, owner>>

Final(kind, text) ==
    /\ InCell
    /\ IF submission # NoSubmission \/ (kind = "response" /\ text = "unencodable")
       THEN UNCHANGED submission /\ Raises("final_submission")
       ELSE submission' = [by |-> cell, text |-> text] /\ UNCHANGED <<error, phase, owner>>
    /\ UNCHANGED <<cell, latched, writeVars, frame, outcome>>

\* host_call: after a failure no call leaves the worker; an InvalidRequestError
\* of the host is the cell's own mistake and is not latched.
HostCall(reply) ==
    /\ InCell
    /\ CASE latched -> UNCHANGED latched /\ Raises("host_failed")
         [] ~latched /\ reply = "failure" -> latched' = TRUE /\ Raises("host_failed")
         [] ~latched /\ reply = "invalid_request" -> UNCHANGED latched /\ Raises("invalid_request")
         [] ~latched /\ reply = "no_text" -> UNCHANGED latched /\ Raises("model_output")
    /\ UNCHANGED <<cell, submission, writeVars, frame, outcome>>

\* The cell runs to its end, or raises an exception of its own.
CellEnds(e) ==
    /\ InCell
    /\ phase' = "over"
    /\ error' = e
    /\ owner' = Restored
    /\ UNCHANGED <<cell, submission, latched, writeVars, frame, outcome>>

-----------------------------------------------------------------------------
(* _BoundedStringIO.write, of the stream that stood for sys.stdout when it  *)
(* began                                                                   *)

MayBegin(w, ch) ==
    IF w = Main THEN \/ phase = "running" /\ ch \in Streams
                     \/ phase = "tracing" /\ ch = "traceback"
                ELSE phase = "running" /\ ch \in Streams

Begin(w, ch, n) ==
    /\ pen[w] = Idle
    /\ MayBegin(w, ch)
    /\ ink[w] > 0
    /\ ink' = [ink EXCEPT ![w] = @ - 1]
    /\ pen' = [pen EXCEPT ![w] = [at |-> "measure", ch |-> ch, n |-> n]]
    /\ shared' = (shared \/ w # Main)
    /\ UNCHANGED <<phase, cell, owner, cellVars, cap, budget, frame, outcome>>

\* take: the room is computed, then taken from the budget.
Measure(w) ==
    /\ pen[w].at = "measure"
    /\ pen' = [pen EXCEPT ![w] = [at |-> "take", ch |-> @.ch, n |-> @.n, room |-> Room(@.n)]]
    /\ UNCHANGED <<phase, cell, owner, cellVars, cap, budget, ink, shared, frame, outcome>>

\* The seeded mistake takes nothing from the budget.
TakeFault(w) ==
    /\ pen[w].at = "take"
    /\ UNCHANGED budget
    /\ cap' = [cap EXCEPT ![pen[w].ch].kept = @ + pen[w].room]
    /\ pen' = [pen EXCEPT ![w] = [at |-> "weigh", ch |-> @.ch, n |-> @.n, room |-> @.room]]
    /\ UNCHANGED <<phase, cell, owner, cellVars, ink, shared, frame, outcome>>

Take(w) ==
    /\ pen[w].at = "take"
    /\ budget' = budget + pen[w].room
    /\ cap' = [cap EXCEPT ![pen[w].ch].kept = @ + pen[w].room]
    /\ pen' = [pen EXCEPT ![w] = [at |-> "weigh", ch |-> @.ch, n |-> @.n, room |-> @.room]]
    /\ UNCHANGED <<phase, cell, owner, cellVars, ink, shared, frame, outcome>>

\* self.retained_chars += len(prefix): it is loaded, len is called, and the
\* sum of what was loaded is stored.
Weigh(w) ==
    /\ pen[w].at = "weigh"
    /\ pen' = [pen EXCEPT ![w] = [at |-> "count", ch |-> @.ch, n |-> @.n, room |-> @.room,
                                  sum |-> cap[@.ch].retained + @.room]]
    /\ UNCHANGED <<phase, cell, owner, cellVars, cap, budget, ink, shared, frame, outcome>>

\* The seeded mistake counts the whole text as retained.
CountFault(w) ==
    /\ pen[w].at = "count"
    /\ cap' = [cap EXCEPT ![pen[w].ch].retained = @ + pen[w].n, ![pen[w].ch].total = @ + pen[w].n]
    /\ pen' = [pen EXCEPT ![w] = Idle]
    /\ UNCHANGED <<phase, cell, owner, cellVars, budget, ink, shared, frame, outcome>>

Count(w) ==
    /\ pen[w].at = "count"
    /\ cap' = [cap EXCEPT
          ![pen[w].ch].retained = IF pen[w].room > 0 THEN pen[w].sum ELSE @,
          ![pen[w].ch].total = @ + pen[w].n]
    /\ pen' = [pen EXCEPT ![w] = Idle]
    /\ UNCHANGED <<phase, cell, owner, cellVars, budget, ink, shared, frame, outcome>>

-----------------------------------------------------------------------------
(* The end of the cell                                                     *)

Texts == [ch \in Channels |-> cap[ch].kept]

\* The three streams are read before the traceback is written to the fourth.
Read ==
    /\ phase = "over"
    /\ frame' = [sent |-> FALSE, text |-> Texts]
    /\ IF error = NoError THEN phase' = "sending" /\ UNCHANGED ink
                          ELSE phase' = "tracing" /\ ink' = [ink EXCEPT ![Main] = 1]
    /\ UNCHANGED <<cell, owner, cellVars, cap, budget, pen, shared, outcome>>

Traced ==
    /\ phase = "tracing"
    /\ ink[Main] = 0
    /\ pen[Main] = Idle
    /\ frame' = [sent |-> FALSE, text |-> [frame.text EXCEPT !["traceback"] = cap["traceback"].kept]]
    /\ phase' = "sending"
    /\ UNCHANGED <<cell, owner, cellVars, writeVars, outcome>>

Truncated(ch) == cap[ch].total > cap[ch].retained

Sent == IF error # NoError \/ latched THEN NoSubmission ELSE submission

\* _send_message refuses what is not strict JSON, and the worker ends with it.
Encodable == error # "unencodable" /\ Sent.text # "unencodable"

Send ==
    /\ phase = "sending"
    /\ IF Encodable
       THEN /\ phase' = "sent"
            /\ frame' = [sent |-> TRUE, text |-> frame.text, error |-> error,
                         latched |-> latched, submission |-> Sent,
                         truncations |->
                           [ch \in {d \in Channels : Truncated(d)} |-> cap[ch]]]
            /\ UNCHANGED outcome
       ELSE phase' = "dead" /\ outcome' = "exited" /\ UNCHANGED frame
    /\ UNCHANGED <<cell, owner, cellVars, writeVars>>

\* The host: a code that is neither text nor null is a broken protocol, a host
\* failure outweighs the exception, and both outweigh the submission.
Decode ==
    /\ phase = "sent"
    /\ outcome' = CASE frame.error = "system_exit" -> "protocol"
                    [] frame.error # "system_exit" /\ frame.latched -> "host_failure"
                    [] frame.error \notin {"system_exit", NoError} /\ ~frame.latched -> "fault"
                    [] frame.error = NoError /\ ~frame.latched ->
                         IF frame.submission # NoSubmission THEN "submitted" ELSE "observed"
    /\ phase' = IF outcome' \in {"protocol", "host_failure"} THEN "dead" ELSE "idle"
    /\ UNCHANGED <<cell, owner, cellVars, writeVars, frame>>

Next ==
    \/ Prelude
    \/ PreludeFails
    \/ Execute
    \/ Rebind
    \/ \E k \in {"text", "response"}, t \in Submissions : Final(k, t)
    \/ \E r \in {"failure", "invalid_request", "no_text"} : HostCall(r)
    \/ \E e \in {NoError, "value_error", "system_exit", "unencodable"} : CellEnds(e)
    \/ \E w \in Writers, ch \in Channels, n \in Lengths : Begin(w, ch, n)
    \/ \E w \in Writers : Measure(w) \/ Take(w) \/ Weigh(w) \/ Count(w)
    \/ Read
    \/ Traced
    \/ Send
    \/ Decode

Spec == Init /\ [][Next]_vars

-----------------------------------------------------------------------------
(* Properties                                                              *)

Told == frame.sent

\* A failure of the host is never lost, even when the cell swallowed the
\* exception and submitted an answer, and an answer counts only if this very
\* cell gave it and did not fail after it.
SubmissionCounts ==
    /\ outcome \in {"observed", "fault", "submitted"} => ~latched
    /\ outcome = "submitted" => error = NoError /\ frame.submission.by = cell

\* What the frame says of a cell that no other thread disturbed: the text it
\* carries is what it counts as retained, a channel is called truncated exactly
\* when something of it is missing, and all texts fit in max_output_chars.
TruncationsExact ==
    Told /\ ~shared =>
       /\ \A ch \in Channels : frame.text[ch] = cap[ch].retained
       /\ DOMAIN frame.truncations =
            {ch \in Channels : frame.text[ch] < cap[ch].total}
       /\ FoldFunction(+, 0, frame.text) <= MaxChars
       /\ (\E ch \in DOMAIN frame.truncations : TRUE) =>
            FoldFunction(+, 0, frame.text) = MaxChars

\* DESIGN.md, "Harness prelude": its names, and those of the ABI, are the
\* harness's own when a cell begins, whatever earlier cells bound them to.
NamesRestored ==
    [][phase # "running" /\ phase' = "running" =>
         \A n \in AbiNames \union Exports : owner'[n] = "harness"]_vars

\* README.md, "Kernel contract": a Python exception and an invalid final
\* submission are faults of the controller, which the recovery policy answers;
\* neither ends the executor.
FaultsAreRecoverable == outcome \notin {"protocol", "exited"}

\* The captured streams of a cell keep no more than their budget.
OutputWithinBudget == Told => FoldFunction(+, 0, frame.text) <= MaxChars
=============================================================================
